------------------------------ MODULE Delivery ------------------------------
(***************************************************************************)
(* How a finished reload reaches its subscribers: Reload composed with the *)
(* Dispatcher and with the two registries of subscription.go.              *)
(*                                                                         *)
(* The callers of Reload are the dispatcher's submitters, and its worker is *)
(* one of them: a handler runs on the worker and may call Reload, Close or *)
(* Unsubscribe, may panic, or may never return.  Where Reload has one step *)
(* for Emit, StopDispatcher and DropHandlers, the steps that the call takes *)
(* inside the dispatcher and the registries are here; the last of them is   *)
(* the step of Reload.                                                      *)
(***************************************************************************)
EXTENDS Reload, Sequences, Functions

CONSTANTS
  Worker,          \* the dispatcher's worker, a caller
  WorkerCloser,    \* the worker when a handler calls Close, a closer
  ChangeHandlers,  \* the handlers given to Subscribe, once each
  ErrorHandlers,   \* the handlers given to SubscribeErrors, once each
  Reentrant,       \* the handlers that may call Reload
  Closing,         \* the handlers that may call Close
  Panicky,         \* the handlers that may panic
  Hanging,         \* the handlers that may never return
  Buffer           \* the size of the dispatcher's queue

Handlers == ChangeHandlers \cup ErrorHandlers

ASSUME DeliveryAssumption ==
  /\ Worker \in Callers
  /\ WorkerCloser \in Closers
  /\ ChangeHandlers \cap ErrorHandlers = {}
  /\ Reentrant \cup Closing \cup Panicky \cup Hanging \subseteq Handlers
  /\ Buffer \in Nat

VARIABLES
  \* the dispatcher, as in module Dispatcher
  queue, dropped, at, hand, worker, running, quit, startOnce, stopAt, answer,
  entered, started, lost, early,
  \* the registries
  changeSubs,    \* the entries of c.changeSubs, in registration order
  errorSubs,     \* the entries of c.errorSubs
  changeClosed,  \* c.changeSubs.closed
  errorClosed,   \* c.errorSubs.closed
  asked,         \* the handlers whose Subscribe has been called
  \* the task that is running
  turn,          \* which of its handlers comes next
  handlerAt,     \* "between" handlers, "inside" one, or after it "panicked"
  heard,         \* what each handler was called with, in order: a history
  \* the order of calls: histories
  sent,          \* how many notifications have been made
  settled,       \* the generations whose Reload has submitted them
  began          \* the generations settled when each caller's call began

(* A notification: one queue entry for all the handlers of its kind.  What *)
(* an error says is left out.                                              *)
Notification == [id : Nat, kind : {"change", "error"}, generation : Nat,
                 handlers : Seq(Handlers), after : SUBSET Nat]

ASSUME NoneIsNoNotification == None \notin Notification

Queue == INSTANCE Dispatcher
  WITH Submitters <- Callers, Stoppers <- Closers, Tasks <- Notification,
       Stuck <- {}, Nil <- None

registryVars == <<changeSubs, errorSubs, changeClosed, errorClosed, asked>>
taskVars == <<turn, handlerAt, heard>>
orderVars == <<sent, settled, began>>
dispatcherVars ==
  <<queue, dropped, at, hand, worker, running, quit, startOnce, stopAt, answer,
    entered, started, lost, early>>
deliveryVars == <<vars, dispatcherVars, registryVars, taskVars, orderVars>>

DeliveryInit ==
  /\ Init
  /\ Queue!Init
  /\ changeSubs = <<>>
  /\ errorSubs = <<>>
  /\ changeClosed = FALSE
  /\ errorClosed = FALSE
  /\ asked = {}
  /\ turn = 1
  /\ handlerAt = "between"
  /\ heard = [h \in Handlers |-> <<>>]
  /\ sent = 0
  /\ settled = {}
  /\ began = [c \in Callers |-> {}]

(***************************************************************************)
(* The running task: dispatchChange's or emitError's loop over the         *)
(* handlers it captured.                                                   *)
(***************************************************************************)
Handler == running.handlers[turn]

Inside == worker = "running" /\ handlerAt = "inside"

(* The worker is doing nothing but running its handler: it is in no call   *)
(* of Reload or Close.                                                     *)
HandlerHasControl ==
  /\ Inside
  /\ pc[Worker] = "idle"
  /\ cpc[WorkerCloser] \in {"idle", "returned"}

TakeTask ==
  /\ Queue!Take
  /\ turn' = 1
  /\ handlerAt' = "between"
  /\ UNCHANGED <<vars, registryVars, heard, orderVars>>

Invoke ==
  /\ worker = "running"
  /\ handlerAt = "between"
  /\ turn <= Len(running.handlers)
  /\ handlerAt' = "inside"
  /\ heard' = [heard EXCEPT ![Handler] = Append(@, running)]
  /\ UNCHANGED <<vars, dispatcherVars, registryVars, turn, orderVars>>

HandlerReturns ==
  /\ HandlerHasControl
  /\ handlerAt' = "between"
  /\ turn' = turn + 1
  /\ UNCHANGED <<vars, dispatcherVars, registryVars, heard, orderVars>>

\* Mutant: one recover for the whole loop.
HandlerPanicsLoop ==
  /\ HandlerHasControl
  /\ Handler \in Panicky
  /\ handlerAt' = "between"
  /\ turn' = Len(running.handlers) + 1
  /\ UNCHANGED <<vars, dispatcherVars, registryVars, heard, orderVars>>

(* A change handler's panic is reported to the error subscribers, an error *)
(* handler's only logged.                                                  *)
HandlerPanics ==
  /\ HandlerHasControl
  /\ Handler \in Panicky
  /\ IF running.kind = "change"
       THEN handlerAt' = "panicked" /\ UNCHANGED turn
       ELSE handlerAt' = "between" /\ turn' = turn + 1
  /\ UNCHANGED <<vars, dispatcherVars, registryVars, heard, orderVars>>

TaskDone ==
  /\ worker = "running"
  /\ handlerAt = "between"
  /\ turn > Len(running.handlers)
  /\ Queue!TaskReturns
  /\ UNCHANGED <<vars, registryVars, taskVars, orderVars>>

(***************************************************************************)
(* Submitting: the handlers are those registered at this moment.           *)
(***************************************************************************)
Subscribers(kind) == IF kind = "change" THEN changeSubs ELSE errorSubs

Event(c, kind) ==
  [id |-> sent + 1,
   kind |-> kind,
   generation |-> IF kind = "change" THEN change[c].generation ELSE 0,
   handlers |-> Subscribers(kind),
   after |-> IF kind = "change" THEN began[c] ELSE {}]

Notify(c, kind) ==
  /\ Subscribers(kind) # <<>>
  /\ Queue!Submit(c, Event(c, kind))
  /\ sent' = sent + 1
  /\ UNCHANGED <<vars, registryVars, taskVars, settled, began>>

KindOf(result) == IF result = "published" THEN "change" ELSE "error"

\* Mutant: the notification is submitted by a goroutine of its own.
EmitLater(c) ==
  /\ pc[c] = "emit"
  /\ Subscribers(KindOf(outcome[c])) # <<>>
  /\ Queue!Submit(c, Event(c, KindOf(outcome[c])))
  /\ Emit(c)
  /\ sent' = sent + 1
  /\ settled' = settled \cup {change[c].generation}
  /\ UNCHANGED <<registryVars, taskVars, began>>

EmitSomething(c) ==
  /\ pc[c] = "emit"
  /\ Notify(c, KindOf(outcome[c]))

Settle(c) ==
  settled' = IF outcome[c] = "published"
               THEN settled \cup {change[c].generation} ELSE settled

EmitNothing(c) ==
  /\ at[c] = "idle"
  /\ Subscribers(KindOf(outcome[c])) = <<>>
  /\ Emit(c)
  /\ Settle(c)
  /\ UNCHANGED <<dispatcherVars, registryVars, taskVars, sent, began>>

ReportPanic ==
  /\ handlerAt = "panicked"
  /\ Notify(Worker, "error")

(* The registry may have been closed, or emptied, since HandlerPanics.     *)
ReportPanicToNobody ==
  /\ handlerAt = "panicked"
  /\ at[Worker] = "idle"
  /\ errorSubs = <<>>
  /\ handlerAt' = "between"
  /\ turn' = turn + 1
  /\ UNCHANGED <<vars, dispatcherVars, registryVars, heard, orderVars>>

(* Submit returns to doReload, which returns, or to invokeChangeHandler,   *)
(* whose task goes on.                                                     *)
SubmitStep(c) ==
  /\ Queue!SubmitStep(c)
  /\ IF at'[c] # "idle" THEN UNCHANGED <<vars, taskVars, orderVars>>
     ELSE IF pc[c] = "emit"
       THEN /\ Emit(c)
            /\ Settle(c)
            /\ UNCHANGED <<taskVars, sent, began>>
       ELSE /\ handlerAt' = "between"
            /\ turn' = turn + 1
            /\ UNCHANGED <<vars, heard, orderVars>>
  /\ UNCHANGED registryVars

(***************************************************************************)
(* Calls of the Config.                                                    *)
(***************************************************************************)
CallReload(c) ==
  /\ c = Worker => HandlerHasControl /\ Handler \in Reentrant
  /\ Call(c)
  /\ began' = [began EXCEPT ![c] = settled]
  /\ UNCHANGED <<dispatcherVars, registryVars, taskVars, sent, settled>>

Reloading(c) ==
  /\ Cancel(c) \/ Attempt(c)
  /\ UNCHANGED <<dispatcherVars, registryVars, taskVars, orderVars>>

(* New starts the worker just before the Config becomes ready.             *)
Construct ==
  \/ /\ Transaction(Builder)
     /\ UNCHANGED <<dispatcherVars, registryVars, taskVars, orderVars>>
  \/ /\ Build
     /\ Queue!Start
     /\ UNCHANGED <<registryVars, taskVars, orderVars>>

CallCloseFrom(k) ==
  /\ k = WorkerCloser => HandlerHasControl /\ Handler \in Closing
  /\ CallClose(k)
  /\ UNCHANGED <<dispatcherVars, registryVars, taskVars, orderVars>>

(* dispatcher.Stop, which is waiting for the worker even when it is the    *)
(* worker that called Close.                                               *)
Stopping(k) ==
  /\ cpc[k] = "stop"
  /\ Queue!CloseQuit(k) \/ Queue!StopStep(k)
  /\ IF stopAt'[k] = "returned" THEN StopDispatcher(k) ELSE UNCHANGED vars
  /\ UNCHANGED <<registryVars, taskVars, orderVars>>

CloseChangeSubs(k) ==
  /\ cpc[k] = "drop"
  /\ ~changeClosed
  /\ changeClosed' = TRUE
  /\ changeSubs' = <<>>
  /\ UNCHANGED <<vars, dispatcherVars, errorSubs, errorClosed, asked, taskVars,
                 orderVars>>

CloseErrorSubs(k) ==
  /\ changeClosed
  /\ DropHandlers(k)
  /\ errorClosed' = TRUE
  /\ errorSubs' = <<>>
  /\ UNCHANGED <<dispatcherVars, changeSubs, changeClosed, asked, taskVars,
                 orderVars>>

Closes(k) ==
  \/ /\ Freeze(k) \/ Finish(k)
     /\ UNCHANGED <<dispatcherVars, registryVars, taskVars, orderVars>>
  \/ Stopping(k)
  \/ CloseChangeSubs(k)
  \/ CloseErrorSubs(k)

(***************************************************************************)
(* Subscribing, from any goroutine; add refuses once the registry is       *)
(* closed, and remove is a no-op for a handler that is not there.          *)
(***************************************************************************)

\* Mutant: Subscribe asks the lifecycle, not the registry.
SubscribeUnlessClosed(h) ==
  /\ pc[Builder] = "done"
  /\ h \notin asked
  /\ asked' = asked \cup {h}
  /\ changeSubs' = IF h \in ChangeHandlers /\ state # "closed"
                     THEN Append(changeSubs, h) ELSE changeSubs
  /\ errorSubs' = IF h \in ErrorHandlers /\ state # "closed"
                    THEN Append(errorSubs, h) ELSE errorSubs
  /\ UNCHANGED <<vars, dispatcherVars, changeClosed, errorClosed, taskVars,
                 orderVars>>

Subscribe(h) ==
  /\ pc[Builder] = "done"
  /\ h \notin asked
  /\ asked' = asked \cup {h}
  /\ changeSubs' = IF h \in ChangeHandlers /\ ~changeClosed
                     THEN Append(changeSubs, h) ELSE changeSubs
  /\ errorSubs' = IF h \in ErrorHandlers /\ ~errorClosed
                    THEN Append(errorSubs, h) ELSE errorSubs
  /\ UNCHANGED <<vars, dispatcherVars, changeClosed, errorClosed, taskVars,
                 orderVars>>

\* Mutant: the entry is cleared in place.
WithoutInPlace(entries, h) ==
  [i \in DOMAIN entries |-> IF entries[i] = h THEN None ELSE entries[i]]

Without(entries, h) ==
  IF h \notin Range(entries) THEN entries
  ELSE LET i == CHOOSE i \in DOMAIN entries : entries[i] = h
       IN  SubSeq(entries, 1, i - 1) \o SubSeq(entries, i + 1, Len(entries))

Unsubscribe(h) ==
  /\ h \in asked
  /\ changeSubs' = Without(changeSubs, h)
  /\ errorSubs' = Without(errorSubs, h)
  /\ UNCHANGED <<vars, dispatcherVars, changeClosed, errorClosed, asked, taskVars,
                 orderVars>>

(***************************************************************************)
(* The specification.                                                      *)
(***************************************************************************)
RunTask ==
  \/ Invoke
  \/ HandlerReturns
  \/ HandlerPanics
  \/ ReportPanic
  \/ ReportPanicToNobody
  \/ TaskDone

WorkerLoop ==
  /\ Queue!Look \/ Queue!SelectQuit
  /\ UNCHANGED <<vars, registryVars, taskVars, orderVars>>

Works == WorkerLoop \/ TakeTask \/ RunTask

Emits(c) ==
  \/ EmitSomething(c)
  \/ EmitNothing(c)
  \/ SubmitStep(c)

(* Nobody is inside a call, and the worker waits for work or is gone.      *)
DeliveryQuiescent ==
  /\ Quiescent
  /\ \A c \in Callers : at[c] = "idle"
  /\ \/ worker \in {"none", "exited"}
     \/ worker = "select" /\ queue = <<>> /\ ~quit

DeliveryRest == DeliveryQuiescent /\ UNCHANGED deliveryVars

DeliveryNext ==
  \/ Construct
  \/ \E c \in Callers : CallReload(c) \/ Reloading(c) \/ Emits(c)
  \/ \E k \in Closers : CallCloseFrom(k) \/ Closes(k)
  \/ \E h \in Handlers : Subscribe(h) \/ Unsubscribe(h)
  \/ Works
  \/ DeliveryRest

DeliverySpec == DeliveryInit /\ [][DeliveryNext]_deliveryVars

(* Every goroutine runs, and timers fire; but nothing makes a handler in   *)
(* Hanging return, or anybody call anything.                               *)
Hung == HandlerHasControl /\ Handler \in Hanging

DeliveryFairness ==
  /\ WF_deliveryVars(Construct)
  /\ \A c \in Callers :
       WF_deliveryVars((Attempt(c) /\ Reloading(c)) \/ Emits(c))
  /\ \A k \in Closers : WF_deliveryVars(Closes(k))
  /\ WF_deliveryVars(~Hung /\ Works)

FairDeliverySpec == DeliverySpec /\ DeliveryFairness

(***************************************************************************)
(* Properties.                                                             *)
(***************************************************************************)

(* Every variable holds what its Go counterpart can hold.                  *)
DeliveryTypeOK ==
  /\ Queue!TypeOK
  /\ changeSubs \in Seq(ChangeHandlers)
  /\ errorSubs \in Seq(ErrorHandlers)
  /\ changeClosed \in BOOLEAN
  /\ errorClosed \in BOOLEAN
  /\ asked \subseteq Handlers
  /\ turn \in Nat \ {0}
  /\ handlerAt \in {"between", "inside", "panicked"}
  /\ heard \in [Handlers -> Seq(Notification)]
  /\ sent \in Nat
  /\ settled \subseteq Nat
  /\ began \in [Callers -> SUBSET Nat]

(* Reloads that did not overlap are heard in order: no handler hears the   *)
(* change of a call after that of a call that began when it had returned.  *)
CallOrderIsKept ==
  \A h \in ChangeHandlers : \A i, j \in DOMAIN heard[h] :
    i < j => heard[h][j].generation \notin heard[h][i].after

(* How many of its handlers a notification has been through.               *)
Reached(n) == IF n = running THEN turn - 1 ELSE Len(n.handlers)

(* Every handler that an event captured is called with it exactly once,    *)
(* though the ones before it panic, are cancelled meanwhile, reload or     *)
(* close.                                                                  *)
NobodyIsSkipped ==
  \A n \in Queue!Started : \A i \in 1 .. Reached(n) :
    Cardinality({j \in DOMAIN heard[n.handlers[i]] :
                   heard[n.handlers[i]][j] = n}) = 1

(* Once Close has returned the registries are empty for good, however late *)
(* a Subscribe arrived.                                                    *)
ClosedRegistriesAreEmpty ==
  state = "closed" => changeSubs = <<>> /\ errorSubs = <<>>

(***************************************************************************)
(* The inductive invariant the proofs use, with those of Reload and of the *)
(* Dispatcher.                                                             *)
(***************************************************************************)

(* A registry holds each handler once, none once it is closed, and both    *)
(* are closed before Close comes to its end.                               *)
RegistriesAgree ==
  /\ IsInjective(changeSubs) /\ Range(changeSubs) \subseteq asked
  /\ IsInjective(errorSubs) /\ Range(errorSubs) \subseteq asked
  /\ changeClosed => changeSubs = <<>>
  /\ errorClosed => errorSubs = <<>>
  /\ (\E k \in Closers : cpc[k] = "finish") \/ state = "closed"
       => changeClosed /\ errorClosed

(* Every notification ever made has a number of its own and names each of  *)
(* its handlers once.                                                      *)
Made == Queue!Entered \cup lost \cup Queue!InHand

NotificationsAreNumbered ==
  \A n \in Made : n.id <= sent /\ IsInjective(n.handlers)

(* Whoever is inside Submit is a caller about to return from Reload, or    *)
(* the worker reporting a panic, which is then in no call of Reload.       *)
SubmittersAreKnown ==
  /\ \A c \in Callers :
       at[c] # "idle" => pc[c] = "emit" \/ (c = Worker /\ handlerAt = "panicked")
  /\ handlerAt = "panicked" => pc[Worker] = "idle"

(* The running task is the last one taken, and its loop is inside bounds.  *)
RunningIsLast ==
  /\ worker = "running" <=> running # None
  /\ worker = "running" =>
       /\ started # <<>> /\ running = started[Len(started)]
       /\ turn <= Len(running.handlers) + 1
  /\ handlerAt # "between" =>
       worker = "running" /\ turn <= Len(running.handlers)

(* A handler has heard the notifications whose loops have come to it, in   *)
(* the order in which they were taken.                                     *)
Called(n, i) ==
  n = running => i < turn \/ (i = turn /\ handlerAt # "between")

HeardAsStarted ==
  /\ \A h \in Handlers :
       Range(heard[h]) \subseteq Queue!Started /\ Queue!InOrder(heard[h], started)
  /\ \A n \in Queue!Started : \A i \in DOMAIN n.handlers :
       n \in Range(heard[n.handlers[i]]) <=> Called(n, i)

(* A caller holds a change from Advance on, until it has been submitted.   *)
HoldsChange(c) ==
  \/ pc[c] \in {"store", "count"}
  \/ pc[c] \in {"release", "report", "emit"} /\ outcome[c] = "published"

(* No change that a caller still holds is settled, nor one that is on its  *)
(* way into the queue; what was settled when a call began stays so.        *)
HeldIsUnsettled ==
  /\ settled \subseteq 1 .. generation
  /\ \A c \in Callers :
       /\ began[c] \subseteq settled
       /\ HoldsChange(c) => change[c].generation \in (1 .. generation) \ settled
       /\ hand[c] # None /\ hand[c].generation # 0 =>
            /\ pc[c] = "emit" /\ outcome[c] = "published"
            /\ hand[c].generation = change[c].generation

(* So a change enters the queue behind every call that began before it was *)
(* settled.                                                                *)
SettledComesFirst ==
  /\ \A n \in Queue!Entered \cup Queue!InHand : n.after \subseteq settled
  /\ \A a, b \in DOMAIN entered :
       a < b => entered[b].generation \notin entered[a].after

DeliveryInv ==
  /\ RegistriesAgree
  /\ NotificationsAreNumbered
  /\ SubmittersAreKnown
  /\ RunningIsLast
  /\ HeardAsStarted
  /\ HeldIsUnsettled
  /\ SettledComesFirst

(* What the docs say of the order of delivery: events arrive in the order  *)
(* they were published in.                                                 *)
PublicationOrder ==
  \A h \in ChangeHandlers : \A i, j \in DOMAIN heard[h] :
    i < j => heard[h][i].generation < heard[h][j].generation

(* What the docs say of a closed Config: it retains no handler.            *)
ClosedRetainsNoHandler ==
  (state = "closed" /\ worker = "exited") => queue = <<>>

ChangeIn(notifications, g) ==
  \E n \in notifications : n.kind = "change" /\ n.generation = g

(* A change that was submitted is started, or dropped for a newer one, or  *)
(* abandoned by Close, unless a handler hangs for good.                    *)
EveryChangeIsSettled ==
  \/ <>[]Hung
  \/ \A g \in 1 .. MaxCalls + 1 :
       ChangeIn(Queue!Queued \cup Queue!InHand, g)
         ~> (ChangeIn(Queue!Started \cup lost, g) \/ quit)

(* Reload returns, from a handler too, and with a handler that hangs: the  *)
(* publisher never waits for a subscriber.                                 *)
ReloadNeverWaitsForHandlers ==
  \A c \in Callers : pc[c] = "entry" ~> pc[c] = "idle"

(* Close returns, also from inside a handler, where it waits for itself.   *)
CloseNeverWaitsForEver ==
  \A k \in Closers : cpc[k] = "lock" ~> cpc[k] = "returned"
=============================================================================
