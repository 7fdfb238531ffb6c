--------------------------- MODULE DeliveryProofs ---------------------------
(***************************************************************************)
(* Theorems about Delivery for every set of callers, closers and handlers, *)
(* whatever the handlers do, and every size of the queue.                  *)
(*                                                                         *)
(* Delivery composes two modules that have theorems of their own: each of  *)
(* its steps is a step of Reload and a step of the Dispatcher, or leaves   *)
(* them alone, so what was proved of them carries over.                    *)
(***************************************************************************)
EXTENDS Delivery, ReloadProofs, SequenceFacts, FiniteSetTheorems

(* The theorems of the dispatcher, about the dispatcher of a Config.       *)
QueueProofs == INSTANCE DispatcherProofs
  WITH Submitters <- Callers, Stoppers <- Closers, Tasks <- Notification,
       Stuck <- {}, Nil <- None

(***************************************************************************)
(* Delivery implements Reload.                                             *)
(***************************************************************************)

(* What a step can be, as one list.                                        *)
LEMMA DeliveryStepIsOneOf ==
  ASSUME [DeliveryNext]_deliveryVars
  PROVE  \/ Construct
         \/ \E c \in Callers :
              \/ CallReload(c) \/ Reloading(c) \/ EmitSomething(c)
              \/ EmitNothing(c) \/ SubmitStep(c)
         \/ \E k \in Closers :
              \/ CallCloseFrom(k) \/ Stopping(k) \/ CloseChangeSubs(k)
              \/ CloseErrorSubs(k)
              \/ /\ Freeze(k) \/ Finish(k)
                 /\ UNCHANGED <<dispatcherVars, registryVars, taskVars, orderVars>>
         \/ \E h \in Handlers : Subscribe(h) \/ Unsubscribe(h)
         \/ WorkerLoop \/ TakeTask \/ Invoke \/ HandlerReturns \/ HandlerPanics
         \/ ReportPanic \/ ReportPanicToNobody \/ TaskDone
         \/ UNCHANGED deliveryVars
  BY DEF DeliveryNext, Emits, Closes, Works, RunTask, DeliveryRest

(* What a step does to the variables of Reload; the registries are closed  *)
(* where Reload drops the handlers.                                        *)
LEMMA ReloadPart ==
  ASSUME [DeliveryNext]_deliveryVars
  PROVE  \/ Transaction(Builder) \/ Build
         \/ \E c \in Callers : Call(c) \/ Cancel(c) \/ Attempt(c) \/ Emit(c)
         \/ \E k \in Closers :
              \/ CallClose(k) \/ Freeze(k) \/ StopDispatcher(k)
              \/ CloseErrorSubs(k) \/ Finish(k)
         \/ UNCHANGED vars
  <1>1. CASE Construct
    BY <1>1 DEF Construct
  <1>2. ASSUME NEW c \in Callers,
               \/ CallReload(c) \/ Reloading(c) \/ EmitSomething(c)
               \/ EmitNothing(c) \/ SubmitStep(c)
        PROVE  Call(c) \/ Cancel(c) \/ Attempt(c) \/ Emit(c) \/ UNCHANGED vars
    BY <1>2
    DEF CallReload, Reloading, EmitSomething, Notify, EmitNothing, SubmitStep
  <1>3. ASSUME NEW k \in Closers,
               \/ CallCloseFrom(k) \/ Stopping(k) \/ CloseChangeSubs(k)
               \/ CloseErrorSubs(k) \/ Freeze(k) \/ Finish(k)
        PROVE  \/ CallClose(k) \/ Freeze(k) \/ StopDispatcher(k)
               \/ CloseErrorSubs(k) \/ Finish(k) \/ UNCHANGED vars
    BY <1>3 DEF CallCloseFrom, Stopping, CloseChangeSubs
  <1>4. ASSUME NEW h \in Handlers, Subscribe(h) \/ Unsubscribe(h)
        PROVE  UNCHANGED vars
    BY <1>4 DEF Subscribe, Unsubscribe
  <1>5. CASE \/ WorkerLoop \/ TakeTask \/ Invoke \/ HandlerReturns
             \/ HandlerPanics \/ ReportPanic \/ ReportPanicToNobody \/ TaskDone
             \/ UNCHANGED deliveryVars
    BY <1>5
    DEF WorkerLoop, TakeTask, Invoke, HandlerReturns, HandlerPanics,
        ReportPanic, Notify, ReportPanicToNobody, TaskDone, deliveryVars
  <1> QED
    BY <1>1, <1>2, <1>3, <1>4, <1>5, DeliveryStepIsOneOf

(* So every step of Delivery is a step of Reload or leaves it alone.       *)
LEMMA StepOfReload == [DeliveryNext]_deliveryVars => [Next]_vars
  BY ReloadPart DEF Next, New, DoReload, Close, CloseErrorSubs

(* A Config with subscribers reloads and closes as module Reload says, so  *)
(* every theorem about Reload holds of it, handlers that reload, close,    *)
(* panic or hang included.                                                 *)
THEOREM DeliveryImplementsReload == DeliverySpec => Spec
  <1>1. DeliveryInit => Init
    BY DEF DeliveryInit
  <1> QED
    BY <1>1, StepOfReload, PTL DEF DeliverySpec, Spec

(***************************************************************************)
(* Delivery implements the Dispatcher.                                     *)
(***************************************************************************)

(* What the dispatcher's theorems assume of its constants holds here.      *)
LEMMA QueueAssumption == QueueProofs!DispatcherAssumption
  BY DeliveryAssumption, NoneIsNoNotification DEF QueueProofs!DispatcherAssumption

(* The operators on data do not depend on the instance.                    *)
LEMMA SameOperators ==
  /\ \A f : Queue!Range(f) = Range(f) /\ QueueProofs!Range(f) = Range(f)
  /\ \A f : /\ Queue!IsInjective(f) <=> IsInjective(f)
            /\ QueueProofs!IsInjective(f) <=> IsInjective(f)
  /\ \A s, all : Queue!InOrder(s, all) <=> QueueProofs!InOrder(s, all)
  /\ \A T : Queue!IsFiniteSet(T) <=> QueueProofs!IsFiniteSet(T)
  /\ \A T : Queue!Cardinality(T) = QueueProofs!Cardinality(T)
  <1>1. /\ \A f : Queue!Range(f) = Range(f) /\ QueueProofs!Range(f) = Range(f)
        /\ \A f : /\ Queue!IsInjective(f) <=> IsInjective(f)
                  /\ QueueProofs!IsInjective(f) <=> IsInjective(f)
        /\ \A s, all : Queue!InOrder(s, all) <=> QueueProofs!InOrder(s, all)
    BY DEF Range, Queue!Range, QueueProofs!Range,
           IsInjective, Queue!IsInjective, QueueProofs!IsInjective,
           Queue!InOrder, QueueProofs!InOrder
  <1>2. \A T : Queue!IsFiniteSet(T) <=> QueueProofs!IsFiniteSet(T)
    BY DEF Queue!IsFiniteSet, QueueProofs!IsFiniteSet
  <1>3. \A T : Queue!Cardinality(T) = QueueProofs!Cardinality(T)
    BY <1>2 DEF Queue!Cardinality, QueueProofs!Cardinality
  <1> QED
    BY <1>1, <1>2, <1>3

(* Both instances of Dispatcher have one invariant.                        *)
LEMMA SameState ==
  /\ Queue!TypeOK <=> QueueProofs!TypeOK
  /\ Queue!DispatcherInv <=> QueueProofs!DispatcherInv
  <1>1. Queue!TypeOK <=> QueueProofs!TypeOK
    BY DEF Queue!TypeOK, QueueProofs!TypeOK, Queue!Points, QueueProofs!Points,
           Queue!Capacity, QueueProofs!Capacity
  <1>2. /\ Queue!Entered = QueueProofs!Entered
        /\ Queue!Started = QueueProofs!Started
        /\ Queue!Queued = QueueProofs!Queued
        /\ Queue!InHand = QueueProofs!InHand
        /\ Queue!Kept = QueueProofs!Kept
        /\ Queue!Uncounted = QueueProofs!Uncounted
    BY SameOperators
    DEF Queue!Entered, QueueProofs!Entered, Queue!Started, QueueProofs!Started,
        Queue!Queued, QueueProofs!Queued, Queue!InHand, QueueProofs!InHand,
        Queue!Kept, QueueProofs!Kept, Queue!Uncounted, QueueProofs!Uncounted
  <1>3. /\ Queue!HandsAreApart <=> QueueProofs!HandsAreApart
        /\ Queue!DropsAreCounted <=> QueueProofs!DropsAreCounted
    BY <1>2, SameOperators
    DEF Queue!HandsAreApart, QueueProofs!HandsAreApart,
        Queue!DropsAreCounted, QueueProofs!DropsAreCounted
  <1>4. Queue!FirstInFirstOut <=> QueueProofs!FirstInFirstOut
    BY <1>2, SameOperators DEF Queue!FirstInFirstOut, QueueProofs!FirstInFirstOut
  <1>5. /\ Queue!StopIsSeen <=> QueueProofs!StopIsSeen
        /\ Queue!AtMostOneLateStart <=> QueueProofs!AtMostOneLateStart
        /\ Queue!WorkerIsClaimed <=> QueueProofs!WorkerIsClaimed
        /\ Queue!FinishedIsFinal <=> QueueProofs!FinishedIsFinal
    BY DEF Queue!StopIsSeen, QueueProofs!StopIsSeen,
           Queue!AtMostOneLateStart, QueueProofs!AtMostOneLateStart,
           Queue!WorkerIsClaimed, QueueProofs!WorkerIsClaimed,
           Queue!FinishedIsFinal, QueueProofs!FinishedIsFinal
  <1>6. Queue!IsFiniteSet(Queue!Uncounted)
          <=> QueueProofs!IsFiniteSet(QueueProofs!Uncounted)
    BY <1>2, SameOperators
  <1> QED
    BY <1>1, <1>3, <1>4, <1>5, <1>6, SameOperators
    DEF Queue!DispatcherInv, QueueProofs!DispatcherInv

(* The same for their initial states and their steps.                      *)
LEMMA SameSteps ==
  /\ Queue!Init => QueueProofs!Init
  /\ [Queue!Next]_(Queue!vars) => [QueueProofs!Next]_(QueueProofs!vars)
  <1>1. Queue!Init => QueueProofs!Init
    BY DEF Queue!Init, QueueProofs!Init
  <1>2. \A t : Queue!Fresh(t) => QueueProofs!Fresh(t)
    BY SameOperators
    DEF Queue!Fresh, QueueProofs!Fresh, Queue!Entered, QueueProofs!Entered,
        Queue!InHand, QueueProofs!InHand
  <1> USE DEF Queue!vars, QueueProofs!vars,
              Queue!queueVars, QueueProofs!queueVars,
              Queue!submitVars, QueueProofs!submitVars,
              Queue!workerVars, QueueProofs!workerVars,
              Queue!stopVars, QueueProofs!stopVars
  <1>3. ASSUME NEW c \in Callers
        PROVE  /\ \A t : Queue!Submit(c, t) => QueueProofs!Submit(c, t)
               /\ Queue!SubmitStep(c) => QueueProofs!SubmitStep(c)
    BY DEF Queue!Submit, QueueProofs!Submit,
           Queue!SubmitStep, QueueProofs!SubmitStep,
           Queue!Send, QueueProofs!Send, Queue!Resend, QueueProofs!Resend,
           Queue!DropOldest, QueueProofs!DropOldest,
           Queue!CountOldest, QueueProofs!CountOldest,
           Queue!CountOwn, QueueProofs!CountOwn,
           Queue!CountDrop, QueueProofs!CountDrop,
           Queue!Enqueue, QueueProofs!Enqueue, Queue!Discard, QueueProofs!Discard,
           Queue!PartWith, QueueProofs!PartWith,
           Queue!Capacity, QueueProofs!Capacity
  <1>4. (Queue!Start => QueueProofs!Start) /\ (Queue!Run => QueueProofs!Run)
    BY DEF Queue!Start, QueueProofs!Start, Queue!Run, QueueProofs!Run,
           Queue!Look, QueueProofs!Look, Queue!SelectQuit, QueueProofs!SelectQuit,
           Queue!Take, QueueProofs!Take,
           Queue!TaskReturns, QueueProofs!TaskReturns
  <1>5. ASSUME NEW k \in Closers
        PROVE  /\ Queue!CloseQuit(k) => QueueProofs!CloseQuit(k)
               /\ Queue!StopStep(k) => QueueProofs!StopStep(k)
    BY DEF Queue!CloseQuit, QueueProofs!CloseQuit,
           Queue!StopStep, QueueProofs!StopStep, Queue!Claim, QueueProofs!Claim,
           Queue!Finished, QueueProofs!Finished,
           Queue!Expired, QueueProofs!Expired,
           Queue!MoveStopper, QueueProofs!MoveStopper,
           Queue!Answer, QueueProofs!Answer
  <1>6. (Queue!Rest \/ UNCHANGED Queue!vars) => UNCHANGED QueueProofs!vars
    BY DEF Queue!Rest
  <1> QED
    BY <1>1, <1>2, <1>3, <1>4, <1>5, <1>6 DEF Queue!Next, QueueProofs!Next

(* The dispatcher's own proof that it keeps its invariant.                 *)
LEMMA QueueInvStep ==
  ASSUME Queue!TypeOK, Queue!DispatcherInv, [Queue!Next]_(Queue!vars)
  PROVE  Queue!TypeOK' /\ Queue!DispatcherInv'
  <1>1. QueueProofs!TypeOK /\ QueueProofs!DispatcherInv
    BY SameState
  <1>2. [QueueProofs!Next]_(QueueProofs!vars)
    BY SameSteps
  <1>3. QueueProofs!TypeOK' /\ QueueProofs!DispatcherInv'
    BY <1>1, <1>2, QueueAssumption, QueueProofs!DispatcherInvStep
  <1>4. /\ Queue!TypeOK' <=> QueueProofs!TypeOK'
        /\ Queue!DispatcherInv' <=> QueueProofs!DispatcherInv'
    BY SameState, PTL
  <1> QED
    BY <1>3, <1>4

(* What a step does to the variables of the dispatcher.                    *)
LEMMA QueuePart ==
  ASSUME [DeliveryNext]_deliveryVars
  PROVE  \/ Queue!Start \/ Queue!Look \/ Queue!SelectQuit \/ Queue!Take
         \/ Queue!TaskReturns
         \/ \E c \in Callers : Notify(c, "change") \/ Notify(c, "error")
         \/ \E c \in Callers : Queue!SubmitStep(c)
         \/ \E k \in Closers : Queue!CloseQuit(k) \/ Queue!StopStep(k)
         \/ UNCHANGED dispatcherVars
  <1>1. CASE Construct
    BY <1>1 DEF Construct
  <1>2. ASSUME NEW c \in Callers,
               \/ CallReload(c) \/ Reloading(c) \/ EmitSomething(c)
               \/ EmitNothing(c) \/ SubmitStep(c)
        PROVE  \/ Notify(c, "change") \/ Notify(c, "error")
               \/ Queue!SubmitStep(c)
               \/ UNCHANGED dispatcherVars
    BY <1>2
    DEF CallReload, Reloading, EmitSomething, KindOf, EmitNothing, SubmitStep
  <1>3. ASSUME NEW k \in Closers,
               \/ CallCloseFrom(k) \/ Stopping(k) \/ CloseChangeSubs(k)
               \/ CloseErrorSubs(k)
               \/ /\ Freeze(k) \/ Finish(k)
                  /\ UNCHANGED <<dispatcherVars, registryVars, taskVars, orderVars>>
        PROVE  \/ Queue!CloseQuit(k) \/ Queue!StopStep(k)
               \/ UNCHANGED dispatcherVars
    BY <1>3 DEF CallCloseFrom, Stopping, CloseChangeSubs, CloseErrorSubs
  <1>4. ASSUME NEW h \in Handlers, Subscribe(h) \/ Unsubscribe(h)
        PROVE  UNCHANGED dispatcherVars
    BY <1>4 DEF Subscribe, Unsubscribe
  <1>5. CASE ReportPanic
    BY <1>5, DeliveryAssumption DEF ReportPanic
  <1>6. CASE \/ WorkerLoop \/ TakeTask \/ Invoke \/ HandlerReturns
             \/ HandlerPanics \/ ReportPanicToNobody \/ TaskDone
             \/ UNCHANGED deliveryVars
    BY <1>6
    DEF WorkerLoop, TakeTask, Invoke, HandlerReturns, HandlerPanics,
        ReportPanicToNobody, TaskDone, deliveryVars
  <1> QED
    BY <1>1, <1>2, <1>3, <1>4, <1>5, <1>6, DeliveryStepIsOneOf

(* The event that a submitter makes is a notification, and a new one.      *)
LEMMA EventIsFresh ==
  ASSUME TypeOK, DeliveryTypeOK, NotificationsAreNumbered,
         NEW c \in Callers, NEW kind \in {"change", "error"}
  PROVE  Event(c, kind) \in Notification /\ Queue!Fresh(Event(c, kind))
  <1> DEFINE e == Event(c, kind)
  <1>1. /\ sent \in Nat /\ change[c].generation \in Nat /\ began[c] \in SUBSET Nat
        /\ Subscribers(kind) \in Seq(Handlers)
    <2>1. changeSubs \in Seq(Handlers) /\ errorSubs \in Seq(Handlers)
      BY SeqMonotonic DEF DeliveryTypeOK, Handlers
    <2>2. change[c] \in Changes
      BY DEF TypeOK, Processes
    <2> QED
      BY <2>1, <2>2 DEF DeliveryTypeOK, Subscribers, Changes
  <1>2. e \in Notification
    BY <1>1 DEF Event, Notification
  <1>3. e.id = sent + 1
    BY DEF Event
  <1>4. e \notin Made
    BY <1>1, <1>3 DEF NotificationsAreNumbered
  <1> QED
    BY <1>2, <1>4 DEF Made, Queue!Fresh

(* So every step of Delivery is a step of the Dispatcher or leaves it      *)
(* alone.                                                                  *)
LEMMA StepOfQueue ==
  ASSUME TypeOK, DeliveryTypeOK, NotificationsAreNumbered,
         [DeliveryNext]_deliveryVars
  PROVE  [Queue!Next]_(Queue!vars)
  <1>1. ASSUME NEW c \in Callers, NEW kind \in {"change", "error"}, Notify(c, kind)
        PROVE  Queue!Next
    BY <1>1, EventIsFresh DEF Notify, Queue!Next
  <1>2. UNCHANGED dispatcherVars => UNCHANGED Queue!vars
    BY DEF dispatcherVars, Queue!vars, Queue!queueVars, Queue!submitVars,
           Queue!workerVars, Queue!stopVars
  <1> QED
    BY <1>1, <1>2, QueuePart DEF Queue!Next, Queue!Run

(***************************************************************************)
(* The registries.                                                         *)
(***************************************************************************)

(* remove takes out the handler, if it is there, and leaves the others.    *)
LEMMA WithoutOne ==
  ASSUME NEW S, NEW s \in Seq(S), IsInjective(s), NEW h
  PROVE  /\ Without(s, h) \in Seq(S)
         /\ IsInjective(Without(s, h))
         /\ Range(Without(s, h)) = Range(s) \ {h}
         /\ s = <<>> => Without(s, h) = <<>>
  <1>1. CASE h \notin Range(s)
    BY <1>1 DEF Without
  <1>2. CASE h \in Range(s)
    <2> DEFINE k == CHOOSE i \in DOMAIN s : s[i] = h
    <2>1. k \in DOMAIN s /\ s[k] = h
      BY <1>2 DEF Range
    <2>2. Without(s, h) = SubSeq(s, 1, k - 1) \o SubSeq(s, k + 1, Len(s))
      BY <1>2 DEF Without
    <2> HIDE DEF k
    <2>3. s # <<>>
      BY <2>1
    <2> QED
      BY <2>1, <2>2, <2>3, CutOut
  <1> QED
    BY <1>1, <1>2

(* What a step does to the registries.                                     *)
LEMMA RegistryPart ==
  ASSUME [DeliveryNext]_deliveryVars
  PROVE  \/ \E h \in Handlers : Subscribe(h) \/ Unsubscribe(h)
         \/ \E k \in Closers : CloseChangeSubs(k) \/ CloseErrorSubs(k)
         \/ UNCHANGED registryVars
  <1> USE DEF CallReload, Reloading, EmitSomething, Notify, EmitNothing,
              SubmitStep, CallCloseFrom, Stopping, Construct, WorkerLoop,
              TakeTask, Invoke, HandlerReturns, HandlerPanics, ReportPanic,
              ReportPanicToNobody, TaskDone, deliveryVars
  <1>1. ASSUME NEW c \in Callers,
               \/ CallReload(c) \/ Reloading(c) \/ EmitSomething(c)
               \/ EmitNothing(c) \/ SubmitStep(c)
        PROVE  UNCHANGED registryVars
    BY <1>1
  <1>2. ASSUME NEW k \in Closers,
               \/ CallCloseFrom(k) \/ Stopping(k) \/ CloseChangeSubs(k)
               \/ CloseErrorSubs(k)
               \/ UNCHANGED <<dispatcherVars, registryVars, taskVars, orderVars>>
        PROVE  CloseChangeSubs(k) \/ CloseErrorSubs(k) \/ UNCHANGED registryVars
    BY <1>2
  <1> QED
    BY <1>1, <1>2, DeliveryStepIsOneOf

(* The registries hold handlers of their kind.                             *)
LEMMA RegistryTypes ==
  ASSUME DeliveryTypeOK, RegistriesAgree, [DeliveryNext]_deliveryVars
  PROVE  /\ (changeSubs \in Seq(ChangeHandlers))'
         /\ (errorSubs \in Seq(ErrorHandlers))'
         /\ (changeClosed \in BOOLEAN)'
         /\ (errorClosed \in BOOLEAN)'
         /\ (asked \subseteq Handlers)'
  <1> USE DEF DeliveryTypeOK, RegistriesAgree
  <1>1. ASSUME NEW h \in Handlers, Subscribe(h)
        PROVE  /\ (changeSubs \in Seq(ChangeHandlers))'
               /\ (errorSubs \in Seq(ErrorHandlers))'
               /\ UNCHANGED <<changeClosed, errorClosed>>
               /\ asked' = asked \cup {h}
    BY <1>1 DEF Subscribe
  <1>2. ASSUME NEW h \in Handlers, Unsubscribe(h)
        PROVE  /\ (changeSubs \in Seq(ChangeHandlers))'
               /\ (errorSubs \in Seq(ErrorHandlers))'
               /\ UNCHANGED <<changeClosed, errorClosed, asked>>
    BY <1>2, WithoutOne DEF Unsubscribe
  <1>3. ASSUME NEW k \in Closers, CloseChangeSubs(k) \/ CloseErrorSubs(k)
        PROVE  /\ (changeSubs \in Seq(ChangeHandlers))'
               /\ (errorSubs \in Seq(ErrorHandlers))'
               /\ (changeClosed \in BOOLEAN)'
               /\ (errorClosed \in BOOLEAN)'
               /\ UNCHANGED asked
    <2>1. <<>> \in Seq(ChangeHandlers) /\ <<>> \in Seq(ErrorHandlers)
      OBVIOUS
    <2>2. CASE CloseChangeSubs(k)
      BY <2>1, <2>2 DEF CloseChangeSubs
    <2>3. CASE CloseErrorSubs(k)
      BY <2>1, <2>3 DEF CloseErrorSubs
    <2> QED
      BY <1>3, <2>2, <2>3
  <1> QED
    BY <1>1, <1>2, <1>3, RegistryPart DEF registryVars

(* Close comes to its end only by closing the second registry.             *)
LEMMA EndingStep ==
  ASSUME TypeOK, [DeliveryNext]_deliveryVars,
         ~((\E k \in Closers : cpc[k] = "finish") \/ state = "closed"),
         ((\E k \in Closers : cpc[k] = "finish") \/ state = "closed")'
  PROVE  \E k \in Closers : CloseErrorSubs(k)
  <1> DEFINE Ending == (\E k \in Closers : cpc[k] = "finish") \/ state = "closed"
  <1>1. ASSUME NEW p \in Processes,
               \/ Transaction(p) \/ Attempt(p) \/ Call(p) \/ Cancel(p) \/ Emit(p)
        PROVE  UNCHANGED <<cpc, state>>
    BY <1>1
    DEF Transaction, Attempt, Call, Cancel, Entry, Acquire, GiveUp, Interrupted,
        Recheck, Release, Emit, ReadIntoViper, Unmarshal, Validate, Lock,
        Check, Advance, Store, Count, ReportFailure, lifecycleVars
  <1>2. Build => ~Ending'
    BY DEF Build, Ready
  <1>3. ASSUME NEW k \in Closers,
               CallClose(k) \/ Freeze(k) \/ StopDispatcher(k) \/ Finish(k)
        PROVE  ~Ending'
    BY <1>3
    DEF CallClose, Freeze, StopDispatcher, Finish, LockToClose, StartClosing,
        AlreadyClosing, Signal, BeginClose, SignalDone, FinishClose,
        MoveCloser, lifecycleVars, TypeOK
  <1>4. UNCHANGED vars => UNCHANGED <<cpc, state>>
    BY DEF vars, lifecycleVars
  <1> QED
    BY <1>1, <1>2, <1>3, <1>4, ReloadPart DEF Processes

(* A closed registry takes no handler any more, and Close goes on to its   *)
(* end only when both are closed.                                          *)
LEMMA RegistriesStep ==
  ASSUME TypeOK, DeliveryTypeOK, RegistriesAgree, [DeliveryNext]_deliveryVars
  PROVE  RegistriesAgree'
  <1> DEFINE Ending == (\E k \in Closers : cpc[k] = "finish") \/ state = "closed"
             Kinds == /\ IsInjective(changeSubs) /\ Range(changeSubs) \subseteq asked
                      /\ IsInjective(errorSubs) /\ Range(errorSubs) \subseteq asked
                      /\ changeClosed => changeSubs = <<>>
                      /\ errorClosed => errorSubs = <<>>
             StayClosed == (changeClosed => changeClosed')
                             /\ (errorClosed => errorClosed')
  <1>1. changeSubs \in Seq(ChangeHandlers) /\ errorSubs \in Seq(ErrorHandlers)
    BY DEF DeliveryTypeOK
  <1>2. Kinds
    BY DEF RegistriesAgree
  <1>3. ASSUME NEW h \in Handlers, Subscribe(h)
        PROVE  Kinds' /\ StayClosed
    <2>1. h \notin Range(changeSubs) /\ h \notin Range(errorSubs)
      BY <1>2, <1>3 DEF Subscribe
    <2>2. /\ IsInjective(changeSubs') /\ Range(changeSubs') \subseteq asked'
          /\ changeClosed' => changeSubs' = <<>>
      <3>1. CASE h \in ChangeHandlers /\ ~changeClosed
        BY <1>1, <1>2, <1>3, <2>1, <3>1, RangeOfAppend, AppendIsInjective
        DEF Subscribe
      <3>2. CASE ~(h \in ChangeHandlers /\ ~changeClosed)
        BY <1>2, <1>3, <3>2 DEF Subscribe
      <3> QED
        BY <3>1, <3>2
    <2>3. /\ IsInjective(errorSubs') /\ Range(errorSubs') \subseteq asked'
          /\ errorClosed' => errorSubs' = <<>>
      <3>1. CASE h \in ErrorHandlers /\ ~errorClosed
        BY <1>1, <1>2, <1>3, <2>1, <3>1, RangeOfAppend, AppendIsInjective
        DEF Subscribe
      <3>2. CASE ~(h \in ErrorHandlers /\ ~errorClosed)
        BY <1>2, <1>3, <3>2 DEF Subscribe
      <3> QED
        BY <3>1, <3>2
    <2> QED
      BY <1>3, <2>2, <2>3 DEF Subscribe
  <1>4. ASSUME NEW h \in Handlers, Unsubscribe(h)
        PROVE  Kinds' /\ StayClosed
    BY <1>1, <1>2, <1>4, WithoutOne DEF Unsubscribe
  <1>5. IsInjective(<<>>) /\ Range(<<>>) = {}
    BY DEF IsInjective, Range
  <1>6. ASSUME NEW k \in Closers, CloseChangeSubs(k)
        PROVE  Kinds' /\ StayClosed
    BY <1>2, <1>5, <1>6 DEF CloseChangeSubs
  <1>7. ASSUME NEW k \in Closers, CloseErrorSubs(k)
        PROVE  Kinds' /\ StayClosed /\ changeClosed' /\ errorClosed'
    BY <1>2, <1>5, <1>7 DEF CloseErrorSubs
  <1>8. ASSUME UNCHANGED registryVars
        PROVE  Kinds' /\ StayClosed
    BY <1>2, <1>8 DEF registryVars
  <1>9. Kinds' /\ StayClosed
    <2> HIDE DEF Kinds, StayClosed
    <2> QED
      BY <1>3, <1>4, <1>6, <1>7, <1>8, RegistryPart
  <1>10. ASSUME Ending' PROVE changeClosed' /\ errorClosed'
    <2>1. CASE Ending
      BY <1>9, <2>1 DEF RegistriesAgree
    <2>2. CASE ~Ending
      <3>1. PICK k \in Closers : CloseErrorSubs(k)
        BY <1>10, <2>2, EndingStep
      <3> QED
        BY <1>7, <3>1
    <2> QED
      BY <2>1, <2>2
  <1>11. Kinds' /\ (Ending' => changeClosed' /\ errorClosed')
    <2> HIDE DEF Kinds, Ending
    <2> QED
      BY <1>9, <1>10
  <1> QED
    BY <1>11 DEF RegistriesAgree

(***************************************************************************)
(* What the dispatcher's invariant says of its histories.                  *)
(***************************************************************************)

(* What was started and what waits have entered, once each and in order.   *)
LEMMA QueueFacts ==
  ASSUME Queue!TypeOK, Queue!DispatcherInv
  PROVE  /\ queue \in Seq(Notification) /\ started \in Seq(Notification)
         /\ entered \in Seq(Notification)
         /\ IsInjective(entered) /\ IsInjective(started \o queue)
         /\ Queue!InOrder(started \o queue, entered)
         /\ Queue!Started = Range(started) /\ Queue!Queued = Range(queue)
         /\ Queue!Entered = Range(entered)
         /\ Queue!Started \subseteq Queue!Entered
         /\ Queue!Queued \subseteq Queue!Entered
  <1>1. /\ queue \in Seq(Notification) /\ started \in Seq(Notification)
        /\ entered \in Seq(Notification)
    BY DEF Queue!TypeOK
  <1>2. /\ Queue!Started = Range(started) /\ Queue!Queued = Range(queue)
        /\ Queue!Entered = Range(entered)
    BY SameOperators DEF Queue!Started, Queue!Queued, Queue!Entered
  <1>3. /\ IsInjective(entered) /\ Queue!InOrder(started \o queue, entered)
        /\ Range(started \o queue) = Range(entered) \ lost
    BY <1>2, SameOperators
    DEF Queue!DispatcherInv, Queue!FirstInFirstOut, Queue!Kept
  <1>4. Range(started \o queue) = Range(started) \cup Range(queue)
    BY <1>1, RangeConcatenation
  <1>5. started \o queue \in Seq(Notification)
    BY <1>1
  <1>6. IsInjective(started \o queue)
    <2> DEFINE kept == started \o queue
    <2>1. /\ kept \in Seq(Notification)
          /\ QueueProofs!IsInjective(entered) /\ QueueProofs!InOrder(kept, entered)
      BY <1>3, <1>5, SameOperators
    <2> HIDE DEF kept
    <2>2. QueueProofs!IsInjective(kept)
      BY <1>1, <2>1, QueueAssumption, QueueProofs!InOrderIsInjective
    <2> QED
      BY <2>2, SameOperators DEF kept
  <1> QED
    BY <1>1, <1>2, <1>3, <1>4, <1>6

(* Any part of a history is a part of its continuation.                    *)
LEMMA InOrderOfMore ==
  ASSUME NEW S, NEW s, NEW all \in Seq(S), NEW e \in S, Queue!InOrder(s, all)
  PROVE  Queue!InOrder(s, Append(all, e))
  <1> DEFINE more == Append(all, e)
  <1>1. \A a \in DOMAIN all : a \in DOMAIN more /\ more[a] = all[a]
    OBVIOUS
  <1> HIDE DEF more
  <1>2. Queue!InOrder(s, more)
    BY <1>1 DEF Queue!InOrder
  <1> QED
    BY <1>2 DEF more

(* The first part of a history is in its order.                            *)
LEMMA InOrderOfStart ==
  ASSUME NEW S, NEW s \in Seq(S), NEW q \in Seq(S), NEW all,
         Queue!InOrder(s \o q, all)
  PROVE  Queue!InOrder(s, all)
  <1> DEFINE u == s \o q
  <1>1. \A i \in DOMAIN s : i \in DOMAIN u /\ u[i] = s[i]
    OBVIOUS
  <1>2. Queue!InOrder(u, all)
    OBVIOUS
  <1> HIDE DEF u
  <1> QED
    BY <1>1, <1>2 DEF Queue!InOrder

(* What stands last in a history may join what has seen the rest.          *)
LEMMA InOrderOfLast ==
  ASSUME NEW S, NEW s \in Seq(S), NEW all \in Seq(S), all # <<>>,
         Queue!InOrder(s, all), Range(s) \subseteq Range(all),
         all[Len(all)] \notin Range(s)
  PROVE  Queue!InOrder(Append(s, all[Len(all)]), all)
  <1> DEFINE last == all[Len(all)]
             more == Append(s, last)
             n == Len(s) + 1
  <1>1. DOMAIN more = 1 .. n /\ DOMAIN s = 1 .. n - 1 /\ n \in Nat
    OBVIOUS
  <1>2. more[n] = last /\ \A i \in DOMAIN s : more[i] = s[i]
    OBVIOUS
  <1>3. /\ DOMAIN all = 1 .. Len(all) /\ Len(all) \in DOMAIN all
        /\ Len(all) \in Nat
    OBVIOUS
  <1> HIDE DEF more, n
  <1>4. ASSUME NEW i \in DOMAIN more, NEW j \in DOMAIN more, i < j
        PROVE  \E a, b \in DOMAIN all : a < b /\ all[a] = more[i] /\ all[b] = more[j]
    <2>1. i \in DOMAIN s
      BY <1>1, <1>4
    <2>2. CASE j \in DOMAIN s
      BY <1>2, <1>4, <2>1, <2>2 DEF Queue!InOrder
    <2>3. CASE j = n
      <3>1. PICK a \in DOMAIN all : all[a] = s[i]
        BY <2>1 DEF Range
      <3>2. a # Len(all)
        BY <2>1, <3>1 DEF Range
      <3>3. a < Len(all)
        BY <1>3, <3>1, <3>2
      <3> QED
        BY <1>2, <1>3, <2>1, <2>3, <3>1, <3>3
    <2> QED
      BY <1>1, <2>2, <2>3
  <1> QED
    BY <1>4 DEF Queue!InOrder, more

(***************************************************************************)
(* The notifications.                                                      *)
(***************************************************************************)

(* What a step inside Submit does to what the invariants speak of.         *)
LEMMA SelectPart ==
  ASSUME Queue!TypeOK, Queue!DispatcherInv, NEW c \in Callers, Queue!SubmitStep(c)
  PROVE  /\ at[c] # "idle" /\ at' = [at EXCEPT ![c] = at'[c]]
         /\ \/ hand' = hand
            \/ hand' = [hand EXCEPT ![c] = None]
         /\ at'[c] = "idle" => hand'[c] = None
         /\ \/ entered' = entered
            \/ /\ hand[c] \in Notification /\ hand[c] \in Queue!InHand
               /\ entered' = Append(entered, hand[c])
         /\ lost' \subseteq lost \cup Queue!Queued \cup Queue!InHand
         /\ UNCHANGED <<worker, running, started>>
  <1> USE DEF Queue!TypeOK, Queue!queueVars, Queue!workerVars
  <1>1. at[c] \notin {"idle", "refused"}
          => hand[c] \in Notification /\ hand[c] \in Queue!InHand
    BY DEF Queue!DispatcherInv, Queue!HandsAreApart, Queue!InHand
  <1>2. CASE Queue!Send(c)
    BY <1>1, <1>2 DEF Queue!Send, Queue!Enqueue, Queue!PartWith
  <1>3. CASE Queue!Resend(c)
    BY <1>1, <1>3 DEF Queue!Resend, Queue!Enqueue, Queue!Discard, Queue!PartWith
  <1>4. CASE Queue!DropOldest(c)
    <2>1. ASSUME queue # <<>> PROVE Head(queue) \in Queue!Queued
      <3>1. Head(queue) \in Range(queue)
        BY <2>1, RangeOfTail
      <3> QED
        BY <3>1, QueueFacts
    <2>2. lost' \subseteq lost \cup Queue!Queued
      BY <1>4, <2>1 DEF Queue!DropOldest, Queue!Discard
    <2> QED
      BY <1>4, <2>2 DEF Queue!DropOldest, Queue!Discard
  <1>5. CASE Queue!CountOldest(c)
    BY <1>5 DEF Queue!CountOldest, Queue!CountDrop
  <1>6. CASE Queue!CountOwn(c)
    <2>1. hand[c] = None
      BY <1>6
      DEF Queue!CountOwn, Queue!CountDrop, Queue!DispatcherInv, Queue!HandsAreApart
    <2> QED
      BY <1>6, <2>1 DEF Queue!CountOwn, Queue!CountDrop
  <1> QED
    BY <1>2, <1>3, <1>4, <1>5, <1>6 DEF Queue!SubmitStep

(* Nobody but Notify makes a notification.                                 *)
LEMMA MadeStep ==
  ASSUME Queue!TypeOK, Queue!DispatcherInv, [DeliveryNext]_deliveryVars
  PROVE  \/ \E c \in Callers, kind \in {"change", "error"} :
              /\ Notify(c, kind)
              /\ Made' \subseteq Made \cup {Event(c, kind)}
              /\ Queue!Entered' = Queue!Entered
              /\ Queue!InHand' \subseteq Queue!InHand \cup {Event(c, kind)}
         \/ /\ Made' \subseteq Made
            /\ (Queue!Entered \cup Queue!InHand)'
                 \subseteq Queue!Entered \cup Queue!InHand
  <1> USE DEF Queue!TypeOK, Queue!queueVars, Queue!submitVars
  <1>1. ASSUME NEW c \in Callers, NEW kind \in {"change", "error"}, Notify(c, kind)
        PROVE  /\ Made' \subseteq Made \cup {Event(c, kind)}
               /\ Queue!Entered' = Queue!Entered
               /\ Queue!InHand' \subseteq Queue!InHand \cup {Event(c, kind)}
    <2>1. /\ hand' = [hand EXCEPT ![c] = Event(c, kind)]
          /\ UNCHANGED <<entered, lost>>
      BY <1>1 DEF Notify, Queue!Submit
    <2>2. Queue!Entered' = Queue!Entered
      BY <2>1 DEF Queue!Entered, Queue!Range
    <2>3. Queue!InHand' \subseteq Queue!InHand \cup {Event(c, kind)}
      BY <2>1 DEF Queue!InHand
    <2> QED
      BY <2>1, <2>2, <2>3 DEF Made
  <1>2. ASSUME NEW c \in Callers, Queue!SubmitStep(c)
        PROVE  /\ Made' \subseteq Made
               /\ (Queue!Entered \cup Queue!InHand)'
                    \subseteq Queue!Entered \cup Queue!InHand
    <2>1. /\ hand' = hand \/ hand' = [hand EXCEPT ![c] = None]
          /\ \/ entered' = entered
             \/ /\ hand[c] \in Notification /\ hand[c] \in Queue!InHand
                /\ entered' = Append(entered, hand[c])
          /\ lost' \subseteq lost \cup Queue!Queued \cup Queue!InHand
      BY <1>2, SelectPart
    <2>2. Queue!InHand' \subseteq Queue!InHand
      BY <2>1 DEF Queue!InHand
    <2>3. Queue!Entered' \subseteq Queue!Entered \cup Queue!InHand
      <3>1. Queue!Entered' = Range(entered')
        BY SameOperators DEF Queue!Entered
      <3>2. Queue!Entered = Range(entered) /\ entered \in Seq(Notification)
        BY QueueFacts
      <3>3. hand[c] \in Notification =>
              Range(Append(entered, hand[c])) = Range(entered) \cup {hand[c]}
        BY <3>2, RangeOfAppend
      <3> QED
        BY <2>1, <3>1, <3>2, <3>3
    <2>4. Queue!Queued \subseteq Queue!Entered
      BY QueueFacts
    <2> QED
      BY <2>1, <2>2, <2>3, <2>4 DEF Made
  <1>3. ASSUME UNCHANGED <<entered, lost, hand>>
        PROVE  /\ Made' \subseteq Made
               /\ (Queue!Entered \cup Queue!InHand)'
                    \subseteq Queue!Entered \cup Queue!InHand
    BY <1>3 DEF Made, Queue!Entered, Queue!InHand, Queue!Range
  <1>4. ASSUME \/ Queue!Start \/ Queue!Look \/ Queue!SelectQuit \/ Queue!Take
               \/ Queue!TaskReturns
               \/ \E k \in Closers : Queue!CloseQuit(k) \/ Queue!StopStep(k)
               \/ UNCHANGED dispatcherVars
        PROVE  UNCHANGED <<entered, lost, hand>>
    BY <1>4
    DEF Queue!Start, Queue!Look, Queue!SelectQuit, Queue!Take, Queue!TaskReturns,
        Queue!CloseQuit, Queue!StopStep, Queue!Claim, Queue!Finished,
        Queue!Expired, dispatcherVars
  <1> QED
    BY <1>1, <1>2, <1>3, <1>4, QueuePart

(* The number of calls of Submit only grows, with each notification made.  *)
LEMMA SentPart ==
  ASSUME DeliveryTypeOK, [DeliveryNext]_deliveryVars
  PROVE  \/ sent' = sent
         \/ sent' = sent + 1
            /\ \E c \in Callers, kind \in {"change", "error"} : Notify(c, kind)
  <1>1. ASSUME NEW c \in Callers,
               \/ CallReload(c) \/ Reloading(c) \/ EmitSomething(c)
               \/ EmitNothing(c) \/ SubmitStep(c)
        PROVE  \/ Notify(c, "change") \/ Notify(c, "error")
               \/ sent' = sent
    BY <1>1
    DEF CallReload, Reloading, EmitSomething, KindOf, EmitNothing, SubmitStep,
        orderVars
  <1>2. ASSUME NEW k \in Closers,
               \/ CallCloseFrom(k) \/ Stopping(k) \/ CloseChangeSubs(k)
               \/ CloseErrorSubs(k)
               \/ UNCHANGED <<dispatcherVars, registryVars, taskVars, orderVars>>
        PROVE  sent' = sent
    BY <1>2
    DEF CallCloseFrom, Stopping, CloseChangeSubs, CloseErrorSubs, orderVars
  <1>3. ASSUME NEW h \in Handlers, Subscribe(h) \/ Unsubscribe(h)
        PROVE  sent' = sent
    BY <1>3 DEF Subscribe, Unsubscribe, orderVars
  <1>4. CASE ReportPanic
    BY <1>4, DeliveryAssumption DEF ReportPanic, Notify
  <1>5. CASE \/ Construct \/ WorkerLoop \/ TakeTask \/ Invoke
             \/ HandlerReturns \/ HandlerPanics \/ ReportPanicToNobody
             \/ TaskDone \/ UNCHANGED deliveryVars
    BY <1>5
    DEF Construct, WorkerLoop, TakeTask, Invoke, HandlerReturns, HandlerPanics,
        ReportPanicToNobody, TaskDone, deliveryVars, orderVars
  <1>6. ASSUME NEW c \in Callers, NEW kind, Notify(c, kind)
        PROVE  sent' = sent + 1
    BY <1>6 DEF Notify
  <1> QED
    BY <1>1, <1>2, <1>3, <1>4, <1>5, <1>6, DeliveryStepIsOneOf

(* A new notification has the next number, and its handlers are those of a *)
(* registry, which holds each once.                                        *)
LEMMA NumbersStep ==
  ASSUME TypeOK, DeliveryTypeOK, Queue!DispatcherInv, RegistriesAgree,
         NotificationsAreNumbered, [DeliveryNext]_deliveryVars
  PROVE  NotificationsAreNumbered'
  <1>1. Queue!TypeOK /\ sent \in Nat
    BY DEF DeliveryTypeOK
  <1>2. ASSUME NEW n \in Made PROVE n.id <= sent' /\ IsInjective(n.handlers)
    <2>1. n \in Notification
      <3>1. \A c \in Callers : hand[c] \in Notification \cup {None}
        BY <1>1 DEF Queue!TypeOK
      <3>2. Queue!InHand \subseteq Notification
        BY <3>1 DEF Queue!InHand
      <3>3. Queue!Entered \subseteq Notification
        BY <1>1, QueueFacts DEF Range
      <3>4. lost \subseteq Notification
        BY <1>1 DEF Queue!TypeOK
      <3> QED
        BY <3>2, <3>3, <3>4 DEF Made
    <2>2. n.id \in Nat
      BY <2>1 DEF Notification
    <2> QED
      BY <1>1, <2>2, SentPart DEF NotificationsAreNumbered
  <1>3. ASSUME NEW c \in Callers, NEW kind \in {"change", "error"}, Notify(c, kind)
        PROVE  Event(c, kind).id <= sent' /\ IsInjective(Event(c, kind).handlers)
    <2>1. Event(c, kind).id = sent + 1 /\ sent' = sent + 1
      BY <1>3 DEF Event, Notify
    <2>2. Event(c, kind).handlers = Subscribers(kind)
      BY DEF Event
    <2>3. IsInjective(Subscribers(kind))
      BY DEF Subscribers, RegistriesAgree
    <2> QED
      BY <1>1, <2>1, <2>2, <2>3
  <1> QED
    BY <1>1, <1>2, <1>3, MadeStep DEF NotificationsAreNumbered

(***************************************************************************)
(* The callers inside Reload and inside Submit.                            *)
(***************************************************************************)

(* A step of Reload itself moves one caller, which is inside the call and  *)
(* not about to return from it.                                            *)
LEMMA ReloadingPart ==
  ASSUME TypeOK, NEW c \in Callers, Reloading(c)
  PROVE  /\ pc[c] \notin {"idle", "emit"}
         /\ \A d \in Callers : d # c => /\ pc'[d] = pc[d]
                                      /\ outcome'[d] = outcome[d]
                                      /\ change'[d] = change[d]
         /\ UNCHANGED <<dispatcherVars, registryVars, taskVars, orderVars>>
  <1> USE DEF TypeOK, Processes, Move, Return, End, configVars, counters, callVars
  <1>1. /\ pc[c] \notin {"idle", "emit"}
        /\ \A d \in Callers : d # c => /\ pc'[d] = pc[d]
                                     /\ outcome'[d] = outcome[d]
                                     /\ change'[d] = change[d]
    <2>1. CASE Cancel(c)
      BY <2>1 DEF Cancel
    <2>2. CASE Transaction(c)
      BY <2>2
      DEF Transaction, ReadIntoViper, Unmarshal, Validate, Lock, Check, Advance,
          Store, Count, ReportFailure
    <2>3. CASE Entry(c) \/ Acquire(c) \/ GiveUp(c) \/ Interrupted(c)
      BY <2>3 DEF Entry, Acquire, GiveUp, Interrupted
    <2>4. CASE Recheck(c) \/ Release(c)
      BY <2>4 DEF Recheck, Release
    <2> QED
      BY <2>1, <2>2, <2>3, <2>4 DEF Reloading, Attempt
  <1> QED
    BY <1>1 DEF Reloading

(* The initial load moves no caller, and Close none either.                *)
LEMMA OthersPart ==
  ASSUME TypeOK,
         \/ Construct
         \/ \E k \in Closers :
              \/ CallCloseFrom(k) \/ Stopping(k) \/ CloseChangeSubs(k)
              \/ CloseErrorSubs(k)
              \/ /\ Freeze(k) \/ Finish(k)
                 /\ UNCHANGED <<dispatcherVars, registryVars, taskVars, orderVars>>
  PROVE  /\ \A c \in Callers : /\ pc'[c] = pc[c] /\ outcome'[c] = outcome[c]
                               /\ change'[c] = change[c]
         /\ UNCHANGED <<taskVars, orderVars, at, hand, entered, started, running>>
  <1> USE DEF TypeOK, Processes, Move, Return, End, configVars, counters, callVars
  <1>1. CASE Construct
    <2>1. CASE Transaction(Builder) /\ UNCHANGED <<dispatcherVars, taskVars, orderVars>>
      BY <2>1, ReloadAssumption
      DEF Transaction, ReadIntoViper, Unmarshal, Validate, Lock, Check, Advance,
          Store, Count, ReportFailure, dispatcherVars
    <2>2. CASE Build /\ Queue!Start /\ UNCHANGED <<taskVars, orderVars>>
      BY <2>2, ReloadAssumption
      DEF Build, Queue!Start, Queue!queueVars, Queue!submitVars
    <2> QED
      BY <1>1, <2>1, <2>2 DEF Construct
  <1>2. ASSUME NEW k \in Closers,
               \/ CallCloseFrom(k) \/ Stopping(k) \/ CloseChangeSubs(k)
               \/ CloseErrorSubs(k)
               \/ /\ Freeze(k) \/ Finish(k)
                  /\ UNCHANGED <<dispatcherVars, registryVars, taskVars, orderVars>>
        PROVE  /\ UNCHANGED callVars
               /\ UNCHANGED <<taskVars, orderVars, at, hand, entered, started, running>>
    <2>1. CASE Stopping(k)
      BY <2>1
      DEF Stopping, StopDispatcher, vars, Queue!CloseQuit, Queue!StopStep,
          Queue!Claim, Queue!Finished, Queue!Expired, Queue!queueVars,
          Queue!submitVars, Queue!workerVars
    <2>2. CASE CallCloseFrom(k) \/ CloseChangeSubs(k) \/ CloseErrorSubs(k)
      BY <2>2
      DEF CallCloseFrom, CallClose, CloseChangeSubs, CloseErrorSubs, DropHandlers,
          vars, dispatcherVars
    <2>3. CASE /\ Freeze(k) \/ Finish(k)
               /\ UNCHANGED <<dispatcherVars, registryVars, taskVars, orderVars>>
      BY <2>3
      DEF Freeze, Finish, LockToClose, StartClosing, AlreadyClosing, Signal,
          dispatcherVars
    <2> QED
      BY <1>2, <2>1, <2>2, <2>3
  <1> QED
    BY <1>1, <1>2

(* Only a handler that has control calls Reload, and only one that has     *)
(* panicked makes the worker submit outside a call.                        *)
LEMMA SubmittersStep ==
  ASSUME TypeOK, Queue!TypeOK, Queue!DispatcherInv, SubmittersAreKnown,
         RunningIsLast, [DeliveryNext]_deliveryVars
  PROVE  SubmittersAreKnown'
  <1> USE DEF SubmittersAreKnown, taskVars
  <1>1. ASSUME UNCHANGED <<handlerAt, at>>, \A c \in Callers : pc'[c] = pc[c]
        PROVE  SubmittersAreKnown'
    BY <1>1, DeliveryAssumption
  <1>2. ASSUME NEW c \in Callers, CallReload(c) PROVE SubmittersAreKnown'
    <2>1. /\ pc[c] = "idle" /\ pc' = [pc EXCEPT ![c] = "entry"]
          /\ c = Worker => handlerAt = "inside"
          /\ UNCHANGED <<at, handlerAt>>
      BY <1>2
      DEF CallReload, Call, Move, HandlerHasControl, Inside, dispatcherVars
    <2> QED
      BY <2>1, DeliveryAssumption DEF TypeOK, Processes
  <1>3. ASSUME NEW c \in Callers, Reloading(c) PROVE SubmittersAreKnown'
    <2>1. UNCHANGED <<at, handlerAt>>
      BY <1>3, ReloadingPart DEF dispatcherVars
    <2> QED
      BY <1>3, <2>1, ReloadingPart, DeliveryAssumption
  <1>4. ASSUME NEW c \in Callers, NEW kind, Notify(c, kind),
               pc[c] = "emit" \/ (c = Worker /\ handlerAt = "panicked")
        PROVE  SubmittersAreKnown'
    <2>1. at' = [at EXCEPT ![c] = "send"] /\ UNCHANGED <<vars, handlerAt>>
      BY <1>4 DEF Notify, Queue!Submit
    <2>2. pc' = pc
      BY <2>1 DEF vars, callVars
    <2> QED
      BY <1>4, <2>1, <2>2 DEF Queue!TypeOK
  <1>5. ASSUME NEW c \in Callers, EmitNothing(c) PROVE SubmittersAreKnown'
    <2>1. /\ at[c] = "idle" /\ pc' = [pc EXCEPT ![c] = "idle"]
          /\ UNCHANGED <<at, handlerAt>>
      BY <1>5 DEF EmitNothing, Emit, Move, dispatcherVars
    <2> QED
      BY <2>1, DeliveryAssumption DEF TypeOK, Processes
  <1>6. ASSUME NEW c \in Callers, SubmitStep(c) PROVE SubmittersAreKnown'
    <2>1. at' = [at EXCEPT ![c] = at'[c]] /\ at[c] # "idle"
      BY <1>6, SelectPart DEF SubmitStep
    <2>2. \A d \in Callers : d # c => at'[d] = at[d]
      BY <2>1 DEF Queue!TypeOK
    <2>3. CASE at'[c] # "idle"
      <3>1. UNCHANGED <<pc, handlerAt>>
        BY <1>6, <2>3 DEF SubmitStep, vars, callVars
      <3> QED
        BY <2>1, <2>2, <3>1
    <2>4. CASE at'[c] = "idle" /\ pc[c] = "emit"
      <3>1. pc' = [pc EXCEPT ![c] = "idle"] /\ UNCHANGED handlerAt
        BY <1>6, <2>4 DEF SubmitStep, Emit, Move
      <3> QED
        BY <2>2, <2>4, <3>1, DeliveryAssumption DEF TypeOK, Processes
    <2>5. CASE at'[c] = "idle" /\ pc[c] # "emit"
      <3>1. pc' = pc /\ handlerAt' = "between"
        BY <1>6, <2>5 DEF SubmitStep, vars, callVars
      <3>2. c = Worker
        BY <2>1, <2>5
      <3> QED
        BY <2>2, <2>5, <3>1, <3>2
    <2> QED
      BY <2>3, <2>4, <2>5
  <1>7. CASE TakeTask \/ Invoke
    <2>1. handlerAt = "between" /\ UNCHANGED <<vars, at>>
      BY <1>7
      DEF TakeTask, Queue!Take, Queue!submitVars, Invoke, RunningIsLast,
          dispatcherVars
    <2>2. handlerAt' # "panicked" /\ pc' = pc
      BY <1>7, <2>1 DEF TakeTask, Invoke, vars, callVars
    <2> QED
      BY <2>1, <2>2
  <1>8. CASE HandlerReturns \/ HandlerPanics
    <2>1. handlerAt = "inside" /\ pc[Worker] = "idle" /\ UNCHANGED <<vars, at>>
      BY <1>8
      DEF HandlerReturns, HandlerPanics, HandlerHasControl, Inside, dispatcherVars
    <2>2. pc' = pc
      BY <2>1 DEF vars, callVars
    <2> QED
      BY <2>1, <2>2
  <1>9. CASE ReportPanicToNobody
    <2>1. at[Worker] = "idle" /\ handlerAt' = "between" /\ UNCHANGED <<vars, at>>
      BY <1>9 DEF ReportPanicToNobody, dispatcherVars
    <2>2. pc' = pc
      BY <2>1 DEF vars, callVars
    <2> QED
      BY <2>1, <2>2
  <1>10. CASE \/ WorkerLoop \/ TaskDone \/ UNCHANGED deliveryVars
              \/ \E h \in Handlers : Subscribe(h) \/ Unsubscribe(h)
    <2>1. UNCHANGED <<vars, at, handlerAt>>
      BY <1>10
      DEF WorkerLoop, Queue!Look, Queue!SelectQuit, TaskDone, Queue!TaskReturns,
          Queue!submitVars, Subscribe, Unsubscribe, deliveryVars, dispatcherVars
    <2> QED
      BY <1>1, <2>1 DEF vars, callVars
  <1>11. ASSUME NEW c \in Callers, EmitSomething(c) PROVE SubmittersAreKnown'
    BY <1>4, <1>11 DEF EmitSomething
  <1>12. CASE ReportPanic
    BY <1>4, <1>12, DeliveryAssumption DEF ReportPanic
  <1>13. ASSUME \/ Construct
                \/ \E k \in Closers :
                     \/ CallCloseFrom(k) \/ Stopping(k) \/ CloseChangeSubs(k)
                     \/ CloseErrorSubs(k)
                     \/ /\ Freeze(k) \/ Finish(k)
                        /\ UNCHANGED <<dispatcherVars, registryVars, taskVars,
                                       orderVars>>
         PROVE  SubmittersAreKnown'
    BY <1>1, <1>13, OthersPart
  <1> QED
    BY <1>2, <1>3, <1>5, <1>6, <1>7, <1>8, <1>9, <1>10, <1>11, <1>12, <1>13,
       DeliveryStepIsOneOf

(***************************************************************************)
(* The running task.                                                       *)
(***************************************************************************)

(* What a step does to the worker and to the loop of its task.             *)
LEMMA TaskPart ==
  ASSUME TypeOK, Queue!TypeOK, Queue!DispatcherInv, SubmittersAreKnown,
         RunningIsLast, [DeliveryNext]_deliveryVars
  PROVE  \/ TakeTask
         \/ Invoke
         \/ /\ handlerAt # "between" /\ handlerAt' = "between" /\ turn' = turn + 1
            /\ UNCHANGED <<worker, running, started, heard>>
         \/ /\ handlerAt = "inside" /\ handlerAt' = "panicked"
            /\ UNCHANGED <<worker, running, started, turn, heard>>
         \/ TaskDone
         \/ /\ worker # "running" /\ worker' # "running"
            /\ UNCHANGED <<running, started, turn, handlerAt, heard>>
         \/ UNCHANGED <<worker, running, started, turn, handlerAt, heard>>
  <1> DEFINE Still == UNCHANGED <<worker, running, started, turn, handlerAt, heard>>
             Away == /\ worker # "running" /\ worker' # "running"
                     /\ UNCHANGED <<running, started, turn, handlerAt, heard>>
  <1> USE DEF taskVars, Queue!workerVars
  <1>1. ASSUME NEW c \in Callers,
               \/ CallReload(c) \/ Reloading(c) \/ EmitSomething(c)
               \/ EmitNothing(c)
        PROVE  Still
    BY <1>1
    DEF CallReload, Reloading, EmitSomething, Notify, Queue!Submit, EmitNothing,
        dispatcherVars
  <1>2. ASSUME NEW c \in Callers, SubmitStep(c)
        PROVE  \/ Still
               \/ /\ handlerAt # "between" /\ handlerAt' = "between"
                  /\ turn' = turn + 1
                  /\ UNCHANGED <<worker, running, started, heard>>
    <2>1. at[c] # "idle" /\ UNCHANGED <<worker, running, started>>
      BY <1>2, SelectPart DEF SubmitStep
    <2>2. CASE at'[c] # "idle" \/ pc[c] = "emit"
      BY <1>2, <2>1, <2>2 DEF SubmitStep
    <2>3. CASE ~(at'[c] # "idle" \/ pc[c] = "emit")
      <3>1. handlerAt = "panicked"
        BY <2>1, <2>3 DEF SubmittersAreKnown
      <3> QED
        BY <1>2, <2>1, <2>3, <3>1 DEF SubmitStep
    <2> QED
      BY <2>2, <2>3
  <1>3. CASE Construct
    <2>1. CASE UNCHANGED <<dispatcherVars, taskVars>>
      BY <2>1 DEF dispatcherVars
    <2>2. CASE Queue!Start /\ UNCHANGED taskVars
      BY <2>2 DEF Queue!Start, Queue!DispatcherInv, Queue!WorkerIsClaimed
    <2> QED
      BY <1>3, <2>1, <2>2 DEF Construct
  <1>4. ASSUME NEW k \in Closers,
               \/ CallCloseFrom(k) \/ Stopping(k) \/ CloseChangeSubs(k)
               \/ CloseErrorSubs(k)
               \/ UNCHANGED <<dispatcherVars, registryVars, taskVars, orderVars>>
        PROVE  Still
    BY <1>4
    DEF CallCloseFrom, Stopping, CloseChangeSubs, CloseErrorSubs, Queue!CloseQuit,
        Queue!StopStep, Queue!Claim, Queue!Finished, Queue!Expired,
        dispatcherVars
  <1>5. ASSUME NEW h \in Handlers, Subscribe(h) \/ Unsubscribe(h)
        PROVE  Still
    BY <1>5 DEF Subscribe, Unsubscribe, dispatcherVars
  <1>6. CASE WorkerLoop
    BY <1>6 DEF WorkerLoop, Queue!Look, Queue!SelectQuit
  <1>7. CASE HandlerReturns \/ HandlerPanics \/ ReportPanicToNobody
    BY <1>7
    DEF HandlerReturns, HandlerPanics, HandlerHasControl, Inside,
        ReportPanicToNobody, dispatcherVars
  <1>8. CASE ReportPanic
    BY <1>8 DEF ReportPanic, Notify, Queue!Submit
  <1>9. CASE UNCHANGED deliveryVars
    BY <1>9 DEF deliveryVars, dispatcherVars
  <1> QED
    BY <1>1, <1>2, <1>3, <1>4, <1>5, <1>6, <1>7, <1>8, <1>9,
       DeliveryStepIsOneOf

(* Taking a task, and what its loop looks like then.                       *)
LEMMA TakeTaskPart ==
  ASSUME Queue!TypeOK, Queue!DispatcherInv, RunningIsLast, TakeTask
  PROVE  /\ Head(queue) \in Notification /\ Head(queue) \notin Queue!Started
         /\ worker = "select" /\ worker' = "running"
         /\ running = None /\ running' = Head(queue)
         /\ started' = Append(started, Head(queue))
         /\ Queue!Started' = Queue!Started \cup {Head(queue)}
         /\ turn' = 1 /\ handlerAt' = "between" /\ heard' = heard
  <1>1. /\ worker = "select" /\ worker' = "running" /\ queue # <<>>
        /\ running' = Head(queue) /\ started' = Append(started, Head(queue))
        /\ turn' = 1 /\ handlerAt' = "between" /\ heard' = heard
    BY DEF TakeTask, Queue!Take
  <1>2. running = None
    BY <1>1 DEF RunningIsLast
  <1>3. /\ queue \in Seq(Notification) /\ started \in Seq(Notification)
        /\ IsInjective(started \o queue) /\ Queue!Started = Range(started)
    BY QueueFacts
  <1>4. Head(queue) \in Notification
    BY <1>1, <1>3, RangeOfTail
  <1>5. Head(queue) \notin Range(started)
    <2>1. QueueProofs!IsInjective(started \o queue)
      BY <1>3, SameOperators
    <2>2. Head(queue) \notin QueueProofs!Range(started)
      BY <1>1, <1>3, <2>1, QueueAssumption, QueueProofs!FrontIsAlone
    <2> QED
      BY <2>2, SameOperators
  <1>6. Queue!Started' = Range(started) \cup {Head(queue)}
    <2>1. Queue!Started' = Range(started')
      BY SameOperators DEF Queue!Started
    <2>2. Range(Append(started, Head(queue))) = Range(started) \cup {Head(queue)}
      BY <1>3, <1>4, RangeOfAppend
    <2> QED
      BY <1>1, <2>1, <2>2
  <1> QED
    BY <1>1, <1>2, <1>3, <1>4, <1>5, <1>6

(* The running task is one, and one of those that were started.            *)
LEMMA RunningTask ==
  ASSUME Queue!TypeOK, Queue!DispatcherInv, RunningIsLast, worker = "running"
  PROVE  /\ running \in Notification /\ running \in Queue!Started
         /\ started \in Seq(Notification) /\ started # <<>>
         /\ running = started[Len(started)]
         /\ running.handlers \in Seq(Handlers)
         /\ Len(running.handlers) \in Nat
         /\ DOMAIN running.handlers = 1 .. Len(running.handlers)
  <1>1. running \in Notification
    BY DEF Queue!TypeOK, RunningIsLast
  <1>2. /\ started \in Seq(Notification) /\ started # <<>>
        /\ running = started[Len(started)]
    BY QueueFacts DEF RunningIsLast
  <1>3. Len(started) \in DOMAIN started
    BY <1>2
  <1>4. running \in Queue!Started
    BY <1>2, <1>3, QueueFacts DEF Range
  <1>5. running.handlers \in Seq(Handlers)
    BY <1>1 DEF Notification
  <1> QED
    BY <1>1, <1>2, <1>4, <1>5

(* The worker takes a task when it has none and loops inside its bounds.   *)
LEMMA RunningStep ==
  ASSUME TypeOK, DeliveryTypeOK, Queue!DispatcherInv, SubmittersAreKnown,
         RunningIsLast, [DeliveryNext]_deliveryVars
  PROVE  RunningIsLast'
  <1>1. Queue!TypeOK /\ turn \in Nat \ {0}
    BY DEF DeliveryTypeOK
  <1>2. CASE TakeTask
    <2> DEFINE n == Head(queue)
    <2>1. /\ n \in Notification /\ started \in Seq(Notification)
          /\ worker' = "running" /\ running' = n /\ started' = Append(started, n)
          /\ turn' = 1 /\ handlerAt' = "between"
      BY <1>1, <1>2, TakeTaskPart, QueueFacts
    <2> HIDE DEF n
    <2>2. n # None /\ n.handlers \in Seq(Handlers)
      BY <2>1, NoneIsNoNotification DEF Notification
    <2>3. Len(n.handlers) \in Nat
      BY <2>2
    <2>4. started' # <<>> /\ started'[Len(started')] = n
      BY <2>1
    <2> QED
      BY <2>1, <2>2, <2>3, <2>4 DEF RunningIsLast
  <1>3. CASE Invoke
    BY <1>3 DEF Invoke, RunningIsLast, dispatcherVars
  <1>4. ASSUME handlerAt # "between", handlerAt' = "between", turn' = turn + 1,
               UNCHANGED <<worker, running, started, heard>>
        PROVE  RunningIsLast'
    <2>1. worker = "running" /\ turn <= Len(running.handlers)
      BY <1>4 DEF RunningIsLast
    <2>2. Len(running.handlers) \in Nat
      BY <1>1, <2>1, RunningTask
    <2> QED
      BY <1>1, <1>4, <2>1, <2>2 DEF RunningIsLast
  <1>5. ASSUME handlerAt = "inside", handlerAt' = "panicked",
               UNCHANGED <<worker, running, started, turn, heard>>
        PROVE  RunningIsLast'
    BY <1>5 DEF RunningIsLast
  <1>6. CASE TaskDone
    BY <1>6 DEF TaskDone, Queue!TaskReturns, taskVars, RunningIsLast
  <1>7. ASSUME \/ /\ worker # "running" /\ worker' # "running"
                  /\ UNCHANGED <<running, started, turn, handlerAt, heard>>
               \/ UNCHANGED <<worker, running, started, turn, handlerAt, heard>>
        PROVE  RunningIsLast'
    BY <1>7 DEF RunningIsLast
  <1> QED
    BY <1>1, <1>2, <1>3, <1>4, <1>5, <1>6, <1>7, TaskPart

(* A handler is called when its turn comes, with the task that was started *)
(* last, and no step but Invoke calls anybody.                             *)
LEMMA HeardStep ==
  ASSUME TypeOK, DeliveryTypeOK, Queue!DispatcherInv, NotificationsAreNumbered,
         SubmittersAreKnown, RunningIsLast, HeardAsStarted,
         [DeliveryNext]_deliveryVars
  PROVE  HeardAsStarted'
  <1>1. /\ Queue!TypeOK /\ turn \in Nat \ {0}
        /\ heard \in [Handlers -> Seq(Notification)]
        /\ handlerAt \in {"between", "inside", "panicked"}
    BY DEF DeliveryTypeOK
  <1>2. ASSUME UNCHANGED <<started, heard>>,
               \A n \in Queue!Started : \A i \in DOMAIN n.handlers :
                 Called(n, i)' <=> Called(n, i)
        PROVE  HeardAsStarted'
    <2>1. Queue!Started' = Queue!Started
      BY <1>2 DEF Queue!Started
    <2> QED
      BY <1>2, <2>1 DEF HeardAsStarted
  <1>3. \A n \in Queue!Started : n \in Notification
    BY <1>1, QueueFacts DEF Range
  <1>4. CASE TakeTask
    <2>1. PICK m :
          /\ m \in Notification /\ m \notin Queue!Started
          /\ running = None /\ running' = m
          /\ Queue!Started' = Queue!Started \cup {m}
          /\ started' = Append(started, m) /\ started \in Seq(Notification)
          /\ turn' = 1 /\ handlerAt' = "between" /\ heard' = heard
      BY <1>1, <1>4, TakeTaskPart, QueueFacts
    <2>2. ASSUME NEW h \in Handlers
          PROVE  /\ Range(heard[h]) \subseteq Queue!Started'
                 /\ Queue!InOrder(heard[h], started')
      BY <2>1, InOrderOfMore DEF HeardAsStarted
    <2>3. ASSUME NEW n \in Queue!Started, NEW i \in DOMAIN n.handlers
          PROVE  n \in Range(heard[n.handlers[i]]) <=> Called(n, i)'
      <3>1. n # running /\ n # running'
        BY <1>3, <2>1, NoneIsNoNotification
      <3> QED
        BY <3>1 DEF HeardAsStarted, Called
    <2>4. ASSUME NEW i \in DOMAIN m.handlers
          PROVE  m \notin Range(heard[m.handlers[i]]) /\ ~Called(m, i)'
      <3> DEFINE H == m.handlers
      <3>1. H \in Seq(Handlers) /\ i \in DOMAIN H
        <4>1. m \in Notification
          BY <2>1
        <4> QED
          BY <4>1 DEF Notification
      <3> HIDE DEF H
      <3>2. i \in Nat /\ i >= 1 /\ H[i] \in Handlers
        BY <3>1
      <3>3. m \notin Range(heard[H[i]])
        BY <2>1, <3>2 DEF HeardAsStarted
      <3>4. ~Called(m, i)'
        <4>1. running' = m /\ turn' = 1 /\ handlerAt' = "between"
          BY <2>1
        <4>2. ~(i < 1)
          BY <3>2
        <4> QED
          BY <4>1, <4>2 DEF Called
      <3> QED
        BY <3>3, <3>4 DEF H
    <2> QED
      BY <2>1, <2>2, <2>3, <2>4 DEF HeardAsStarted
  <1>5. CASE Invoke
    <2>1. /\ worker = "running" /\ handlerAt = "between" /\ handlerAt' = "inside"
          /\ turn <= Len(running.handlers) /\ turn' = turn
          /\ heard' = [heard EXCEPT ![Handler] = Append(@, running)]
          /\ running' = running /\ started' = started
      BY <1>5 DEF Invoke, dispatcherVars
    <2>2. Queue!Started' = Queue!Started
      BY <2>1 DEF Queue!Started
    <2>3. /\ running \in Notification /\ running \in Queue!Started
          /\ started \in Seq(Notification) /\ started # <<>>
          /\ running = started[Len(started)]
          /\ running.handlers \in Seq(Handlers)
          /\ DOMAIN running.handlers = 1 .. Len(running.handlers)
          /\ Len(running.handlers) \in Nat
      BY <1>1, <2>1, RunningTask
    <2>4. turn \in DOMAIN running.handlers /\ Handler = running.handlers[turn]
          /\ Handler \in Handlers
      BY <1>1, <2>1, <2>3 DEF Handler
    <2>5. running \notin Range(heard[Handler])
      <3>1. ~Called(running, turn)
        BY <1>1, <2>1 DEF Called
      <3> QED
        BY <2>3, <2>4, <3>1 DEF HeardAsStarted
    <2>6. heard[Handler] \in Seq(Notification)
      BY <1>1, <2>4
    <2>7. /\ heard'[Handler] = Append(heard[Handler], running)
          /\ \A h \in Handlers : h # Handler => heard'[h] = heard[h]
      BY <1>1, <2>1, <2>4
    <2>8. Range(heard'[Handler]) = Range(heard[Handler]) \cup {running}
      BY <2>3, <2>6, <2>7, RangeOfAppend
    <2>9. Queue!InOrder(heard'[Handler], started)
      <3>1. Queue!Started = Range(started)
        BY <1>1, QueueFacts
      <3>2. /\ Queue!InOrder(heard[Handler], started)
            /\ Range(heard[Handler]) \subseteq Range(started)
        BY <2>4, <3>1 DEF HeardAsStarted
      <3> QED
        BY <2>3, <2>5, <2>6, <2>7, <3>2, InOrderOfLast
    <2>10. ASSUME NEW h \in Handlers
           PROVE  /\ Range(heard'[h]) \subseteq Queue!Started
                  /\ Queue!InOrder(heard'[h], started)
      BY <2>3, <2>7, <2>8, <2>9 DEF HeardAsStarted
    <2>11. ASSUME NEW n \in Queue!Started, NEW i \in DOMAIN n.handlers
           PROVE  n \in Range(heard'[n.handlers[i]]) <=> Called(n, i)'
      <3>1. n.handlers[i] \in Handlers /\ i \in Nat
        BY <1>3 DEF Notification
      <3>2. CASE n # running
        <4>1. n \in Range(heard'[n.handlers[i]]) <=> n \in Range(heard[n.handlers[i]])
          BY <2>7, <2>8, <3>1, <3>2
        <4> QED
          BY <2>1, <3>2, <4>1 DEF HeardAsStarted, Called
      <3>3. CASE n = running /\ i = turn
        <4>1. n \in Range(heard'[n.handlers[i]])
          BY <2>4, <2>8, <3>3
        <4> QED
          BY <2>1, <3>3, <4>1 DEF Called
      <3>4. CASE n = running /\ i # turn
        <4>1. running.handlers[i] # Handler
          <5>1. running \in Made
            BY <1>1, <2>3, QueueFacts DEF Made
          <5>2. IsInjective(running.handlers)
            BY <5>1 DEF NotificationsAreNumbered
          <5> QED
            BY <2>4, <3>4, <5>2 DEF IsInjective
        <4>2. heard'[n.handlers[i]] = heard[n.handlers[i]]
          BY <2>7, <3>1, <3>4, <4>1
        <4> QED
          BY <2>1, <3>4, <4>2 DEF HeardAsStarted, Called
      <3> QED
        BY <3>2, <3>3, <3>4
    <2> QED
      BY <2>1, <2>2, <2>10, <2>11 DEF HeardAsStarted
  <1>6. ASSUME handlerAt # "between", handlerAt' = "between", turn' = turn + 1,
               UNCHANGED <<worker, running, started, heard>>
        PROVE  HeardAsStarted'
    <2>1. ASSUME NEW n \in Queue!Started, NEW i \in DOMAIN n.handlers
          PROVE  Called(n, i)' <=> Called(n, i)
      <3>1. i \in Nat
        BY <1>3 DEF Notification
      <3> QED
        BY <1>1, <1>6, <3>1 DEF Called
    <2> QED
      BY <1>2, <1>6, <2>1
  <1>7. ASSUME handlerAt = "inside", handlerAt' = "panicked",
               UNCHANGED <<worker, running, started, turn, heard>>
        PROVE  HeardAsStarted'
    BY <1>2, <1>7 DEF Called
  <1>8. CASE TaskDone
    <2>1. /\ worker = "running" /\ handlerAt = "between"
          /\ turn > Len(running.handlers) /\ running' = None
          /\ UNCHANGED <<started, heard>>
      BY <1>8 DEF TaskDone, Queue!TaskReturns, taskVars
    <2>2. ASSUME NEW n \in Queue!Started, NEW i \in DOMAIN n.handlers
          PROVE  Called(n, i)' <=> Called(n, i)
      <3>1. n # None
        BY <1>3, NoneIsNoNotification
      <3>2. CASE n = running
        <4>1. i \in 1 .. Len(running.handlers) /\ Len(running.handlers) \in Nat
          BY <1>1, <2>1, <3>2, RunningTask
        <4> QED
          BY <1>1, <2>1, <3>1, <4>1 DEF Called
      <3>3. CASE n # running
        BY <2>1, <3>1, <3>3 DEF Called
      <3> QED
        BY <3>2, <3>3
    <2> QED
      BY <1>2, <2>1, <2>2
  <1>9. ASSUME \/ /\ worker # "running" /\ worker' # "running"
                  /\ UNCHANGED <<running, started, turn, handlerAt, heard>>
               \/ UNCHANGED <<worker, running, started, turn, handlerAt, heard>>
        PROVE  HeardAsStarted'
    BY <1>2, <1>9 DEF Called
  <1> QED
    BY <1>1, <1>4, <1>5, <1>6, <1>7, <1>8, <1>9, TaskPart

(***************************************************************************)
(* The order of calls.                                                     *)
(***************************************************************************)

(* The generation never goes back.                                         *)
LEMMA GenerationGrows ==
  ASSUME TypeOK, [DeliveryNext]_deliveryVars
  PROVE  /\ generation \in Nat /\ generation' \in Nat
         /\ 1 .. generation \subseteq 1 .. generation'
  <1> USE DEF TypeOK, configVars, counters
  <1>1. ASSUME NEW p \in Processes,
               \/ Transaction(p) \/ Attempt(p) \/ Call(p) \/ Cancel(p) \/ Emit(p)
        PROVE  generation' \in {generation, generation + 1}
    BY <1>1
    DEF Transaction, Attempt, Call, Cancel, Entry, Acquire, GiveUp, Interrupted,
        Recheck, Release, Emit, ReadIntoViper, Unmarshal, Validate, Lock,
        Check, Advance, Store, Count, ReportFailure
  <1>2. ASSUME Build \/ UNCHANGED vars
        PROVE  generation' \in {generation, generation + 1}
    BY <1>2 DEF Build, vars
  <1>3. ASSUME NEW k \in Closers,
               \/ CallClose(k) \/ Freeze(k) \/ StopDispatcher(k)
               \/ CloseErrorSubs(k) \/ Finish(k)
        PROVE  generation' = generation
    BY <1>3
    DEF CallClose, Freeze, StopDispatcher, CloseErrorSubs, DropHandlers, Finish,
        LockToClose, StartClosing, AlreadyClosing, Signal
  <1>4. generation' \in {generation, generation + 1}
    <2> HIDE DEF TypeOK, configVars, counters
    <2> QED
      BY <1>1, <1>2, <1>3, ReloadPart DEF Processes
  <1> QED
    BY <1>4

(* A commit makes the change its caller holds from then on, with a         *)
(* generation no one has had.                                              *)
LEMMA HoldingPart ==
  ASSUME TypeOK, HeldIsUnsettled, NEW c \in Callers, Reloading(c), HoldsChange(c)'
  PROVE  change'[c].generation \in (1 .. generation') \ settled
  <1> USE ReloadAssumption
      DEF TypeOK, HeldIsUnsettled, HoldsChange, Processes, Move, Return, End,
          AfterTransaction, configVars, counters, callVars
  <1>1. CASE Advance(c)
    BY <1>1 DEF Advance
  <1>2. CASE Cancel(c)
    BY <1>2 DEF Cancel
  <1>3. CASE ReadIntoViper(c) \/ Unmarshal(c) \/ Validate(c) \/ Lock(c) \/ Check(c)
    BY <1>3 DEF ReadIntoViper, Unmarshal, Validate, Lock, Check
  <1>4. CASE Store(c) \/ Count(c) \/ ReportFailure(c)
    BY <1>4 DEF Store, Count, ReportFailure
  <1>5. CASE Entry(c) \/ Acquire(c) \/ GiveUp(c) \/ Interrupted(c) \/ Recheck(c)
    BY <1>5 DEF Entry, Acquire, GiveUp, Interrupted, Recheck
  <1>6. CASE Release(c)
    BY <1>6 DEF Release, AfterRelease
  <1> QED
    BY <1>1, <1>2, <1>3, <1>4, <1>5, <1>6 DEF Reloading, Attempt, Transaction

(* A call that returns has settled its change, which no other caller holds.*)
LEMMA SettlingPart ==
  ASSUME TypeOK, DeliveryTypeOK, ChangesAgree, HeldIsUnsettled,
         NEW c \in Callers, Emit(c), Settle(c), began' = began, hand'[c] = None,
         \A d \in Callers : d # c => hand'[d] = hand[d]
  PROVE  HeldIsUnsettled'
  <1>1. /\ pc[c] = "emit" /\ pc' = [pc EXCEPT ![c] = "idle"]
        /\ UNCHANGED <<change, outcome, generation>>
    BY DEF Emit, Move, configVars, counters
  <1>2. pc'[c] = "idle" /\ \A d \in Callers : d # c => pc'[d] = pc[d]
    BY <1>1 DEF TypeOK, Processes
  <1>3. outcome[c] = "published" =>
          /\ change[c].generation \in 1 .. generation
          /\ \A d \in Callers : d # c => change[d].generation # change[c].generation
    <2> SUFFICES ASSUME outcome[c] = "published"
                 PROVE  /\ change[c].generation \in 1 .. generation
                        /\ \A d \in Callers :
                             d # c => change[d].generation # change[c].generation
      OBVIOUS
    <2>1. change[c].generation \in 1 .. generation
      BY <1>1 DEF HeldIsUnsettled, HoldsChange
    <2>2. change[c].generation > 0
      BY <2>1
    <2> QED
      BY <2>1, <2>2 DEF ChangesAgree, Processes
  <1>4. /\ settled \subseteq settled' /\ settled' \subseteq 1 .. generation
        /\ \A d \in Callers :
             d # c /\ change[d].generation \notin settled
               => change[d].generation \notin settled'
    BY <1>3 DEF Settle, HeldIsUnsettled
  <1>5. ASSUME NEW d \in Callers, d # c
        PROVE  /\ HoldsChange(d)' <=> HoldsChange(d)
               /\ change'[d] = change[d]
    BY <1>1, <1>2, <1>5 DEF HoldsChange
  <1>6. ~HoldsChange(c)'
    BY <1>2 DEF HoldsChange
  <1> QED
    BY <1>1, <1>2, <1>4, <1>5, <1>6 DEF HeldIsUnsettled

(* Commits and returning calls keep what is held and what is settled       *)
(* apart.                                                                  *)
LEMMA HeldStep ==
  ASSUME TypeOK, DeliveryTypeOK, ChangesAgree, Queue!DispatcherInv,
         HeldIsUnsettled, [DeliveryNext]_deliveryVars
  PROVE  HeldIsUnsettled'
  <1>1. /\ generation \in Nat /\ generation' \in Nat
        /\ 1 .. generation \subseteq 1 .. generation'
    BY GenerationGrows
  <1>2. Queue!TypeOK
    BY DEF DeliveryTypeOK
  <1>3. ASSUME UNCHANGED <<settled, began, hand>>,
               \A c \in Callers : /\ pc'[c] = pc[c] /\ outcome'[c] = outcome[c]
                                 /\ change'[c] = change[c]
        PROVE  HeldIsUnsettled'
    BY <1>1, <1>3 DEF HeldIsUnsettled, HoldsChange
  <1>4. ASSUME NEW c \in Callers, CallReload(c) PROVE HeldIsUnsettled'
    <2>1. /\ pc[c] = "idle" /\ pc' = [pc EXCEPT ![c] = "entry"]
          /\ outcome' = [outcome EXCEPT ![c] = "none"]
          /\ began' = [began EXCEPT ![c] = settled]
          /\ UNCHANGED <<change, generation, settled, hand>>
      BY <1>4
      DEF CallReload, Call, Move, Return, configVars, counters, dispatcherVars
    <2>2. /\ pc'[c] = "entry" /\ began'[c] = settled
          /\ \A d \in Callers : d # c => /\ pc'[d] = pc[d] /\ outcome'[d] = outcome[d]
                                       /\ began'[d] = began[d]
      BY <2>1 DEF TypeOK, DeliveryTypeOK, Processes
    <2> QED
      BY <2>1, <2>2 DEF HeldIsUnsettled, HoldsChange
  <1>5. ASSUME NEW c \in Callers, Reloading(c) PROVE HeldIsUnsettled'
    <2>1. UNCHANGED <<settled, began, hand>>
      BY <1>5, ReloadingPart DEF dispatcherVars, orderVars
    <2>2. /\ pc[c] # "emit"
          /\ \A d \in Callers : d # c => /\ pc'[d] = pc[d] /\ outcome'[d] = outcome[d]
                                       /\ change'[d] = change[d]
      BY <1>5, ReloadingPart
    <2>3. HoldsChange(c)' => change'[c].generation \in (1 .. generation') \ settled
      BY <1>5, HoldingPart
    <2>4. ASSUME NEW d \in Callers
          PROVE  /\ began[d] \subseteq settled
                 /\ HoldsChange(d)' =>
                      change'[d].generation \in (1 .. generation') \ settled
                 /\ hand[d] # None /\ hand[d].generation # 0 =>
                      /\ pc'[d] = "emit" /\ outcome'[d] = "published"
                      /\ hand[d].generation = change'[d].generation
      BY <1>1, <2>2, <2>3 DEF HeldIsUnsettled, HoldsChange
    <2> QED
      BY <1>1, <2>1, <2>4 DEF HeldIsUnsettled
  <1>6. ASSUME NEW c \in Callers, NEW kind \in {"change", "error"}, Notify(c, kind),
               kind = "change" => pc[c] = "emit" /\ outcome[c] = "published"
        PROVE  HeldIsUnsettled'
    <2>1. /\ hand' = [hand EXCEPT ![c] = Event(c, kind)]
          /\ UNCHANGED <<vars, settled, began>>
      BY <1>6 DEF Notify, Queue!Submit
    <2>2. UNCHANGED <<pc, outcome, change, generation>>
      BY <2>1 DEF vars, callVars, configVars, counters
    <2>3. Event(c, kind).generation # 0
            => kind = "change" /\ Event(c, kind).generation = change[c].generation
      BY DEF Event
    <2>4. /\ hand'[c] = Event(c, kind)
          /\ \A d \in Callers : d # c => hand'[d] = hand[d]
      BY <1>2, <2>1 DEF Queue!TypeOK
    <2> QED
      BY <1>6, <2>1, <2>2, <2>3, <2>4 DEF HeldIsUnsettled, HoldsChange
  <1>7. ASSUME NEW c \in Callers, EmitSomething(c) PROVE HeldIsUnsettled'
    BY <1>6, <1>7 DEF EmitSomething, KindOf
  <1>8. CASE ReportPanic
    BY <1>6, <1>8, DeliveryAssumption DEF ReportPanic
  <1>9. ASSUME NEW c \in Callers, EmitNothing(c) PROVE HeldIsUnsettled'
    <2>1. /\ Emit(c) /\ Settle(c) /\ at[c] = "idle"
          /\ UNCHANGED <<began, hand>>
      BY <1>9 DEF EmitNothing, dispatcherVars
    <2>2. hand[c] = None
      BY <2>1 DEF Queue!DispatcherInv, Queue!HandsAreApart
    <2> QED
      BY <2>1, <2>2, SettlingPart
  <1>10. ASSUME NEW c \in Callers, SubmitStep(c) PROVE HeldIsUnsettled'
    <2>1. /\ hand' = hand \/ hand' = [hand EXCEPT ![c] = None]
          /\ at'[c] = "idle" => hand'[c] = None
      BY <1>2, <1>10, SelectPart DEF SubmitStep
    <2>2. /\ hand'[c] \in {hand[c], None}
          /\ \A d \in Callers : d # c => hand'[d] = hand[d]
      BY <1>2, <2>1 DEF Queue!TypeOK
    <2>3. CASE at'[c] = "idle" /\ pc[c] = "emit"
      <3>1. Emit(c) /\ Settle(c) /\ began' = began
        BY <1>10, <2>3 DEF SubmitStep
      <3> QED
        BY <2>1, <2>2, <2>3, <3>1, SettlingPart
    <2>4. CASE ~(at'[c] = "idle" /\ pc[c] = "emit")
      <3>1. UNCHANGED <<pc, outcome, change, generation, settled, began>>
        BY <1>10, <2>4
        DEF SubmitStep, vars, callVars, configVars, counters, orderVars
      <3> QED
        BY <2>2, <3>1 DEF HeldIsUnsettled, HoldsChange
    <2> QED
      BY <2>3, <2>4
  <1>11. CASE \/ Construct
              \/ \E k \in Closers :
                   \/ CallCloseFrom(k) \/ Stopping(k) \/ CloseChangeSubs(k)
                   \/ CloseErrorSubs(k)
                   \/ /\ Freeze(k) \/ Finish(k)
                      /\ UNCHANGED <<dispatcherVars, registryVars, taskVars, orderVars>>
    BY <1>3, <1>11, OthersPart DEF orderVars
  <1>12. CASE \/ \E h \in Handlers : Subscribe(h) \/ Unsubscribe(h)
              \/ WorkerLoop \/ TakeTask \/ Invoke \/ HandlerReturns
              \/ HandlerPanics \/ ReportPanicToNobody \/ TaskDone
              \/ UNCHANGED deliveryVars
    <2>1. UNCHANGED <<vars, settled, began, hand>>
      BY <1>12
      DEF Subscribe, Unsubscribe, WorkerLoop, Queue!Look, Queue!SelectQuit,
          TakeTask, Queue!Take, Invoke, HandlerReturns, HandlerPanics,
          ReportPanicToNobody, TaskDone, Queue!TaskReturns, Queue!submitVars,
          deliveryVars, dispatcherVars, orderVars
    <2> QED
      BY <1>3, <2>1 DEF vars, callVars
  <1> QED
    BY <1>4, <1>5, <1>7, <1>8, <1>9, <1>10, <1>11, <1>12, DeliveryStepIsOneOf

(* What a step does to the histories of calls.                             *)
LEMMA OrderPart ==
  ASSUME [DeliveryNext]_deliveryVars
  PROVE  /\ \/ settled' = settled
            \/ \E c \in Callers : settled' = settled \cup {change[c].generation}
         /\ \/ began' = began
            \/ \E c \in Callers : began' = [began EXCEPT ![c] = settled]
  <1> USE DEF orderVars
  <1>1. ASSUME NEW c \in Callers, CallReload(c)
        PROVE  settled' = settled /\ began' = [began EXCEPT ![c] = settled]
    BY <1>1 DEF CallReload
  <1>2. ASSUME NEW c \in Callers, Reloading(c) \/ EmitSomething(c)
        PROVE  settled' = settled /\ began' = began
    BY <1>2 DEF Reloading, EmitSomething, Notify
  <1>3. ASSUME NEW c \in Callers, EmitNothing(c) \/ SubmitStep(c)
        PROVE  /\ settled' \in {settled, settled \cup {change[c].generation}}
               /\ began' = began
    BY <1>3 DEF EmitNothing, SubmitStep, Settle
  <1>4. ASSUME NEW k \in Closers,
               \/ CallCloseFrom(k) \/ Stopping(k) \/ CloseChangeSubs(k)
               \/ CloseErrorSubs(k)
               \/ UNCHANGED <<dispatcherVars, registryVars, taskVars, orderVars>>
        PROVE  settled' = settled /\ began' = began
    BY <1>4 DEF CallCloseFrom, Stopping, CloseChangeSubs, CloseErrorSubs
  <1>5. ASSUME \/ Construct
               \/ \E h \in Handlers : Subscribe(h) \/ Unsubscribe(h)
               \/ WorkerLoop \/ TakeTask \/ Invoke \/ HandlerReturns
               \/ HandlerPanics \/ ReportPanic \/ ReportPanicToNobody \/ TaskDone
               \/ UNCHANGED deliveryVars
        PROVE  settled' = settled /\ began' = began
    BY <1>5
    DEF Construct, Subscribe, Unsubscribe, WorkerLoop, TakeTask, Invoke,
        HandlerReturns, HandlerPanics, ReportPanic, Notify, ReportPanicToNobody,
        TaskDone, deliveryVars
  <1> QED
    BY <1>1, <1>2, <1>3, <1>4, <1>5, DeliveryStepIsOneOf

(* What enters the queue was in the hand of a caller inside Submit.        *)
LEMMA EnteredPart ==
  ASSUME Queue!TypeOK, Queue!DispatcherInv, [DeliveryNext]_deliveryVars
  PROVE  \/ entered' = entered
         \/ \E c \in Callers :
              /\ hand[c] \in Notification
              /\ entered' = Append(entered, hand[c])
  <1>1. ASSUME NEW c \in Callers, Notify(c, "change") \/ Notify(c, "error")
        PROVE  entered' = entered
    BY <1>1 DEF Notify, Queue!Submit, Queue!queueVars
  <1>2. ASSUME NEW c \in Callers, Queue!SubmitStep(c)
        PROVE  \/ entered' = entered
               \/ /\ hand[c] \in Notification
                  /\ entered' = Append(entered, hand[c])
    BY <1>2, SelectPart
  <1>3. ASSUME \/ Queue!Start \/ Queue!Look \/ Queue!SelectQuit \/ Queue!Take
               \/ Queue!TaskReturns
               \/ \E k \in Closers : Queue!CloseQuit(k) \/ Queue!StopStep(k)
               \/ UNCHANGED dispatcherVars
        PROVE  entered' = entered
    BY <1>3
    DEF Queue!Start, Queue!Look, Queue!SelectQuit, Queue!Take, Queue!TaskReturns,
        Queue!CloseQuit, Queue!StopStep, Queue!Claim, Queue!Finished,
        Queue!Expired, Queue!queueVars, dispatcherVars
  <1> QED
    BY <1>1, <1>2, <1>3, QueuePart

(* A change that enters is not settled, so no notification that is there   *)
(* already comes after it in the order of calls.                           *)
LEMMA SettledStep ==
  ASSUME TypeOK, DeliveryTypeOK, Queue!DispatcherInv, HeldIsUnsettled,
         SettledComesFirst, [DeliveryNext]_deliveryVars
  PROVE  SettledComesFirst'
  <1>1. Queue!TypeOK
    BY DEF DeliveryTypeOK
  <1>2. settled \subseteq settled'
    BY OrderPart
  <1>3. ASSUME NEW n \in Queue!Entered' \cup Queue!InHand' PROVE n.after \subseteq settled'
    <2>1. ASSUME NEW c \in Callers, NEW kind \in {"change", "error"}
          PROVE  Event(c, kind).after \subseteq settled
      BY DEF Event, HeldIsUnsettled
    <2>2. \/ n \in Queue!Entered \cup Queue!InHand
          \/ \E c \in Callers, kind \in {"change", "error"} : n = Event(c, kind)
      BY <1>1, MadeStep
    <2>3. n.after \subseteq settled
      BY <2>1, <2>2 DEF SettledComesFirst
    <2> QED
      BY <1>2, <2>3
  <1>4. ASSUME NEW a \in DOMAIN entered', NEW b \in DOMAIN entered', a < b
        PROVE  entered'[b].generation \notin entered'[a].after
    <2>1. CASE entered' = entered
      BY <1>4, <2>1 DEF SettledComesFirst
    <2>2. ASSUME NEW c \in Callers, hand[c] \in Notification,
                 entered' = Append(entered, hand[c])
          PROVE  entered'[b].generation \notin entered'[a].after
      <3> DEFINE n == hand[c]
      <3>1. entered \in Seq(Notification) /\ Queue!Entered = Range(entered)
        BY <1>1, QueueFacts
      <3>2. /\ DOMAIN entered' = 1 .. Len(entered) + 1
            /\ DOMAIN entered = 1 .. Len(entered) /\ Len(entered) \in Nat
            /\ entered'[Len(entered) + 1] = n
            /\ \A i \in DOMAIN entered : entered'[i] = entered[i]
        BY <2>2, <3>1
      <3> HIDE DEF n
      <3>3. a \in DOMAIN entered /\ entered'[a] = entered[a]
        BY <1>4, <3>2
      <3>4. CASE b \in DOMAIN entered
        BY <1>4, <3>2, <3>3, <3>4 DEF SettledComesFirst
      <3>5. CASE b = Len(entered) + 1
        <4>1. entered'[b] = n
          BY <3>2, <3>5
        <4>2. n.generation \notin settled
          <5>1. CASE n.generation = 0
            BY <5>1 DEF HeldIsUnsettled
          <5>2. CASE n.generation # 0
            BY <2>2, <5>2, NoneIsNoNotification DEF n, HeldIsUnsettled, HoldsChange
          <5> QED
            BY <5>1, <5>2
        <4>3. entered[a].after \subseteq settled
          BY <3>1, <3>3 DEF Range, SettledComesFirst
        <4> QED
          BY <3>3, <4>1, <4>2, <4>3
      <3> QED
        BY <1>4, <3>2, <3>4, <3>5
    <2> QED
      BY <1>1, <2>1, <2>2, EnteredPart
  <1> QED
    BY <1>3, <1>4 DEF SettledComesFirst

(***************************************************************************)
(* Type correctness.                                                       *)
(***************************************************************************)

(* The task loop and the histories keep their types.                       *)
LEMMA HistoryTypes ==
  ASSUME TypeOK, DeliveryTypeOK, Queue!DispatcherInv, SubmittersAreKnown,
         RunningIsLast, [DeliveryNext]_deliveryVars
  PROVE  /\ turn' \in Nat \ {0}
         /\ handlerAt' \in {"between", "inside", "panicked"}
         /\ heard' \in [Handlers -> Seq(Notification)]
         /\ sent' \in Nat
         /\ settled' \subseteq Nat
         /\ began' \in [Callers -> SUBSET Nat]
  <1>1. /\ Queue!TypeOK /\ turn \in Nat \ {0}
        /\ handlerAt \in {"between", "inside", "panicked"}
        /\ heard \in [Handlers -> Seq(Notification)]
        /\ sent \in Nat /\ settled \subseteq Nat
        /\ began \in [Callers -> SUBSET Nat]
    BY DEF DeliveryTypeOK
  <1>2. \A c \in Callers : change[c].generation \in Nat
    BY DEF TypeOK, Processes, Changes
  <1>3. settled' \subseteq Nat /\ began' \in [Callers -> SUBSET Nat]
    BY <1>1, <1>2, OrderPart
  <1>4. sent' \in Nat
    BY <1>1, SentPart
  <1>5. CASE Invoke
    <2>1. /\ worker = "running" /\ turn <= Len(running.handlers)
          /\ turn' = turn /\ handlerAt' = "inside"
          /\ heard' = [heard EXCEPT ![Handler] = Append(@, running)]
      BY <1>5 DEF Invoke
    <2>2. /\ running \in Notification /\ running.handlers \in Seq(Handlers)
          /\ Len(running.handlers) \in Nat
          /\ DOMAIN running.handlers = 1 .. Len(running.handlers)
      BY <1>1, <2>1, RunningTask
    <2>3. Handler \in Handlers
      BY <1>1, <2>1, <2>2 DEF Handler
    <2>4. Append(heard[Handler], running) \in Seq(Notification)
      BY <1>1, <2>2, <2>3
    <2> QED
      BY <1>1, <1>3, <1>4, <2>1, <2>3, <2>4
  <1>6. CASE TakeTask
    BY <1>1, <1>3, <1>4, <1>6 DEF TakeTask
  <1>7. CASE TaskDone
    BY <1>1, <1>3, <1>4, <1>7 DEF TaskDone, taskVars
  <1>8. CASE \/ /\ handlerAt # "between" /\ handlerAt' = "between"
                /\ turn' = turn + 1
                /\ UNCHANGED <<worker, running, started, heard>>
             \/ /\ handlerAt = "inside" /\ handlerAt' = "panicked"
                /\ UNCHANGED <<worker, running, started, turn, heard>>
             \/ UNCHANGED <<running, started, turn, handlerAt, heard>>
    BY <1>1, <1>3, <1>4, <1>8
  <1> QED
    BY <1>1, <1>5, <1>6, <1>7, <1>8, TaskPart

(* Every step keeps the types.                                             *)
LEMMA DeliveryTypeStep ==
  ASSUME TypeOK, DeliveryTypeOK, Queue!DispatcherInv, DeliveryInv,
         [DeliveryNext]_deliveryVars
  PROVE  DeliveryTypeOK' /\ Queue!DispatcherInv'
  <1>1. Queue!TypeOK' /\ Queue!DispatcherInv'
    <2>1. [Queue!Next]_(Queue!vars)
      BY StepOfQueue DEF DeliveryInv
    <2>2. Queue!TypeOK
      BY DEF DeliveryTypeOK
    <2> QED
      BY <2>1, <2>2, QueueInvStep
  <1>2. /\ (changeSubs \in Seq(ChangeHandlers))'
        /\ (errorSubs \in Seq(ErrorHandlers))'
        /\ (changeClosed \in BOOLEAN)'
        /\ (errorClosed \in BOOLEAN)'
        /\ (asked \subseteq Handlers)'
    BY RegistryTypes DEF DeliveryInv
  <1>3. /\ turn' \in Nat \ {0}
        /\ handlerAt' \in {"between", "inside", "panicked"}
        /\ heard' \in [Handlers -> Seq(Notification)]
        /\ sent' \in Nat
        /\ settled' \subseteq Nat
        /\ began' \in [Callers -> SUBSET Nat]
    BY HistoryTypes DEF DeliveryInv
  <1> QED
    BY <1>1, <1>2, <1>3 DEF DeliveryTypeOK

(***************************************************************************)
(* The inductive invariant.                                                *)
(***************************************************************************)

(* What every reachable state satisfies: the invariants of Reload and of   *)
(* the Dispatcher, and what Delivery adds to them.                         *)
WholeInv ==
  /\ IInv
  /\ DeliveryTypeOK
  /\ Queue!DispatcherInv
  /\ DeliveryInv

(* A Config under construction: its dispatcher and its registries are      *)
(* empty.                                                                  *)
LEMMA WholeInvInit == DeliveryInit => WholeInv
  <1> SUFFICES ASSUME DeliveryInit PROVE WholeInv
    OBVIOUS
  <1>1. IInv
    BY IInvInit DEF DeliveryInit
  <1>2. Queue!TypeOK /\ Queue!DispatcherInv
    <2>1. QueueProofs!Init
      BY SameSteps DEF DeliveryInit
    <2>2. QueueProofs!TypeOK /\ QueueProofs!DispatcherInv
      BY <2>1, QueueAssumption, QueueProofs!TypeInit, QueueProofs!DispatcherInvInit
    <2> QED
      BY <2>2, SameState
  <1>3. DeliveryTypeOK
    <2>1. /\ changeSubs \in Seq(ChangeHandlers) /\ errorSubs \in Seq(ErrorHandlers)
          /\ heard \in [Handlers -> Seq(Notification)]
      BY DEF DeliveryInit
    <2>2. /\ changeClosed = FALSE /\ errorClosed = FALSE /\ asked = {}
          /\ turn = 1 /\ handlerAt = "between" /\ sent = 0 /\ settled = {}
      BY DEF DeliveryInit
    <2>3. began \in [Callers -> SUBSET Nat]
      BY DEF DeliveryInit
    <2>4. /\ changeClosed \in BOOLEAN /\ errorClosed \in BOOLEAN
          /\ asked \subseteq Handlers /\ settled \subseteq Nat
          /\ handlerAt \in {"between", "inside", "panicked"}
      BY <2>2
    <2>5. turn \in Nat \ {0} /\ sent \in Nat
      BY <2>2
    <2> QED
      BY <1>2, <2>1, <2>3, <2>4, <2>5 DEF DeliveryTypeOK
  <1>4. /\ state = "initializing" /\ \A k \in Closers : cpc[k] = "idle"
        /\ \A c \in Callers : pc[c] = "idle"
    BY ReloadAssumption DEF DeliveryInit, Init, LifecycleInit, Processes
  <1>5. /\ \A c \in Callers : at[c] = "idle" /\ hand[c] = None
        /\ worker = "none" /\ running = None
        /\ entered = <<>> /\ started = <<>> /\ lost = {}
    BY DEF DeliveryInit, Queue!Init
  <1>6. Queue!Entered = {} /\ Queue!Started = {} /\ Queue!InHand = {}
    BY <1>5 DEF Queue!Entered, Queue!Started, Queue!InHand, Queue!Range
  <1>7. RegistriesAgree
    BY <1>4 DEF DeliveryInit, RegistriesAgree, IsInjective, Range
  <1>8. NotificationsAreNumbered
    BY <1>5, <1>6 DEF NotificationsAreNumbered, Made
  <1>9. SubmittersAreKnown /\ RunningIsLast
    BY <1>5 DEF DeliveryInit, SubmittersAreKnown, RunningIsLast
  <1>10. HeardAsStarted
    BY <1>6 DEF DeliveryInit, HeardAsStarted, Queue!InOrder, Range
  <1>11. HeldIsUnsettled
    BY <1>4, <1>5 DEF DeliveryInit, HeldIsUnsettled, HoldsChange
  <1>12. SettledComesFirst
    BY <1>5, <1>6 DEF SettledComesFirst
  <1> QED
    BY <1>1, <1>2, <1>3, <1>7, <1>8, <1>9, <1>10, <1>11, <1>12
    DEF WholeInv, DeliveryInv

(* Every step of anybody keeps the whole of it.                            *)
LEMMA WholeInvStep == WholeInv /\ [DeliveryNext]_deliveryVars => WholeInv'
  <1> SUFFICES ASSUME WholeInv, [DeliveryNext]_deliveryVars PROVE WholeInv'
    OBVIOUS
  <1>1. /\ TypeOK /\ ChangesAgree /\ DeliveryTypeOK /\ Queue!TypeOK
        /\ Queue!DispatcherInv /\ DeliveryInv
    BY DEF WholeInv, IInv, DeliveryTypeOK
  <1>2. IInv'
    BY IInvStep, StepOfReload DEF WholeInv
  <1>3. DeliveryTypeOK' /\ Queue!DispatcherInv'
    BY <1>1, DeliveryTypeStep
  <1>4. RegistriesAgree'
    BY <1>1, RegistriesStep DEF DeliveryInv
  <1>5. NotificationsAreNumbered'
    BY <1>1, NumbersStep DEF DeliveryInv
  <1>6. SubmittersAreKnown' /\ RunningIsLast'
    BY <1>1, SubmittersStep, RunningStep DEF DeliveryInv
  <1>7. HeardAsStarted'
    BY <1>1, HeardStep DEF DeliveryInv
  <1>8. HeldIsUnsettled' /\ SettledComesFirst'
    BY <1>1, HeldStep, SettledStep DEF DeliveryInv
  <1> QED
    BY <1>2, <1>3, <1>4, <1>5, <1>6, <1>7, <1>8 DEF WholeInv, DeliveryInv

(* The invariants of Reload, of the dispatcher and of delivery hold        *)
(* together in every reachable state.                                      *)
THEOREM DeliveryInvariant == DeliverySpec => []WholeInv
  BY WholeInvInit, WholeInvStep, PTL DEF DeliverySpec

(* The dispatcher of a Config is used as module Dispatcher says, though    *)
(* its tasks submit and stop it: no notification is submitted twice, and   *)
(* no step of Reload or of a handler touches the queue.                    *)
THEOREM DeliveryImplementsDispatcher == DeliverySpec => Queue!Spec
  <1>1. DeliveryInit => Queue!Init
    BY DEF DeliveryInit
  <1>2. WholeInv /\ [DeliveryNext]_deliveryVars => [Queue!Next]_(Queue!vars)
    BY StepOfQueue DEF WholeInv, IInv, DeliveryInv
  <1> QED
    BY <1>1, <1>2, DeliveryInvariant, PTL DEF DeliverySpec, Queue!Spec

(***************************************************************************)
(* The properties.                                                         *)
(***************************************************************************)

(* Every variable keeps its type, those of the dispatcher included.        *)
THEOREM DeliveryTypes == DeliverySpec => []DeliveryTypeOK
  <1>1. WholeInv => DeliveryTypeOK
    BY DEF WholeInv
  <1> QED
    BY <1>1, DeliveryInvariant, PTL

(* After Close no handler is registered, and none can be registered again. *)
THEOREM RegistriesStayEmpty == DeliverySpec => []ClosedRegistriesAreEmpty
  <1>1. WholeInv => ClosedRegistriesAreEmpty
    BY DEF WholeInv, DeliveryInv, RegistriesAgree, ClosedRegistriesAreEmpty
  <1> QED
    BY <1>1, DeliveryInvariant, PTL

(* What stands in the order of what was started has no repetition.         *)
LEMMA HeardOnce ==
  ASSUME WholeInv, NEW h \in Handlers
  PROVE  /\ heard[h] \in Seq(Notification) /\ IsInjective(heard[h])
         /\ Queue!InOrder(heard[h], started)
         /\ started \in Seq(Notification) /\ entered \in Seq(Notification)
         /\ Queue!InOrder(started, entered)
         /\ IsInjective(started)
  <1>1. Queue!TypeOK /\ Queue!DispatcherInv
    BY DEF WholeInv, DeliveryTypeOK
  <1>2. /\ heard[h] \in Seq(Notification) /\ Queue!InOrder(heard[h], started)
    BY DEF WholeInv, DeliveryTypeOK, DeliveryInv, HeardAsStarted
  <1>3. /\ queue \in Seq(Notification) /\ started \in Seq(Notification)
        /\ entered \in Seq(Notification) /\ IsInjective(entered)
        /\ Queue!InOrder(started \o queue, entered)
    BY <1>1, QueueFacts
  <1>4. Queue!InOrder(started, entered)
    BY <1>3, InOrderOfStart
  <1>5. IsInjective(started)
    BY <1>3, <1>4, SameOperators, QueueAssumption, QueueProofs!InOrderIsInjective
  <1>6. IsInjective(heard[h])
    BY <1>2, <1>3, <1>5, SameOperators, QueueAssumption, QueueProofs!InOrderIsInjective
  <1> QED
    BY <1>2, <1>3, <1>4, <1>5, <1>6

(* Every handler that an event captured is called with it exactly once,    *)
(* once the loop has come by it, whatever the handlers before it did.      *)
THEOREM EverybodyIsCalledOnce == DeliverySpec => []NobodyIsSkipped
  <1>1. ASSUME WholeInv PROVE NobodyIsSkipped
    <2> SUFFICES ASSUME NEW n \in Queue!Started, NEW i \in 1 .. Reached(n)
                 PROVE  Cardinality({j \in DOMAIN heard[n.handlers[i]] :
                                       heard[n.handlers[i]][j] = n}) = 1
      BY DEF NobodyIsSkipped
    <2>1. /\ Queue!TypeOK /\ Queue!DispatcherInv /\ RunningIsLast
          /\ HeardAsStarted /\ turn \in Nat
      BY <1>1 DEF WholeInv, DeliveryTypeOK, DeliveryInv
    <2>2. n \in Notification
      BY <2>1, QueueFacts DEF Range
    <2>3. n.handlers \in Seq(Handlers)
      BY <2>2 DEF Notification
    <2>4. Len(n.handlers) \in Nat /\ DOMAIN n.handlers = 1 .. Len(n.handlers)
      BY <2>3
    <2>5. i \in DOMAIN n.handlers /\ Called(n, i)
      <3>1. CASE n = running
        <4>1. turn <= Len(n.handlers) + 1
          BY <2>1, <2>2, <3>1, NoneIsNoNotification DEF RunningIsLast
        <4> QED
          BY <2>1, <2>4, <3>1, <4>1 DEF Reached, Called
      <3>2. CASE n # running
        BY <2>4, <3>2 DEF Reached, Called
      <3> QED
        BY <3>1, <3>2
    <2> DEFINE h == n.handlers[i]
               s == heard[h]
    <2>6. h \in Handlers
      BY <2>3, <2>5
    <2>7. n \in Range(s) /\ IsInjective(s)
      BY <1>1, <2>1, <2>5, <2>6, HeardOnce DEF HeardAsStarted
    <2>8. PICK j \in DOMAIN s : s[j] = n
      BY <2>7 DEF Range
    <2>9. {k \in DOMAIN s : s[k] = n} = {j}
      BY <2>7, <2>8 DEF IsInjective
    <2> QED
      BY <2>9, FS_Singleton
  <1> QED
    BY <1>1, DeliveryInvariant, PTL

(* No handler hears the change of a call after that of a call which began  *)
(* when it had returned.                                                   *)
THEOREM CallsAreHeardInOrder == DeliverySpec => []CallOrderIsKept
  <1>1. ASSUME WholeInv PROVE CallOrderIsKept
    <2> SUFFICES ASSUME NEW h \in ChangeHandlers,
                        NEW i \in DOMAIN heard[h], NEW j \in DOMAIN heard[h], i < j
                 PROVE  heard[h][j].generation \notin heard[h][i].after
      BY DEF CallOrderIsKept
    <2>1. h \in Handlers
      BY DEF Handlers
    <2>2. /\ Queue!InOrder(heard[h], started) /\ Queue!InOrder(started, entered)
          /\ started \in Seq(Notification) /\ IsInjective(started)
      BY <1>1, <2>1, HeardOnce
    <2>3. PICK a \in DOMAIN started, b \in DOMAIN started :
            a < b /\ started[a] = heard[h][i] /\ started[b] = heard[h][j]
      BY <2>2 DEF Queue!InOrder
    <2>4. PICK c \in DOMAIN entered, d \in DOMAIN entered :
            c < d /\ entered[c] = started[a] /\ entered[d] = started[b]
      BY <2>2, <2>3 DEF Queue!InOrder
    <2>5. entered[d].generation \notin entered[c].after
      BY <1>1, <2>4 DEF WholeInv, DeliveryInv, SettledComesFirst
    <2> QED
      BY <2>3, <2>4, <2>5
  <1> QED
    BY <1>1, DeliveryInvariant, PTL
=============================================================================
