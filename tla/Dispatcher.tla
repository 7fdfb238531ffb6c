----------------------------- MODULE Dispatcher -----------------------------
(***************************************************************************)
(* internal/dispatch: one worker, one bounded first-in first-out queue.    *)
(*                                                                         *)
(* Submit is three non-blocking selects and two additions to the counter,  *)
(* each a step of its own, and any number of goroutines may be between two *)
(* of them: Dropped reads the counter at any moment.  Stop is called by    *)
(* several goroutines and may be called before Start.  A task that panics  *)
(* has returned, as far as the worker can tell; one that is stuck never    *)
(* does.                                                                   *)
(*                                                                         *)
(* entered, started and lost are histories: the code keeps only the count  *)
(* of what was lost.                                                       *)
(***************************************************************************)
EXTENDS Naturals, Sequences, FiniteSets, Functions

CONSTANTS
  Submitters,  \* goroutines that call Submit
  Stoppers,    \* goroutines that call Stop, once each
  Tasks,       \* each is submitted at most once
  Stuck,       \* the tasks that never return
  Nil,         \* no task
  Buffer       \* the size New is given

ASSUME DispatcherAssumption ==
  /\ Nil \notin Tasks
  /\ Stuck \subseteq Tasks
  /\ Buffer \in Nat

VARIABLES
  queue,      \* Dispatcher.queue
  dropped,    \* Dispatcher.dropped
  at,         \* where each submitter is inside Submit
  hand,       \* the task each submitter still has to queue
  worker,     \* where the worker is in run
  running,    \* the task it runs
  quit,       \* TRUE once the channel quit is closed
  startOnce,  \* TRUE once startOnce has fired, in Start or in Stop
  stopAt,     \* where each stopper is inside Stop
  answer,     \* what its Stop reported
  entered,    \* every task ever put in the queue, in order
  started,    \* every task the worker ever took, in order
  lost,       \* the tasks that were discarded
  early       \* how many tasks had been started when quit was closed

queueVars == <<queue, dropped, entered, lost>>
submitVars == <<at, hand>>
workerVars == <<worker, running, started>>
stopVars == <<quit, startOnce, stopAt, answer, early>>
vars == <<queueVars, submitVars, workerVars, stopVars>>

(* New raises a size below one to one.                                     *)
Capacity == IF Buffer < 1 THEN 1 ELSE Buffer

Entered == Range(entered)
Started == Range(started)
Queued == Range(queue)
InHand == {hand[s] : s \in Submitters} \ {Nil}

Init ==
  /\ queue = <<>>
  /\ dropped = 0
  /\ at = [s \in Submitters |-> "idle"]
  /\ hand = [s \in Submitters |-> Nil]
  /\ worker = "none"
  /\ running = Nil
  /\ quit = FALSE
  /\ startOnce = FALSE
  /\ stopAt = [k \in Stoppers |-> "idle"]
  /\ answer = [k \in Stoppers |-> "none"]
  /\ entered = <<>>
  /\ started = <<>>
  /\ lost = {}
  /\ early = 0

(***************************************************************************)
(* Submit.                                                                 *)
(***************************************************************************)
Enqueue(t) ==
  /\ queue' = Append(queue, t)
  /\ entered' = Append(entered, t)
  /\ UNCHANGED <<dropped, lost>>

(* A task is lost when it is received, or cannot be sent; the counter is   *)
(* advanced by the step after.                                             *)
Discard(t) ==
  /\ lost' = lost \cup {t}
  /\ UNCHANGED <<dropped, entered>>

(* A submitter that has queued its task, or lost it, has none.             *)
PartWith(s, to) ==
  /\ at' = [at EXCEPT ![s] = to]
  /\ hand' = [hand EXCEPT ![s] = Nil]

(* dropped.Add(1).                                                         *)
CountDrop(s, from, to) ==
  /\ at[s] = from
  /\ at' = [at EXCEPT ![s] = to]
  /\ dropped' = dropped + 1
  /\ UNCHANGED <<queue, entered, lost, hand, workerVars, stopVars>>

Submit(s, t) ==
  /\ at[s] = "idle"
  /\ at' = [at EXCEPT ![s] = "send"]
  /\ hand' = [hand EXCEPT ![s] = t]
  /\ UNCHANGED <<queueVars, workerVars, stopVars>>

Send(s) ==
  /\ at[s] = "send"
  /\ IF Len(queue) < Capacity
       THEN Enqueue(hand[s]) /\ PartWith(s, "idle")
       ELSE /\ at' = [at EXCEPT ![s] = "full"]
            /\ UNCHANGED <<hand, queueVars>>
  /\ UNCHANGED <<workerVars, stopVars>>

\* Mutant: the oldest entry is discarded without being counted.
DropOldestUncounted(s) ==
  /\ at[s] = "full"
  /\ at' = [at EXCEPT ![s] = "resend"]
  /\ IF queue # <<>>
       THEN queue' = Tail(queue) /\ Discard(Head(queue))
       ELSE UNCHANGED queueVars
  /\ UNCHANGED <<hand, workerVars, stopVars>>

(* The worker may have emptied the queue since Send found it full.         *)
DropOldest(s) ==
  /\ at[s] = "full"
  /\ IF queue # <<>>
       THEN /\ queue' = Tail(queue)
            /\ Discard(Head(queue))
            /\ at' = [at EXCEPT ![s] = "received"]
       ELSE /\ at' = [at EXCEPT ![s] = "resend"]
            /\ UNCHANGED queueVars
  /\ UNCHANGED <<hand, workerVars, stopVars>>

CountOldest(s) == CountDrop(s, "received", "resend")

\* Mutant: the second attempt waits for room.
ResendBlocking(s) ==
  /\ at[s] = "resend"
  /\ Len(queue) < Capacity
  /\ Enqueue(hand[s])
  /\ PartWith(s, "idle")
  /\ UNCHANGED <<workerVars, stopVars>>

\* Mutant: the second attempt goes to the front, where the hole was made.
ResendInFront(s) ==
  /\ at[s] = "resend"
  /\ IF Len(queue) < Capacity
       THEN /\ queue' = <<hand[s]>> \o queue
            /\ entered' = Append(entered, hand[s])
            /\ PartWith(s, "idle")
            /\ UNCHANGED <<dropped, lost>>
       ELSE Discard(hand[s]) /\ PartWith(s, "refused") /\ UNCHANGED queue
  /\ UNCHANGED <<workerVars, stopVars>>

\* Mutant: the room DropOldest made is taken to be there still.
ResendUnbounded(s) ==
  /\ at[s] = "resend"
  /\ Enqueue(hand[s])
  /\ PartWith(s, "idle")
  /\ UNCHANGED <<workerVars, stopVars>>

(* Another submitter may have taken the room DropOldest made.              *)
Resend(s) ==
  /\ at[s] = "resend"
  /\ IF Len(queue) < Capacity
       THEN Enqueue(hand[s]) /\ PartWith(s, "idle")
       ELSE Discard(hand[s]) /\ PartWith(s, "refused") /\ UNCHANGED queue
  /\ UNCHANGED <<workerVars, stopVars>>

CountOwn(s) == CountDrop(s, "refused", "idle")

(***************************************************************************)
(* Start and run.                                                          *)
(***************************************************************************)
Start ==
  /\ ~startOnce
  /\ startOnce' = TRUE
  /\ worker' = "top"
  /\ UNCHANGED <<running, started, quit, stopAt, answer, early, queueVars,
                 submitVars>>

\* Mutant: a single select over quit and queue.
LookWithoutQuit ==
  /\ worker = "top"
  /\ worker' = "select"
  /\ UNCHANGED <<running, started, queueVars, submitVars, stopVars>>

(* The first select of the loop: shutdown wins when it is already visible. *)
Look ==
  /\ worker = "top"
  /\ worker' = IF quit THEN "exited" ELSE "select"
  /\ UNCHANGED <<running, started, queueVars, submitVars, stopVars>>

(* The second select.  When both of its cases are ready Go takes either.   *)
SelectQuit ==
  /\ worker = "select"
  /\ quit
  /\ worker' = "exited"
  /\ UNCHANGED <<running, started, queueVars, submitVars, stopVars>>

Take ==
  /\ worker = "select"
  /\ queue # <<>>
  /\ worker' = "running"
  /\ running' = Head(queue)
  /\ queue' = Tail(queue)
  /\ started' = Append(started, Head(queue))
  /\ UNCHANGED <<dropped, entered, lost, submitVars, stopVars>>

\* Mutant: a task that does not return cleanly takes the worker with it.
TaskReturnsFatally ==
  /\ worker = "running"
  /\ running \notin Stuck
  /\ worker' = "dead"
  /\ running' = Nil
  /\ UNCHANGED <<started, queueVars, submitVars, stopVars>>

TaskReturns ==
  /\ worker = "running"
  /\ running \notin Stuck
  /\ worker' = "top"
  /\ running' = Nil
  /\ UNCHANGED <<started, queueVars, submitVars, stopVars>>

(***************************************************************************)
(* Stop.                                                                   *)
(***************************************************************************)
MoveStopper(k, from, to) ==
  /\ stopAt[k] = from
  /\ stopAt' = [stopAt EXCEPT ![k] = to]

Answer(k, reported) ==
  answer' = [answer EXCEPT ![k] = reported]

CloseQuit(k) ==
  /\ MoveStopper(k, "idle", "claim")
  /\ quit' = TRUE
  /\ early' = IF quit THEN early ELSE Len(started)
  /\ UNCHANGED <<startOnce, answer, queueVars, submitVars, workerVars>>

\* Mutant: Stop looks whether the worker was started and claims nothing.
ClaimNothing(k) ==
  /\ MoveStopper(k, "claim", IF startOnce THEN "wait" ELSE "returned")
  /\ Answer(k, IF startOnce THEN "none" ELSE "finished")
  /\ UNCHANGED <<quit, startOnce, early, queueVars, submitVars, workerVars>>

(* Claiming startOnce both tells whether there is a worker to wait for and *)
(* keeps Start from launching one afterwards.                              *)
Claim(k) ==
  /\ MoveStopper(k, "claim", IF startOnce THEN "wait" ELSE "returned")
  /\ Answer(k, IF startOnce THEN "none" ELSE "finished")
  /\ startOnce' = TRUE
  /\ UNCHANGED <<quit, early, queueVars, submitVars, workerVars>>

(* When the worker has already finished the wait ends at once.             *)
Finished(k) ==
  /\ worker = "exited"
  /\ MoveStopper(k, "wait", "returned")
  /\ Answer(k, "finished")
  /\ UNCHANGED <<quit, startOnce, early, queueVars, submitVars, workerVars>>

\* Mutant: Stop waits for the worker without a timer.
ExpiredNever(k) ==
  /\ worker = "exited"
  /\ MoveStopper(k, "wait", "returned")
  /\ Answer(k, "expired")
  /\ UNCHANGED <<quit, startOnce, early, queueVars, submitVars, workerVars>>

Expired(k) ==
  /\ MoveStopper(k, "wait", "returned")
  /\ Answer(k, "expired")
  /\ UNCHANGED <<quit, startOnce, early, queueVars, submitVars, workerVars>>

(***************************************************************************)
(* The specification.                                                      *)
(***************************************************************************)
Fresh(t) == t \notin Entered \cup lost \cup InHand

SubmitStep(s) ==
  \/ Send(s)
  \/ DropOldest(s)
  \/ CountOldest(s)
  \/ Resend(s)
  \/ CountOwn(s)

Run ==
  \/ Look
  \/ SelectQuit
  \/ Take
  \/ TaskReturns

StopStep(k) ==
  \/ Claim(k)
  \/ Finished(k)
  \/ Expired(k)

(* The worker waits for work, runs a task for ever, has exited or was      *)
(* never launched, and nobody is inside Submit or Stop.                    *)
Quiescent ==
  /\ \/ worker \in {"none", "exited"}
     \/ worker = "select" /\ queue = <<>> /\ ~quit
     \/ worker = "running" /\ running \in Stuck
  /\ \A s \in Submitters : at[s] = "idle"
  /\ \A k \in Stoppers : stopAt[k] \in {"idle", "returned"}

Rest == Quiescent /\ UNCHANGED vars

Next ==
  \/ \E s \in Submitters :
       \/ \E t \in Tasks : Fresh(t) /\ Submit(s, t)
       \/ SubmitStep(s)
  \/ Start
  \/ Run
  \/ \E k \in Stoppers : CloseQuit(k) \/ StopStep(k)
  \/ Rest

Spec == Init /\ [][Next]_vars

(* The submitters' goroutines and the worker's run.  Nothing makes anybody *)
(* call Submit, Start or Stop, a stuck task never returns, and no property *)
(* below needs a stopper to go on or its timer to fire.                    *)
Fairness ==
  /\ \A s \in Submitters : WF_vars(SubmitStep(s))
  /\ WF_vars(Run)

FairSpec == Spec /\ Fairness

(***************************************************************************)
(* Properties.                                                             *)
(***************************************************************************)

Points == {"idle", "send", "full", "received", "resend", "refused"}

(* Every variable holds what its Go counterpart can hold; the queue is     *)
(* never longer than the channel is.                                       *)
TypeOK ==
  /\ queue \in Seq(Tasks)
  /\ Len(queue) <= Capacity
  /\ dropped \in Nat
  /\ at \in [Submitters -> Points]
  /\ hand \in [Submitters -> Tasks \cup {Nil}]
  /\ worker \in {"none", "top", "select", "running", "exited"}
  /\ running \in Tasks \cup {Nil}
  /\ quit \in BOOLEAN
  /\ startOnce \in BOOLEAN
  /\ stopAt \in [Stoppers -> {"idle", "claim", "wait", "returned"}]
  /\ answer \in [Stoppers -> {"none", "finished", "expired"}]
  /\ entered \in Seq(Tasks)
  /\ started \in Seq(Tasks)
  /\ lost \subseteq Tasks
  /\ early \in Nat

(* Any two entries of s stand in the same order in all.                    *)
InOrder(s, all) ==
  \A i, j \in DOMAIN s :
    i < j => \E a, b \in DOMAIN all : a < b /\ all[a] = s[i] /\ all[b] = s[j]

Kept == started \o queue

(* The queue is first in first out through every interleaving of Submit    *)
(* and run: what was started, followed by what waits, is what entered in   *)
(* the order it entered, without what was dropped.  Nothing enters twice.  *)
FirstInFirstOut ==
  /\ IsInjective(entered)
  /\ InOrder(Kept, entered)
  /\ Range(Kept) = Entered \ lost

(* The submitters that have lost a task and not counted it yet.            *)
Uncounted == {s \in Submitters : at[s] \in {"received", "refused"}}

(* Dropped lags behind the tasks lost by exactly the submitters between a  *)
(* loss and its count: it never counts what may still run, and once nobody *)
(* is inside Submit it has counted every loss once, whoever lost the race. *)
DropsAreCounted ==
  /\ dropped + Cardinality(Uncounted) = Cardinality(lost)
  /\ lost \cap (Started \cup Queued \cup InHand) = {}

(* A stopped worker starts one more task at most: the one that reached it  *)
(* in the instant the stop did.                                            *)
AtMostOneLateStart == quit => Len(started) <= early + 1

(* A Stop that reports the worker finished is right for good: no worker is *)
(* running, and no later Start can launch one.                             *)
FinishedIsFinal ==
  (\E k \in Stoppers : answer[k] = "finished")
    => worker \in {"none", "exited"} /\ startOnce

(***************************************************************************)
(* What else every step keeps, and the properties above rest on.           *)
(***************************************************************************)

(* A submitter has one task until it has queued or lost it, its own, which *)
(* has not entered the queue and has not been dropped.                     *)
HandsAreApart ==
  /\ \A s \in Submitters : at[s] \in {"idle", "refused"} <=> hand[s] = Nil
  /\ \A r, s \in Submitters : hand[r] = hand[s] /\ hand[s] # Nil => r = s
  /\ InHand \cap (Entered \cup lost) = {}

(* After the stop the worker reaches its second select only if it was past *)
(* the first one already, and then it has started nothing since.           *)
StopIsSeen == quit /\ worker = "select" => Len(started) <= early

(* There is a worker only when Start claimed it.                           *)
WorkerIsClaimed == worker # "none" => startOnce

DispatcherInv ==
  /\ HandsAreApart
  /\ FirstInFirstOut
  /\ IsFiniteSet(lost) /\ IsFiniteSet(Uncounted)
  /\ DropsAreCounted
  /\ StopIsSeen
  /\ AtMostOneLateStart
  /\ WorkerIsClaimed
  /\ FinishedIsFinal

(* Submit returns though the worker be stuck in a task for ever.           *)
SubmitReturns == \A s \in Submitters : at[s] = "send" ~> at[s] = "idle"

(* A task that waits in the queue of a started dispatcher does not wait    *)
(* for ever, unless the dispatcher is stopped or a task gets stuck.        *)
QueuedIsSettled ==
  \A t \in Tasks :
    (t \in Queued /\ worker # "none")
      ~> (t \in Started \cup lost \/ quit \/ running \in Stuck)

(* A stopped worker exits, unless it is stuck in a task.                   *)
StoppedWorkerExits ==
  (quit /\ worker # "none") ~> (worker = "exited" \/ running \in Stuck)
=============================================================================
