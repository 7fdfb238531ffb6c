-------------------------- MODULE DispatcherProofs --------------------------
(***************************************************************************)
(* Theorems about Dispatcher for every set of submitters, stoppers and     *)
(* tasks, finite or not, and every size of the queue.                      *)
(***************************************************************************)
EXTENDS Dispatcher, SequenceFacts, FiniteSetTheorems

(***************************************************************************)
(* What the operators on sequences do to a history.                        *)
(***************************************************************************)

(* What joins both histories at the end stands last in both.               *)
LEMMA AppendKeepsOrder ==
  ASSUME NEW S, NEW s \in Seq(S), NEW all \in Seq(S), NEW e \in S,
         InOrder(s, all), Range(s) \subseteq Range(all)
  PROVE  InOrder(Append(s, e), Append(all, e))
  <1> DEFINE s2 == Append(s, e)
             all2 == Append(all, e)
  <1>1. /\ DOMAIN s = 1 .. Len(s) /\ DOMAIN s2 = 1 .. Len(s) + 1
        /\ s2[Len(s) + 1] = e /\ \A i \in DOMAIN s : s2[i] = s[i]
    OBVIOUS
  <1>2. /\ DOMAIN all = 1 .. Len(all) /\ DOMAIN all2 = 1 .. Len(all) + 1
        /\ all2[Len(all) + 1] = e /\ \A i \in DOMAIN all : all2[i] = all[i]
    OBVIOUS
  <1>3. Len(s) \in Nat /\ Len(all) \in Nat
    OBVIOUS
  <1> HIDE DEF s2, all2
  <1> SUFFICES ASSUME NEW i \in DOMAIN s2, NEW j \in DOMAIN s2, i < j
               PROVE  \E a, b \in DOMAIN all2 :
                        a < b /\ all2[a] = s2[i] /\ all2[b] = s2[j]
    BY DEF InOrder, s2, all2
  <1>4. i \in DOMAIN s
    BY <1>1, <1>3
  <1>5. CASE j \in DOMAIN s
    <2>1. PICK a \in DOMAIN all, b \in DOMAIN all :
            a < b /\ all[a] = s[i] /\ all[b] = s[j]
      BY <1>4, <1>5 DEF InOrder
    <2>2. a \in DOMAIN all2 /\ b \in DOMAIN all2
      BY <1>2, <1>3
    <2> QED
      BY <1>1, <1>2, <1>4, <1>5, <2>1, <2>2
  <1>6. CASE j = Len(s) + 1
    <2>1. PICK a \in DOMAIN all : all[a] = s[i]
      BY <1>4 DEF Range
    <2>2. a < Len(all) + 1 /\ a \in DOMAIN all2 /\ Len(all) + 1 \in DOMAIN all2
      BY <1>2, <1>3
    <2> QED
      BY <1>1, <1>2, <1>4, <1>6, <2>1, <2>2
  <1> QED
    BY <1>1, <1>3, <1>5, <1>6

(* Dropping the front of the queue leaves the others in their order.       *)
LEMMA DropKeepsOrder ==
  ASSUME NEW S, NEW s \in Seq(S), NEW q \in Seq(S), NEW all, q # <<>>,
         InOrder(s \o q, all)
  PROVE  InOrder(s \o Tail(q), all)
  <1> DEFINE u == s \o q
             v == s \o Tail(q)
             skip(i) == IF i <= Len(s) THEN i ELSE i + 1
  <1>1. \A i \in DOMAIN v : skip(i) \in DOMAIN u /\ v[i] = u[skip(i)]
    OBVIOUS
  <1>2. \A i, j \in DOMAIN v : i < j => skip(i) < skip(j)
    OBVIOUS
  <1> HIDE DEF u, v, skip
  <1>3. InOrder(u, all)
    BY DEF u
  <1>4. InOrder(v, all)
    <2> SUFFICES ASSUME NEW i \in DOMAIN v, NEW j \in DOMAIN v, i < j
                 PROVE  \E a, b \in DOMAIN all :
                          a < b /\ all[a] = v[i] /\ all[b] = v[j]
      BY DEF InOrder
    <2>1. PICK a \in DOMAIN all, b \in DOMAIN all :
            a < b /\ all[a] = u[skip(i)] /\ all[b] = u[skip(j)]
      BY <1>1, <1>2, <1>3 DEF InOrder
    <2> QED
      BY <1>1, <2>1
  <1> QED
    BY <1>4 DEF v

(* What stands in the order of a history without repetitions has none.     *)
LEMMA InOrderIsInjective ==
  ASSUME NEW S, NEW s \in Seq(S), NEW all \in Seq(S),
         IsInjective(all), InOrder(s, all)
  PROVE  IsInjective(s)
  <1> SUFFICES ASSUME NEW i \in DOMAIN s, NEW j \in DOMAIN s, i < j, s[i] = s[j]
               PROVE  FALSE
    BY DEF IsInjective
  <1>1. PICK a \in DOMAIN all, b \in DOMAIN all :
          a < b /\ all[a] = s[i] /\ all[b] = s[j]
    BY DEF InOrder
  <1>2. a = b
    BY <1>1 DEF IsInjective
  <1>3. a \in Nat
    OBVIOUS
  <1> QED
    BY <1>1, <1>2, <1>3

(* The front of the queue occurs nowhere else.                             *)
LEMMA FrontIsAlone ==
  ASSUME NEW S, NEW s \in Seq(S), NEW q \in Seq(S), q # <<>>,
         IsInjective(s \o q)
  PROVE  Head(q) \notin Range(s) /\ Head(q) \notin Range(Tail(q))
  <1> DEFINE u == s \o q
             n == Len(s) + 1
  <1>1. n \in DOMAIN u /\ u[n] = Head(q)
    OBVIOUS
  <1>2. \A i \in DOMAIN s : i \in DOMAIN u /\ u[i] = s[i] /\ i # n
    OBVIOUS
  <1>3. \A i \in DOMAIN Tail(q) :
          n + i \in DOMAIN u /\ u[n + i] = Tail(q)[i] /\ n + i # n
    OBVIOUS
  <1> HIDE DEF u, n
  <1>4. IsInjective(u)
    BY DEF u
  <1>5. Head(q) \notin Range(s)
    BY <1>1, <1>2, <1>4 DEF Range, IsInjective
  <1>6. Head(q) \notin Range(Tail(q))
    BY <1>1, <1>3, <1>4 DEF Range, IsInjective
  <1> QED
    BY <1>5, <1>6

(***************************************************************************)
(* Type correctness.                                                       *)
(***************************************************************************)

(* What a step can be, as one list.                                        *)
LEMMA StepIsOneOf ==
  ASSUME [Next]_vars
  PROVE  \/ \E s \in Submitters :
              \/ \E t \in Tasks : Fresh(t) /\ Submit(s, t)
              \/ Send(s) \/ DropOldest(s) \/ CountOldest(s)
              \/ Resend(s) \/ CountOwn(s)
         \/ Start \/ Look \/ SelectQuit \/ Take \/ TaskReturns
         \/ \E k \in Stoppers :
              CloseQuit(k) \/ Claim(k) \/ Finished(k) \/ Expired(k)
         \/ UNCHANGED vars
  BY DEF Next, SubmitStep, Run, StopStep, Rest

(* The task a submitter brings is one.                                     *)
LEMMA TaskInHand ==
  ASSUME TypeOK, HandsAreApart, NEW s \in Submitters,
         at[s] \notin {"idle", "refused"}
  PROVE  hand[s] \in Tasks /\ hand[s] \in InHand
  BY DEF TypeOK, HandsAreApart, InHand

(* Every variable starts with a value of its type.                         *)
LEMMA TypeInit == Init => TypeOK
  <1> SUFFICES ASSUME Init PROVE TypeOK
    OBVIOUS
  <1>1. queue \in Seq(Tasks) /\ Len(queue) <= Capacity
    BY DispatcherAssumption DEF Init, Capacity
  <1>2. entered \in Seq(Tasks) /\ started \in Seq(Tasks)
    BY DEF Init
  <1>3. at \in [Submitters -> Points]
    BY DEF Init, Points
  <1>4. hand \in [Submitters -> Tasks \cup {Nil}]
    BY DEF Init
  <1>5. stopAt \in [Stoppers -> {"idle", "claim", "wait", "returned"}]
    BY DEF Init
  <1>6. answer \in [Stoppers -> {"none", "finished", "expired"}]
    BY DEF Init
  <1>7. /\ dropped \in Nat /\ early \in Nat /\ lost \subseteq Tasks
        /\ worker \in {"none", "top", "select", "running", "exited"}
        /\ running \in Tasks \cup {Nil}
        /\ quit \in BOOLEAN /\ startOnce \in BOOLEAN
    BY DEF Init
  <1> QED
    BY <1>1, <1>2, <1>3, <1>4, <1>5, <1>6, <1>7 DEF TypeOK

(* Every action gives the variables it changes values of their types.      *)
LEMMA TypeStep == TypeOK /\ HandsAreApart /\ [Next]_vars => TypeOK'
  <1> SUFFICES ASSUME TypeOK, HandsAreApart, [Next]_vars PROVE TypeOK'
    OBVIOUS
  <1> USE DispatcherAssumption
      DEF TypeOK, Points, Capacity, queueVars, submitVars, workerVars, stopVars
  <1>1. ASSUME NEW s \in Submitters, NEW t \in Tasks, Submit(s, t) PROVE TypeOK'
    BY <1>1 DEF Submit
  <1>2. ASSUME NEW s \in Submitters, Send(s) PROVE TypeOK'
    <2>1. hand[s] \in Tasks
      BY <1>2, TaskInHand DEF Send
    <2>2. CASE Len(queue) < Capacity
      <3>1. Enqueue(hand[s]) /\ PartWith(s, "idle")
        BY <1>2, <2>2 DEF Send
      <3>2. /\ queue' \in Seq(Tasks) /\ entered' \in Seq(Tasks)
            /\ Len(queue') <= Capacity
        BY <2>1, <2>2, <3>1 DEF Enqueue
      <3> QED
        BY <1>2, <3>1, <3>2 DEF Send, Enqueue, PartWith
    <2>3. CASE ~(Len(queue) < Capacity)
      BY <1>2, <2>3 DEF Send
    <2> QED
      BY <2>2, <2>3
  <1>3. ASSUME NEW s \in Submitters, DropOldest(s) PROVE TypeOK'
    <2>1. CASE queue # <<>>
      <3>1. /\ Head(queue) \in Tasks /\ Tail(queue) \in Seq(Tasks)
            /\ Len(Tail(queue)) = Len(queue) - 1
        BY <2>1, RangeOfTail
      <3>2. /\ queue' = Tail(queue) /\ lost' = lost \cup {Head(queue)}
            /\ at' = [at EXCEPT ![s] = "received"]
            /\ UNCHANGED <<dropped, entered, hand, workerVars, stopVars>>
        BY <1>3, <2>1 DEF DropOldest, Discard
      <3>3. Len(queue) \in Nat
        OBVIOUS
      <3>4. Len(queue') <= Capacity
        BY <3>1, <3>2, <3>3
      <3>5. queue' \in Seq(Tasks) /\ lost' \subseteq Tasks
        BY <3>1, <3>2
      <3> QED
        BY <3>2, <3>4, <3>5
    <2>2. CASE queue = <<>>
      BY <1>3, <2>2 DEF DropOldest
    <2> QED
      BY <2>1, <2>2
  <1>4. ASSUME NEW s \in Submitters, Resend(s) PROVE TypeOK'
    <2>1. hand[s] \in Tasks
      BY <1>4, TaskInHand DEF Resend
    <2>2. CASE Len(queue) < Capacity
      <3>1. Enqueue(hand[s]) /\ PartWith(s, "idle")
        BY <1>4, <2>2 DEF Resend
      <3>2. /\ queue' \in Seq(Tasks) /\ entered' \in Seq(Tasks)
            /\ Len(queue') <= Capacity
        BY <2>1, <2>2, <3>1 DEF Enqueue
      <3> QED
        BY <1>4, <3>1, <3>2 DEF Resend, Enqueue, PartWith
    <2>3. CASE ~(Len(queue) < Capacity)
      <3>1. /\ Discard(hand[s]) /\ PartWith(s, "refused")
            /\ UNCHANGED queue
        BY <1>4, <2>3 DEF Resend
      <3> QED
        BY <1>4, <2>1, <3>1 DEF Resend, Discard, PartWith
    <2> QED
      BY <2>2, <2>3
  <1>5. CASE Start
    BY <1>5 DEF Start
  <1>6. CASE Look
    BY <1>6 DEF Look
  <1>7. CASE SelectQuit
    BY <1>7 DEF SelectQuit
  <1>8. CASE Take
    <2>1. /\ Head(queue) \in Tasks /\ Tail(queue) \in Seq(Tasks)
          /\ Len(Tail(queue)) = Len(queue) - 1
      BY <1>8, RangeOfTail DEF Take
    <2> QED
      BY <1>8, <2>1 DEF Take
  <1>9. CASE TaskReturns
    BY <1>9 DEF TaskReturns
  <1>10. ASSUME NEW k \in Stoppers,
                CloseQuit(k) \/ Claim(k) \/ Finished(k) \/ Expired(k)
         PROVE  TypeOK'
    <2> USE DEF MoveStopper, Answer
    <2>1. CASE CloseQuit(k)
      <3>1. Len(started) \in Nat
        OBVIOUS
      <3> QED
        BY <2>1, <3>1 DEF CloseQuit
    <2>2. CASE Claim(k)
      BY <2>2 DEF Claim
    <2>3. CASE Finished(k)
      BY <2>3 DEF Finished
    <2>4. CASE Expired(k)
      BY <2>4 DEF Expired
    <2> QED
      BY <1>10, <2>1, <2>2, <2>3, <2>4
  <1>11. CASE UNCHANGED vars
    BY <1>11 DEF vars
  <1>12. ASSUME NEW s \in Submitters, CountOldest(s) \/ CountOwn(s) PROVE TypeOK'
    BY <1>12 DEF CountOldest, CountOwn, CountDrop
  <1> QED
    BY <1>1, <1>2, <1>3, <1>4, <1>5, <1>6, <1>7, <1>8, <1>9, <1>10, <1>11, <1>12,
       StepIsOneOf

(***************************************************************************)
(* Preserving the inductive invariant, one lemma for each of its parts.    *)
(***************************************************************************)

(* What each step does to the sets the invariant speaks of: a submitter    *)
(* brings a task nobody has seen, or its task enters, or the front of the  *)
(* queue is dropped, or its own task is, or a drop is counted, or the      *)
(* front is started.                                                       *)
LEMMA Effects ==
  ASSUME TypeOK, HandsAreApart, [Next]_vars
  PROVE  \/ \E s \in Submitters, t \in Tasks :
              /\ Fresh(t) /\ at[s] = "idle"
              /\ at' = [at EXCEPT ![s] = "send"]
              /\ hand' = [hand EXCEPT ![s] = t]
              /\ UNCHANGED <<queueVars, started>>
         \/ \E s \in Submitters :
              /\ at[s] \in {"send", "resend"} /\ hand[s] \in Tasks
              /\ PartWith(s, "idle") /\ Enqueue(hand[s]) /\ UNCHANGED started
         \/ \E s \in Submitters :
              /\ at[s] = "full" /\ at' = [at EXCEPT ![s] = "received"]
              /\ queue # <<>> /\ queue' = Tail(queue) /\ Discard(Head(queue))
              /\ UNCHANGED <<hand, started>>
         \/ \E s \in Submitters :
              /\ at[s] = "resend" /\ hand[s] \in Tasks
              /\ PartWith(s, "refused") /\ Discard(hand[s])
              /\ UNCHANGED <<queue, started>>
         \/ \E s \in Submitters : CountOldest(s) \/ CountOwn(s)
         \/ /\ queue # <<>>
            /\ queue' = Tail(queue) /\ started' = Append(started, Head(queue))
            /\ UNCHANGED <<dropped, entered, lost, submitVars>>
         \/ /\ \A s \in Submitters :
                 /\ at'[s] \in {"idle", "refused"} <=> at[s] \in {"idle", "refused"}
                 /\ at'[s] \in {"received", "refused"}
                      <=> at[s] \in {"received", "refused"}
            /\ UNCHANGED <<hand, queueVars, started>>
  <1> USE DEF TypeOK, queueVars, submitVars, workerVars, stopVars
  <1>1. ASSUME NEW s \in Submitters, NEW t \in Tasks, Fresh(t), Submit(s, t)
        PROVE  /\ at[s] = "idle"
               /\ at' = [at EXCEPT ![s] = "send"]
               /\ hand' = [hand EXCEPT ![s] = t]
               /\ UNCHANGED <<queueVars, started>>
    BY <1>1 DEF Submit
  <1>2. ASSUME NEW s \in Submitters, Send(s)
        PROVE  \/ /\ at[s] \in {"send", "resend"} /\ hand[s] \in Tasks
                  /\ PartWith(s, "idle") /\ Enqueue(hand[s]) /\ UNCHANGED started
               \/ /\ at[s] = "send" /\ at' = [at EXCEPT ![s] = "full"]
                  /\ UNCHANGED <<hand, queueVars, started>>
    BY <1>2, TaskInHand DEF Send
  <1>3. ASSUME NEW s \in Submitters, DropOldest(s)
        PROVE  \/ /\ at[s] = "full" /\ at' = [at EXCEPT ![s] = "received"]
                  /\ queue # <<>> /\ queue' = Tail(queue) /\ Discard(Head(queue))
                  /\ UNCHANGED <<hand, started>>
               \/ /\ at[s] = "full" /\ at' = [at EXCEPT ![s] = "resend"]
                  /\ UNCHANGED <<hand, queueVars, started>>
    BY <1>3 DEF DropOldest
  <1>4. ASSUME NEW s \in Submitters, Resend(s)
        PROVE  /\ at[s] = "resend" /\ hand[s] \in Tasks /\ UNCHANGED started
               /\ \/ PartWith(s, "idle") /\ Enqueue(hand[s])
                  \/ /\ PartWith(s, "refused") /\ Discard(hand[s])
                     /\ UNCHANGED queue
    BY <1>4, TaskInHand DEF Resend
  <1>7. ASSUME NEW s \in Submitters,
               \/ at[s] = "send" /\ at' = [at EXCEPT ![s] = "full"]
               \/ at[s] = "full" /\ at' = [at EXCEPT ![s] = "resend"]
        PROVE  \A r \in Submitters :
                 /\ at'[r] \in {"idle", "refused"} <=> at[r] \in {"idle", "refused"}
                 /\ at'[r] \in {"received", "refused"}
                      <=> at[r] \in {"received", "refused"}
    BY <1>7
  <1>5. CASE Take
    BY <1>5 DEF Take
  <1>6. CASE \/ Start \/ Look \/ SelectQuit \/ TaskReturns
             \/ \E k \in Stoppers :
                  CloseQuit(k) \/ Claim(k) \/ Finished(k) \/ Expired(k)
             \/ UNCHANGED vars
    BY <1>6
    DEF Start, Look, SelectQuit, TaskReturns, CloseQuit, Claim, Finished,
        Expired, vars
  <1> QED
    BY <1>1, <1>2, <1>3, <1>4, <1>5, <1>6, <1>7, StepIsOneOf

(* What is queued or was started has entered.                              *)
LEMMA WholeHasEntered ==
  ASSUME TypeOK, FirstInFirstOut
  PROVE  /\ Kept \in Seq(Tasks)
         /\ Range(Kept) = Started \cup Queued
         /\ Started \cup Queued = Entered \ lost
  BY RangeConcatenation DEF TypeOK, FirstInFirstOut, Kept, Started, Queued

(* Submit takes a task nobody has, and is left without it.                 *)
LEMMA HandsStep ==
  ASSUME TypeOK, HandsAreApart, FirstInFirstOut, [Next]_vars
  PROVE  HandsAreApart'
  <1> USE DispatcherAssumption
      DEF TypeOK, HandsAreApart, InHand, queueVars, submitVars
  <1>1. ASSUME NEW s \in Submitters, NEW t \in Tasks,
               Fresh(t), at[s] = "idle",
               at' = [at EXCEPT ![s] = "send"],
               hand' = [hand EXCEPT ![s] = t],
               UNCHANGED <<queueVars, started>>
        PROVE  HandsAreApart'
    <2>1. Entered' = Entered /\ lost' = lost
      BY <1>1 DEF Entered
    <2>2. InHand' \subseteq InHand \cup {t}
      BY <1>1
    <2>3. t \notin InHand /\ t \notin Entered \cup lost /\ t # Nil
      BY <1>1 DEF Fresh
    <2>4. \A r \in Submitters : hand[r] # t
      BY <2>3
    <2> QED
      BY <1>1, <2>1, <2>2, <2>3, <2>4
  <1>2. ASSUME NEW s \in Submitters, hand[s] \in Tasks,
               NEW to \in {"idle", "refused"}, PartWith(s, to)
        PROVE  /\ \A r \in Submitters :
                    (at[r] \in {"idle", "refused"} <=> hand[r] = Nil)'
               /\ \A q, r \in Submitters :
                    (hand[q] = hand[r] /\ hand[r] # Nil => q = r)'
               /\ InHand' \subseteq InHand \ {hand[s]}
    <2>1. \A r \in Submitters :
            /\ at'[r] = IF r = s THEN to ELSE at[r]
            /\ hand'[r] = IF r = s THEN Nil ELSE hand[r]
      BY <1>2 DEF PartWith
    <2> QED
      BY <1>2, <2>1
  <1>3. ASSUME NEW s \in Submitters, at[s] \in {"send", "resend"},
               hand[s] \in Tasks, PartWith(s, "idle"), Enqueue(hand[s])
        PROVE  HandsAreApart'
    <2>1. Entered' = Entered \cup {hand[s]} /\ lost' = lost
      BY <1>3, RangeOfAppend DEF Entered, Enqueue
    <2> QED
      BY <1>2, <1>3, <2>1
  <1>4. ASSUME NEW s \in Submitters, at[s] = "full", queue # <<>>,
               at' = [at EXCEPT ![s] = "received"],
               Discard(Head(queue)), UNCHANGED hand
        PROVE  HandsAreApart'
    <2>1. Head(queue) \in Entered
      BY <1>4, RangeOfTail, WholeHasEntered DEF Queued
    <2>2. Entered' = Entered /\ lost' = lost \cup {Head(queue)} /\ InHand' = InHand
      BY <1>4 DEF Entered, Discard
    <2>3. \A r \in Submitters :
            at'[r] \in {"idle", "refused"} <=> at[r] \in {"idle", "refused"}
      BY <1>4
    <2> QED
      BY <1>4, <2>1, <2>2, <2>3
  <1>5. ASSUME NEW s \in Submitters, hand[s] \in Tasks, PartWith(s, "refused"),
               Discard(hand[s])
        PROVE  HandsAreApart'
    <2>1. Entered' = Entered /\ lost' = lost \cup {hand[s]}
      BY <1>5 DEF Entered, Discard
    <2> QED
      BY <1>2, <1>5, <2>1
  <1>6. ASSUME \A s \in Submitters :
                 at'[s] \in {"idle", "refused"} <=> at[s] \in {"idle", "refused"},
               UNCHANGED <<hand, entered, lost>>
        PROVE  HandsAreApart'
    BY <1>6 DEF Entered
  <1>7. ASSUME NEW s \in Submitters, CountOldest(s) \/ CountOwn(s)
        PROVE  HandsAreApart'
    <2>1. /\ UNCHANGED <<hand, entered, lost>>
          /\ \/ at[s] = "received" /\ at' = [at EXCEPT ![s] = "resend"]
             \/ at[s] = "refused" /\ at' = [at EXCEPT ![s] = "idle"]
      BY <1>7 DEF CountOldest, CountOwn, CountDrop
    <2>2. \A r \in Submitters :
            at'[r] \in {"idle", "refused"} <=> at[r] \in {"idle", "refused"}
      BY <2>1
    <2> QED
      BY <1>6, <2>1, <2>2
  <1> QED
    BY <1>1, <1>3, <1>4, <1>5, <1>6, <1>7, Effects

(* Dropping the front of the queue takes that one task from the whole.     *)
LEMMA DropFromTheWhole ==
  ASSUME TypeOK, FirstInFirstOut, queue # <<>>
  PROVE  /\ Head(queue) \in Tasks /\ Tail(queue) \in Seq(Tasks)
         /\ Head(queue) \in Queued
         /\ Range(Tail(queue)) = Queued \ {Head(queue)}
         /\ Head(queue) \notin Started
         /\ Range(started \o Tail(queue)) = Range(Kept) \ {Head(queue)}
  <1>1. /\ Head(queue) \in Tasks /\ Tail(queue) \in Seq(Tasks)
        /\ Queued = {Head(queue)} \cup Range(Tail(queue))
    BY RangeOfTail DEF TypeOK, Queued
  <1>2. IsInjective(Kept)
    BY InOrderIsInjective, WholeHasEntered DEF TypeOK, FirstInFirstOut
  <1>3. Head(queue) \notin Started /\ Head(queue) \notin Range(Tail(queue))
    BY <1>2, FrontIsAlone DEF TypeOK, Kept, Started
  <1>4. Range(started \o Tail(queue)) = Started \cup Range(Tail(queue))
    <2> DEFINE u == Tail(queue)
    <2>1. started \in Seq(Tasks) /\ u \in Seq(Tasks)
      BY <1>1 DEF TypeOK
    <2> HIDE DEF u
    <2>2. Range(started \o u) = Range(started) \cup Range(u)
      BY <2>1, RangeConcatenation
    <2> QED
      BY <2>2 DEF u, Started
  <1> QED
    BY <1>1, <1>3, <1>4, WholeHasEntered

(* Entering adds at the end of both histories, dropping leaves a gap, and  *)
(* starting moves the boundary between what was started and what waits.    *)
LEMMA OrderStep ==
  ASSUME TypeOK, HandsAreApart, FirstInFirstOut, [Next]_vars
  PROVE  FirstInFirstOut'
  <1> USE DEF queueVars, submitVars
  <1>1. ASSUME UNCHANGED <<queue, entered, started, lost>>
        PROVE  FirstInFirstOut'
    BY <1>1 DEF FirstInFirstOut, Kept, Entered
  <1>2. ASSUME NEW s \in Submitters, at[s] \in {"send", "resend"},
               hand[s] \in Tasks, Enqueue(hand[s]), UNCHANGED started
        PROVE  FirstInFirstOut'
    <2>1. hand[s] \notin Entered /\ hand[s] \notin lost
      BY <1>2, TaskInHand DEF HandsAreApart
    <2>2. Kept' = Append(Kept, hand[s])
      BY <1>2, AppendToTheWhole DEF TypeOK, Kept, Enqueue
    <2>3. entered' = Append(entered, hand[s]) /\ lost' = lost
      BY <1>2 DEF Enqueue
    <2>4. IsInjective(entered')
      BY <1>2, <2>1, <2>3, AppendIsInjective DEF TypeOK, FirstInFirstOut, Entered
    <2>5. InOrder(Kept', entered')
      BY <1>2, <2>2, <2>3, AppendKeepsOrder, WholeHasEntered
      DEF TypeOK, FirstInFirstOut, Entered
    <2>6. Range(Kept') = Entered' \ lost'
      <3>1. Range(Kept') = Range(Kept) \cup {hand[s]}
        BY <1>2, <2>2, RangeOfAppend, WholeHasEntered
      <3>2. Entered' = Entered \cup {hand[s]}
        BY <1>2, <2>3, RangeOfAppend DEF TypeOK, Entered
      <3> QED
        BY <2>1, <2>3, <3>1, <3>2 DEF FirstInFirstOut
    <2> QED
      BY <2>4, <2>5, <2>6 DEF FirstInFirstOut
  <1>3. ASSUME queue # <<>>, queue' = Tail(queue), Discard(Head(queue)),
               UNCHANGED started
        PROVE  FirstInFirstOut'
    <2>1. Kept' = started \o Tail(queue)
      BY <1>3 DEF Kept
    <2>2. InOrder(Kept', entered')
      BY <1>3, <2>1, DropKeepsOrder DEF TypeOK, FirstInFirstOut, Kept, Discard
    <2>3. Entered' \ lost' = (Entered \ lost) \ {Head(queue)}
      BY <1>3 DEF Entered, Discard
    <2>4. Range(Kept') = Entered' \ lost'
      BY <1>3, <2>1, <2>3, DropFromTheWhole DEF FirstInFirstOut
    <2> QED
      BY <1>3, <2>2, <2>4 DEF FirstInFirstOut, Discard
  <1>4. ASSUME NEW s \in Submitters, at[s] = "resend", hand[s] \in Tasks,
               Discard(hand[s]), UNCHANGED <<queue, started>>
        PROVE  FirstInFirstOut'
    <2>1. hand[s] \notin Entered
      BY <1>4, TaskInHand DEF HandsAreApart
    <2>2. Entered' \ lost' = Entered \ lost
      BY <1>4, <2>1 DEF Entered, Discard
    <2> QED
      BY <1>4, <2>2 DEF FirstInFirstOut, Kept, Discard
  <1>5. ASSUME queue # <<>>, queue' = Tail(queue),
               started' = Append(started, Head(queue)), UNCHANGED <<entered, lost>>
        PROVE  FirstInFirstOut'
    <2>1. Kept' = Kept
      BY <1>5, TakeKeepsTheWhole DEF TypeOK, Kept
    <2> QED
      BY <1>5, <2>1 DEF FirstInFirstOut, Entered
  <1>6. ASSUME NEW s \in Submitters, CountOldest(s) \/ CountOwn(s)
        PROVE  UNCHANGED <<queue, entered, started, lost>>
    BY <1>6 DEF CountOldest, CountOwn, CountDrop, workerVars
  <1> QED
    BY <1>1, <1>2, <1>3, <1>4, <1>5, <1>6, Effects

(* What is dropped was dropped never before, waits no longer and is in     *)
(* nobody's hand; its submitter owes the count until it has paid it.       *)
LEMMA DropsStep ==
  ASSUME TypeOK, HandsAreApart, FirstInFirstOut, IsFiniteSet(lost),
         IsFiniteSet(Uncounted), DropsAreCounted, [Next]_vars
  PROVE  IsFiniteSet(lost)' /\ IsFiniteSet(Uncounted)' /\ DropsAreCounted'
  <1> USE DEF queueVars, submitVars
  <1> DEFINE Alive == Started \cup Queued \cup InHand
             Counted == IsFiniteSet(lost)' /\ IsFiniteSet(Uncounted)' /\ DropsAreCounted'
  <1>0. /\ Cardinality(lost) \in Nat /\ Cardinality(Uncounted) \in Nat
        /\ dropped \in Nat
    BY FS_CardinalityType DEF TypeOK
  <1>1. ASSUME UNCHANGED <<dropped, lost>>, Uncounted' = Uncounted,
               \A t \in Alive' : t \in Alive \/ t \notin lost
        PROVE  Counted
    BY <1>1 DEF DropsAreCounted
  <1>2. ASSUME NEW t, t \notin lost, Discard(t), Alive' \subseteq Alive \ {t},
               NEW s, s \notin Uncounted, Uncounted' = Uncounted \cup {s}
        PROVE  Counted
    <2>1. /\ IsFiniteSet(lost \cup {t})
          /\ Cardinality(lost \cup {t}) = Cardinality(lost) + 1
      BY <1>2, FS_AddElement
    <2>2. /\ IsFiniteSet(Uncounted \cup {s})
          /\ Cardinality(Uncounted \cup {s}) = Cardinality(Uncounted) + 1
      BY <1>2, FS_AddElement
    <2>3. dropped' = dropped /\ lost' = lost \cup {t}
      BY <1>2 DEF Discard
    <2>4. lost' \cap Alive' = {}
      BY <1>2, <2>3 DEF DropsAreCounted
    <2>5. dropped' + Cardinality(Uncounted') = Cardinality(lost')
      BY <1>0, <1>2, <2>1, <2>2, <2>3 DEF DropsAreCounted
    <2> QED
      BY <1>2, <2>1, <2>2, <2>3, <2>4, <2>5 DEF DropsAreCounted
  <1>3. ASSUME NEW s \in Submitters, NEW t \in Tasks, Fresh(t), at[s] = "idle",
               at' = [at EXCEPT ![s] = "send"],
               hand' = [hand EXCEPT ![s] = t], UNCHANGED <<queueVars, started>>
        PROVE  Counted
    <2>1. Started' = Started /\ Queued' = Queued /\ InHand' \subseteq InHand \cup {t}
      BY <1>3 DEF TypeOK, Started, Queued, InHand
    <2>2. Uncounted' = Uncounted
      BY <1>3 DEF TypeOK, Uncounted
    <2> QED
      BY <1>1, <1>3, <2>1, <2>2 DEF Fresh
  <1>4. ASSUME NEW s \in Submitters, at[s] \in {"send", "resend"}, NEW to,
               PartWith(s, to)
        PROVE  InHand' \subseteq InHand \ {hand[s]}
    BY <1>4 DEF TypeOK, HandsAreApart, InHand, PartWith
  <1>5. ASSUME NEW s \in Submitters, at[s] \in {"send", "resend"},
               hand[s] \in Tasks, PartWith(s, "idle"),
               Enqueue(hand[s]), UNCHANGED started
        PROVE  Counted
    <2>1. Started' = Started /\ Queued' = Queued \cup {hand[s]}
      BY <1>5, RangeOfAppend DEF TypeOK, Started, Queued, Enqueue
    <2>2. hand[s] \in InHand
      BY <1>5, TaskInHand
    <2>3. Uncounted' = Uncounted
      BY <1>5 DEF TypeOK, Uncounted, PartWith
    <2> QED
      BY <1>1, <1>4, <1>5, <2>1, <2>2, <2>3 DEF Enqueue
  <1>6. ASSUME NEW s \in Submitters, at[s] = "full",
               at' = [at EXCEPT ![s] = "received"],
               queue # <<>>, queue' = Tail(queue), Discard(Head(queue)),
               UNCHANGED <<hand, started>>
        PROVE  Counted
    <2>1. /\ Started' = Started /\ InHand' = InHand
          /\ Queued' = Queued \ {Head(queue)}
      BY <1>6, DropFromTheWhole DEF Started, Queued, InHand
    <2>2. /\ Head(queue) \in Queued /\ Head(queue) \notin Started
          /\ Head(queue) \in Entered
      BY <1>6, DropFromTheWhole, WholeHasEntered
    <2>3. Head(queue) \notin lost /\ Head(queue) \notin InHand
      BY <2>2 DEF DropsAreCounted, HandsAreApart
    <2>4. s \notin Uncounted /\ Uncounted' = Uncounted \cup {s}
      BY <1>6 DEF TypeOK, Uncounted
    <2>5. Alive' \subseteq Alive \ {Head(queue)}
      BY <2>1, <2>2, <2>3
    <2> HIDE DEF Alive
    <2> QED
      BY <1>2, <1>6, <2>3, <2>4, <2>5
  <1>7. ASSUME NEW s \in Submitters, at[s] = "resend", hand[s] \in Tasks,
               PartWith(s, "refused"), Discard(hand[s]),
               UNCHANGED <<queue, started>>
        PROVE  Counted
    <2>1. Started' = Started /\ Queued' = Queued
      BY <1>7 DEF Started, Queued
    <2>2. hand[s] \notin lost /\ hand[s] \notin Entered
      BY <1>7, TaskInHand DEF HandsAreApart
    <2>3. s \notin Uncounted /\ Uncounted' = Uncounted \cup {s}
      BY <1>7 DEF TypeOK, Uncounted, PartWith
    <2>4. Alive' \subseteq Alive \ {hand[s]}
      BY <1>4, <1>7, <2>1, <2>2, WholeHasEntered
    <2> HIDE DEF Alive
    <2> QED
      BY <1>2, <1>7, <2>2, <2>3, <2>4
  <1>8. ASSUME queue # <<>>, queue' = Tail(queue),
               started' = Append(started, Head(queue)),
               UNCHANGED <<dropped, entered, lost, submitVars>>
        PROVE  Counted
    <2>1. /\ InHand' = InHand /\ Queued' = Queued \ {Head(queue)}
          /\ Head(queue) \in Queued
      BY <1>8, DropFromTheWhole DEF Queued, InHand
    <2>2. Started' = Started \cup {Head(queue)}
      BY <1>8, DropFromTheWhole, RangeOfAppend DEF TypeOK, Started
    <2>3. Uncounted' = Uncounted
      BY <1>8 DEF Uncounted
    <2> QED
      BY <1>1, <1>8, <2>1, <2>2, <2>3
  <1>9. ASSUME UNCHANGED <<hand, queueVars, started>>,
               \A s \in Submitters : at'[s] \in {"received", "refused"}
                                       <=> at[s] \in {"received", "refused"}
        PROVE  Counted
    <2>1. Alive' = Alive
      BY <1>9 DEF Started, Queued, InHand
    <2>2. Uncounted' = Uncounted
      BY <1>9 DEF Uncounted
    <2> QED
      BY <1>1, <1>9, <2>1, <2>2
  <1>10. ASSUME NEW s \in Submitters, CountOldest(s) \/ CountOwn(s)
         PROVE  Counted
    <2>1. /\ at[s] \in {"received", "refused"}
          /\ \/ at' = [at EXCEPT ![s] = "resend"]
             \/ at' = [at EXCEPT ![s] = "idle"]
          /\ dropped' = dropped + 1
          /\ UNCHANGED <<queue, entered, lost, hand, started>>
      BY <1>10 DEF CountOldest, CountOwn, CountDrop, workerVars
    <2>2. s \in Uncounted /\ Uncounted' = Uncounted \ {s}
      BY <2>1 DEF TypeOK, Uncounted
    <2>3. /\ IsFiniteSet(Uncounted \ {s})
          /\ Cardinality(Uncounted \ {s}) = Cardinality(Uncounted) - 1
      BY <2>2, FS_RemoveElement
    <2>4. Alive' = Alive
      BY <2>1 DEF Started, Queued, InHand
    <2>5. lost' \cap Alive' = {}
      BY <2>1, <2>4 DEF DropsAreCounted
    <2>6. dropped' + Cardinality(Uncounted') = Cardinality(lost')
      BY <1>0, <2>1, <2>2, <2>3 DEF DropsAreCounted
    <2> QED
      BY <2>1, <2>2, <2>3, <2>5, <2>6 DEF DropsAreCounted
  <1> HIDE DEF Alive, Counted
  <1>11. Counted
    BY <1>3, <1>5, <1>6, <1>7, <1>8, <1>9, <1>10, Effects
  <1> QED
    BY <1>11 DEF Counted

(* Once quit is closed, the look at the top of the loop lets the worker    *)
(* through no more: only one that had looked before takes another task.    *)
LEMMA StopStepKeepsCount ==
  ASSUME TypeOK, StopIsSeen, AtMostOneLateStart, [Next]_vars
  PROVE  StopIsSeen' /\ AtMostOneLateStart'
  <1> USE DEF TypeOK, StopIsSeen, AtMostOneLateStart,
              queueVars, submitVars, workerVars, stopVars
  <1>1. Len(started) \in Nat
    OBVIOUS
  <1>2. ASSUME UNCHANGED <<worker, started, quit, early>>
        PROVE  StopIsSeen' /\ AtMostOneLateStart'
    BY <1>2
  <1>3. ASSUME NEW s \in Submitters,
               \/ \E t \in Tasks : Submit(s, t)
               \/ Send(s) \/ DropOldest(s) \/ CountOldest(s)
               \/ Resend(s) \/ CountOwn(s)
        PROVE  StopIsSeen' /\ AtMostOneLateStart'
    BY <1>2, <1>3
    DEF Submit, Send, DropOldest, Resend, CountOldest, CountOwn, CountDrop
  <1>4. CASE Start
    BY <1>4 DEF Start
  <1>5. CASE Look
    BY <1>5 DEF Look
  <1>6. CASE SelectQuit
    BY <1>6 DEF SelectQuit
  <1>7. CASE Take
    <2>1. /\ Len(started') = Len(started) + 1 /\ worker' = "running"
          /\ worker = "select" /\ UNCHANGED <<quit, early>>
      BY <1>7, RangeOfTail DEF Take
    <2> QED
      BY <1>1, <2>1
  <1>8. CASE TaskReturns
    BY <1>8 DEF TaskReturns
  <1>9. ASSUME NEW k \in Stoppers, CloseQuit(k)
        PROVE  StopIsSeen' /\ AtMostOneLateStart'
    BY <1>1, <1>9 DEF CloseQuit
  <1>10. ASSUME NEW k \in Stoppers, Claim(k) \/ Finished(k) \/ Expired(k)
         PROVE  StopIsSeen' /\ AtMostOneLateStart'
    BY <1>2, <1>10 DEF Claim, Finished, Expired
  <1>11. CASE UNCHANGED vars
    BY <1>2, <1>11 DEF vars
  <1> QED
    BY <1>3, <1>4, <1>5, <1>6, <1>7, <1>8, <1>9, <1>10, <1>11, StepIsOneOf

(* A stop that wins the claim finds no worker and keeps Start from ever    *)
(* launching one; one that loses it answers only when the worker is gone.  *)
LEMMA FinishedStep ==
  ASSUME TypeOK, WorkerIsClaimed, FinishedIsFinal, [Next]_vars
  PROVE  WorkerIsClaimed' /\ FinishedIsFinal'
  <1> USE DEF TypeOK, WorkerIsClaimed, FinishedIsFinal,
              queueVars, submitVars, workerVars, stopVars
  <1>1. ASSUME UNCHANGED <<worker, startOnce, answer>>
        PROVE  WorkerIsClaimed' /\ FinishedIsFinal'
    BY <1>1
  <1>2. ASSUME NEW s \in Submitters,
               \/ \E t \in Tasks : Submit(s, t)
               \/ Send(s) \/ DropOldest(s) \/ CountOldest(s)
               \/ Resend(s) \/ CountOwn(s)
        PROVE  WorkerIsClaimed' /\ FinishedIsFinal'
    BY <1>1, <1>2
    DEF Submit, Send, DropOldest, Resend, CountOldest, CountOwn, CountDrop
  <1>3. CASE Start
    BY <1>3 DEF Start
  <1>4. CASE Look
    BY <1>4 DEF Look
  <1>5. CASE SelectQuit
    BY <1>5 DEF SelectQuit
  <1>6. CASE Take
    BY <1>6 DEF Take
  <1>7. CASE TaskReturns
    BY <1>7 DEF TaskReturns
  <1>8. ASSUME NEW k \in Stoppers, CloseQuit(k)
        PROVE  WorkerIsClaimed' /\ FinishedIsFinal'
    BY <1>1, <1>8 DEF CloseQuit
  <1>9. ASSUME NEW k \in Stoppers, Claim(k)
        PROVE  WorkerIsClaimed' /\ FinishedIsFinal'
    <2>1. /\ startOnce' = TRUE /\ worker' = worker
          /\ answer' = [answer EXCEPT ![k] = IF startOnce THEN "none" ELSE "finished"]
      BY <1>9 DEF Claim, Answer
    <2>2. CASE startOnce
      BY <2>1, <2>2
    <2>3. CASE ~startOnce
      BY <2>1, <2>3
    <2> QED
      BY <2>2, <2>3
  <1>10. ASSUME NEW k \in Stoppers, Finished(k)
         PROVE  WorkerIsClaimed' /\ FinishedIsFinal'
    BY <1>10 DEF Finished, Answer
  <1>11. ASSUME NEW k \in Stoppers, Expired(k)
         PROVE  WorkerIsClaimed' /\ FinishedIsFinal'
    BY <1>11 DEF Expired, Answer
  <1>12. CASE UNCHANGED vars
    BY <1>1, <1>12 DEF vars
  <1> QED
    BY <1>2, <1>3, <1>4, <1>5, <1>6, <1>7, <1>8, <1>9, <1>10, <1>11, <1>12,
       StepIsOneOf

(***************************************************************************)
(* The theorems.                                                           *)
(***************************************************************************)

(* A dispatcher that was just made.                                        *)
LEMMA DispatcherInvInit == Init => DispatcherInv
  <1> SUFFICES ASSUME Init PROVE DispatcherInv
    OBVIOUS
  <1>1. /\ Entered = {} /\ Started = {} /\ Queued = {} /\ InHand = {}
        /\ lost = {} /\ Kept = <<>>
    BY DEF Init, Entered, Started, Queued, InHand, Kept, Range
  <1>2. HandsAreApart
    BY <1>1 DEF Init, HandsAreApart
  <1>3. FirstInFirstOut
    <2>1. IsInjective(entered)
      BY DEF Init, IsInjective
    <2>2. InOrder(Kept, entered) /\ Range(Kept) = {}
      BY <1>1 DEF InOrder, Range
    <2> QED
      BY <1>1, <2>1, <2>2 DEF FirstInFirstOut
  <1>4. IsFiniteSet(lost) /\ IsFiniteSet(Uncounted) /\ DropsAreCounted
    <2>1. Uncounted = {}
      BY DEF Init, Uncounted
    <2> QED
      BY <1>1, <2>1, FS_EmptySet DEF Init, DropsAreCounted
  <1>5. StopIsSeen /\ AtMostOneLateStart /\ WorkerIsClaimed /\ FinishedIsFinal
    BY DEF Init, StopIsSeen, AtMostOneLateStart, WorkerIsClaimed, FinishedIsFinal
  <1> QED
    BY <1>2, <1>3, <1>4, <1>5 DEF DispatcherInv

(* Every step of anybody keeps the inductive invariant.                    *)
LEMMA DispatcherInvStep ==
  TypeOK /\ DispatcherInv /\ [Next]_vars => TypeOK' /\ DispatcherInv'
  BY TypeStep, HandsStep, OrderStep, DropsStep, StopStepKeepsCount, FinishedStep
  DEF DispatcherInv

(* The inductive invariant holds throughout, in a dispatcher of any size   *)
(* with any number of submitters and stoppers.                             *)
THEOREM DispatcherInvariant == Spec => [](TypeOK /\ DispatcherInv)
  BY TypeInit, DispatcherInvInit, DispatcherInvStep, PTL DEF Spec

(* The queue never outgrows the channel, though three submitters may be    *)
(* between two selects when one place is free.                             *)
THEOREM DispatcherTypeOK == Spec => []TypeOK
  BY DispatcherInvariant, PTL

(* What runs, runs in the order it entered; the only tasks missing are     *)
(* those that were dropped.                                                *)
THEOREM DispatcherIsFirstInFirstOut == Spec => []FirstInFirstOut
  <1>1. DispatcherInv => FirstInFirstOut
    BY DEF DispatcherInv
  <1> QED
    BY <1>1, DispatcherInvariant, PTL

(* However many submitters lose the race for the room, Dropped and those   *)
(* of them still to count make up the tasks that will never run.           *)
THEOREM DispatcherCountsDrops == Spec => []DropsAreCounted
  <1>1. DispatcherInv => DropsAreCounted
    BY DEF DispatcherInv
  <1> QED
    BY <1>1, DispatcherInvariant, PTL

(* At most one task starts after the first Stop closed quit.               *)
THEOREM DispatcherStartsOneMore == Spec => []AtMostOneLateStart
  <1>1. DispatcherInv => AtMostOneLateStart
    BY DEF DispatcherInv
  <1> QED
    BY <1>1, DispatcherInvariant, PTL

(* Once any Stop has reported the worker finished there is none, and       *)
(* Start can no longer launch one.                                         *)
THEOREM DispatcherFinishedIsFinal == Spec => []FinishedIsFinal
  <1>1. DispatcherInv => FinishedIsFinal
    BY DEF DispatcherInv
  <1> QED
    BY <1>1, DispatcherInvariant, PTL
=============================================================================
