------------------------------- MODULE Reload -------------------------------
(***************************************************************************)
(* The reload transaction of a Config (reload.go), the construction that   *)
(* runs it first (constructor.go) and the shutdown it races (config.go).   *)
(*                                                                         *)
(* Three kinds of goroutine take part.  The Builder runs the initial load  *)
(* alone, then hands the Config out.  A caller is anybody inside Reload: an *)
(* application goroutine, the watch loop, or a handler on the dispatcher's  *)
(* worker.  A closer is a goroutine inside Close.  They share the Viper     *)
(* engine, the one-slot channel that serialises transactions, the           *)
(* publication gate, and the atomics that readers load without any lock;    *)
(* each lock-free store is therefore a step of its own.                     *)
(*                                                                         *)
(* A configuration is one member of Contents: reading files is choosing     *)
(* one, decoding is copying what the engine holds.                          *)
(***************************************************************************)
EXTENDS Lifecycle, Naturals, FiniteSets

CONSTANTS
  Callers,    \* goroutines that call Reload
  Builder,    \* the goroutine inside New
  Closers,    \* goroutines that call Close, once each
  Contents,   \* what the engine may hold after a read
  Decodable,  \* the contents that decode into T
  Valid,      \* the contents the validator accepts
  None,       \* the nil snapshot
  MaxCalls    \* bound: how many calls of Reload are made

Acceptable == Contents \cap Decodable \cap Valid

ASSUME ReloadAssumption ==
  /\ Builder \notin Callers
  /\ None \notin Contents
  /\ MaxCalls \in Nat

VARIABLES
  pc,          \* where each caller, and the Builder, is
  cpc,         \* where each closer is
  engine,      \* what the Viper instance holds
  cand,        \* the decoded candidate of each goroutine: next
  change,      \* the Change its last commit built
  outcome,     \* how its last transaction ended
  reloadSem,   \* how many tokens the channel holds
  publishMu,   \* TRUE while the publication gate is locked
  current,     \* the published snapshot
  generation,  \* c.generation
  successes,   \* c.successfulReloads
  failures,    \* c.failedReloads
  cancelled,   \* the callers whose context is done
  calls        \* calls of Reload so far, for MaxCalls

counters == <<generation, successes, failures>>
configVars == <<engine, current, counters>>
callVars == <<pc, cand, change, outcome, cancelled, calls>>
lockVars == <<reloadSem, publishMu>>
vars == <<callVars, cpc, configVars, lockVars, lifecycleVars>>

Processes == Callers \cup {Builder}

(***************************************************************************)
(* Where a goroutine can be.                                               *)
(***************************************************************************)
Committing == {"advance", "store", "count"}
Gated == {"check"} \cup Committing
InTransaction ==
  {"recheck", "read", "decode", "validate", "lock", "release"} \cup Gated
CallerAt == {"idle", "entry", "wait", "report", "emit"} \cup InTransaction
BuilderAt ==
  {"read", "decode", "validate", "lock", "report", "ready", "done", "failed"}
    \cup Gated
CloserGated == {"begin", "signal"}
CloserAt ==
  {"idle", "lock", "stop", "drop", "finish", "returned"} \cup CloserGated

Outcomes == {"none", "published", "rejected", "closed", "cancelled"}
Snapshots == Contents \cup {None}
Changes == [previous : Snapshots, current : Snapshots, generation : Nat]

Init ==
  /\ LifecycleInit
  /\ pc = [p \in Processes |-> IF p = Builder THEN "read" ELSE "idle"]
  /\ cpc = [k \in Closers |-> "idle"]
  /\ engine \in Contents
  /\ cand = [p \in Processes |-> None]
  /\ change = [p \in Processes |->
                 [previous |-> None, current |-> None, generation |-> 0]]
  /\ outcome = [p \in Processes |-> "none"]
  /\ reloadSem = 0
  /\ publishMu = FALSE
  /\ current = None
  /\ generation = 0
  /\ successes = 0
  /\ failures = 0
  /\ cancelled = {}
  /\ calls = 0

(***************************************************************************)
(* Steps between program points.                                           *)
(***************************************************************************)
Move(p, from, to) ==
  /\ pc[p] = from
  /\ pc' = [pc EXCEPT ![p] = to]

Return(c, result) ==
  outcome' = [outcome EXCEPT ![c] = result]

\* Mutant: New returns the Config whatever the initial load answered.
AfterTransactionUnchecked(p, result) ==
  IF p # Builder THEN "release" ELSE "ready"

(* Where a goroutine goes when runTransaction returns.                     *)
AfterTransaction(p, result) ==
  IF p # Builder THEN "release"
  ELSE IF result = "published" THEN "ready" ELSE "report"

End(p, from, result) ==
  /\ Move(p, from, AfterTransaction(p, result))
  /\ Return(p, result)

(***************************************************************************)
(* doReload up to its transaction.  A Config can be called once New has    *)
(* returned it.                                                            *)
(***************************************************************************)
Call(c) ==
  /\ pc[Builder] = "done"
  /\ calls < MaxCalls
  /\ Move(c, "idle", "entry")
  /\ Return(c, "none")
  /\ calls' = calls + 1
  /\ cancelled' = cancelled \ {c}
  /\ UNCHANGED <<cand, change, cpc, configVars, lockVars, lifecycleVars>>

(* The caller's context is done while the call is under way.  Only the     *)
(* first half of the call looks at it.                                     *)
Cancel(c) ==
  /\ pc[c] \in {"entry", "wait"}
  /\ c \notin cancelled
  /\ cancelled' = cancelled \cup {c}
  /\ UNCHANGED <<pc, cand, change, outcome, calls, cpc, configVars, lockVars,
                 lifecycleVars>>

EntryOutcome(c) ==
  IF Closed THEN "closed" ELSE IF c \in cancelled THEN "cancelled" ELSE "none"

Entry(c) ==
  /\ Move(c, "entry", IF EntryOutcome(c) = "none" THEN "wait" ELSE "idle")
  /\ Return(c, EntryOutcome(c))
  /\ UNCHANGED <<cand, change, cancelled, calls, cpc, configVars, lockVars,
                 lifecycleVars>>

\* Mutant: the transaction starts without waiting for its token.
AcquireUnserialised(c) ==
  /\ Move(c, "wait", "recheck")
  /\ reloadSem' = 1
  /\ UNCHANGED <<cand, change, outcome, cancelled, calls, cpc, configVars,
                 publishMu, lifecycleVars>>

(* The select.  When several of its cases are ready Go takes any of them.  *)
Acquire(c) ==
  /\ reloadSem = 0
  /\ Move(c, "wait", "recheck")
  /\ reloadSem' = 1
  /\ UNCHANGED <<cand, change, outcome, cancelled, calls, cpc, configVars,
                 publishMu, lifecycleVars>>

\* Mutant: a wait that is abandoned gives back a token it never took.
GiveUpWithToken(c) ==
  /\ c \in cancelled
  /\ Move(c, "wait", "idle")
  /\ Return(c, "cancelled")
  /\ reloadSem' = reloadSem - 1
  /\ UNCHANGED <<cand, change, cancelled, calls, cpc, configVars, publishMu,
                 lifecycleVars>>

GiveUp(c) ==
  /\ c \in cancelled
  /\ Move(c, "wait", "idle")
  /\ Return(c, "cancelled")
  /\ UNCHANGED <<cand, change, cancelled, calls, cpc, configVars, lockVars,
                 lifecycleVars>>

Interrupted(c) ==
  /\ done
  /\ Move(c, "wait", "idle")
  /\ Return(c, "closed")
  /\ UNCHANGED <<cand, change, cancelled, calls, cpc, configVars, lockVars,
                 lifecycleVars>>

Recheck(c) ==
  /\ Move(c, "recheck", IF Closed THEN "idle" ELSE "read")
  /\ Return(c, IF Closed THEN "closed" ELSE "none")
  /\ reloadSem' = IF Closed THEN 0 ELSE reloadSem
  /\ UNCHANGED <<cand, change, cancelled, calls, cpc, configVars, publishMu,
                 lifecycleVars>>

(***************************************************************************)
(* runTransaction.                                                         *)
(***************************************************************************)

(* A read that finds nothing to read leaves the engine as it was: that is  *)
(* the choice of x = engine.  A read that fails may already have replaced  *)
(* what the engine held, having merged the layers before the broken one.   *)
ReadIntoViper(p) ==
  /\ \E x \in Contents : engine' = x
  /\ \/ Move(p, "read", "decode") /\ UNCHANGED outcome
     \/ End(p, "read", "rejected")
  /\ UNCHANGED <<cand, change, cancelled, calls, cpc, current, counters,
                 lockVars, lifecycleVars>>

Unmarshal(p) ==
  /\ IF engine \in Decodable
       THEN /\ Move(p, "decode", "validate")
            /\ cand' = [cand EXCEPT ![p] = engine]
            /\ UNCHANGED outcome
       ELSE /\ End(p, "decode", "rejected")
            /\ UNCHANGED cand
  /\ UNCHANGED <<change, cancelled, calls, cpc, configVars, lockVars,
                 lifecycleVars>>

\* Mutant: the recovered panic is swallowed and the candidate goes on.
ValidateSwallowed(p) ==
  /\ Move(p, "validate", "lock")
  /\ UNCHANGED <<cand, change, outcome, cancelled, calls, cpc, configVars,
                 lockVars, lifecycleVars>>

(* A validator that panics has refused the candidate.                      *)
Validate(p) ==
  /\ IF cand[p] \in Valid
       THEN Move(p, "validate", "lock") /\ UNCHANGED outcome
       ELSE End(p, "validate", "rejected")
  /\ UNCHANGED <<cand, change, cancelled, calls, cpc, configVars, lockVars,
                 lifecycleVars>>

(***************************************************************************)
(* commit.  The gate keeps Close out; it does not hide the stores from the *)
(* readers of Current and Status, who take no lock.                        *)
(***************************************************************************)
Lock(p) ==
  /\ ~publishMu
  /\ Move(p, "lock", "check")
  /\ publishMu' = TRUE
  /\ UNCHANGED <<cand, change, outcome, cancelled, calls, cpc, configVars,
                 reloadSem, lifecycleVars>>

\* Mutant: commit does not look at the lifecycle inside the gate.
CheckNothing(p) ==
  /\ Move(p, "check", "advance")
  /\ UNCHANGED <<cand, change, outcome, cancelled, calls, cpc, configVars,
                 lockVars, lifecycleVars>>

Check(p) ==
  /\ IF Closed
       THEN End(p, "check", "closed") /\ publishMu' = FALSE
       ELSE Move(p, "check", "advance") /\ UNCHANGED <<outcome, publishMu>>
  /\ UNCHANGED <<cand, change, cancelled, calls, cpc, configVars, reloadSem,
                 lifecycleVars>>

\* Mutant: the previous snapshot is loaded once the new one is stored.
AdvanceLoadingLate(p) ==
  /\ Move(p, "advance", "store")
  /\ generation' = generation + 1
  /\ change' = [change EXCEPT ![p] =
                  [previous |-> cand[p], current |-> cand[p],
                   generation |-> generation + 1]]
  /\ UNCHANGED <<cand, outcome, cancelled, calls, cpc, engine, current,
                 successes, failures, lockVars, lifecycleVars>>

Advance(p) ==
  /\ Move(p, "advance", "store")
  /\ generation' = generation + 1
  /\ change' = [change EXCEPT ![p] =
                  [previous |-> current, current |-> cand[p],
                   generation |-> generation + 1]]
  /\ UNCHANGED <<cand, outcome, cancelled, calls, cpc, engine, current,
                 successes, failures, lockVars, lifecycleVars>>

Store(p) ==
  /\ Move(p, "store", "count")
  /\ current' = cand[p]
  /\ UNCHANGED <<cand, change, outcome, cancelled, calls, cpc, engine,
                 counters, lockVars, lifecycleVars>>

\* Mutant: the initial load is counted as a reload.
CountInitial(p) ==
  /\ End(p, "count", "published")
  /\ successes' = successes + 1
  /\ publishMu' = FALSE
  /\ UNCHANGED <<cand, change, cancelled, calls, cpc, engine, current,
                 generation, failures, reloadSem, lifecycleVars>>

(* The initial load is not a reload and is not counted as one.             *)
Count(p) ==
  /\ End(p, "count", "published")
  /\ successes' = IF p = Builder THEN successes ELSE successes + 1
  /\ publishMu' = FALSE
  /\ UNCHANGED <<cand, change, cancelled, calls, cpc, engine, current,
                 generation, failures, reloadSem, lifecycleVars>>

(***************************************************************************)
(* doReload after its transaction, with the semaphore already given back.  *)
(***************************************************************************)
AfterRelease(result) ==
  CASE result = "published" -> "emit"
    [] result = "rejected" -> "report"
    [] OTHER -> "idle"

\* Mutant: a rejected reload returns without giving its token back.
ReleaseUnlessRejected(c) ==
  /\ Move(c, "release", AfterRelease(outcome[c]))
  /\ reloadSem' = IF outcome[c] = "rejected" THEN reloadSem ELSE 0
  /\ UNCHANGED <<cand, change, outcome, cancelled, calls, cpc, configVars,
                 publishMu, lifecycleVars>>

Release(c) ==
  /\ Move(c, "release", AfterRelease(outcome[c]))
  /\ reloadSem' = 0
  /\ UNCHANGED <<cand, change, outcome, cancelled, calls, cpc, configVars,
                 publishMu, lifecycleVars>>

(* reportFailure counts; so does initialLoad, which then gives up.         *)
ReportFailure(p) ==
  /\ Move(p, "report", IF p = Builder THEN "failed" ELSE "emit")
  /\ failures' = failures + 1
  /\ UNCHANGED <<cand, change, outcome, cancelled, calls, cpc, engine,
                 current, generation, successes, lockVars, lifecycleVars>>

(* dispatchChange or emitError: Delivery says what happens in it.          *)
Emit(c) ==
  /\ Move(c, "emit", "idle")
  /\ UNCHANGED <<cand, change, outcome, cancelled, calls, cpc, configVars,
                 lockVars, lifecycleVars>>

(* The end of build: start the dispatcher, become ready, return.           *)
Build ==
  /\ Move(Builder, "ready", "done")
  /\ Ready
  /\ UNCHANGED <<cand, change, outcome, cancelled, calls, cpc, configVars,
                 lockVars>>

(***************************************************************************)
(* Close.                                                                  *)
(***************************************************************************)
MoveCloser(k, from, to) ==
  /\ cpc[k] = from
  /\ cpc' = [cpc EXCEPT ![k] = to]

CallClose(k) ==
  /\ pc[Builder] = "done"
  /\ MoveCloser(k, "idle", "lock")
  /\ UNCHANGED <<callVars, configVars, lockVars, lifecycleVars>>

\* Mutant: closing begins without waiting for the publication gate.
LockToCloseUngated(k) ==
  /\ MoveCloser(k, "lock", "begin")
  /\ publishMu' = TRUE
  /\ UNCHANGED <<callVars, configVars, reloadSem, lifecycleVars>>

LockToClose(k) ==
  /\ ~publishMu
  /\ MoveCloser(k, "lock", "begin")
  /\ publishMu' = TRUE
  /\ UNCHANGED <<callVars, configVars, reloadSem, lifecycleVars>>

\* Mutant: the channel is closed before the state is stored.
StartClosingAfterSignal(k) ==
  /\ ~Closed
  /\ IF done THEN state' = "closing" /\ UNCHANGED <<done, cpc>>
             ELSE done' = TRUE /\ UNCHANGED <<state, cpc>>
  /\ cpc[k] = "begin"
  /\ UNCHANGED <<callVars, configVars, lockVars>>

(* closeOnce.Do, whose first caller closes; any later one is told so.      *)
StartClosing(k) ==
  /\ BeginClose
  /\ MoveCloser(k, "begin", "signal")
  /\ UNCHANGED <<callVars, configVars, lockVars>>

AlreadyClosing(k) ==
  /\ Closed
  /\ MoveCloser(k, "begin", "returned")
  /\ publishMu' = FALSE
  /\ UNCHANGED <<callVars, configVars, reloadSem, lifecycleVars>>

Signal(k) ==
  /\ MoveCloser(k, "signal", "stop")
  /\ SignalDone
  /\ publishMu' = FALSE
  /\ UNCHANGED <<callVars, configVars, reloadSem>>

(* dispatcher.Stop, whose wait is bounded by closeTimeout; then the two    *)
(* registries are closed.  Delivery says what happens in them.             *)
StopDispatcher(k) ==
  /\ MoveCloser(k, "stop", "drop")
  /\ UNCHANGED <<callVars, configVars, lockVars, lifecycleVars>>

DropHandlers(k) ==
  /\ MoveCloser(k, "drop", "finish")
  /\ UNCHANGED <<callVars, configVars, lockVars, lifecycleVars>>

Finish(k) ==
  /\ FinishClose
  /\ MoveCloser(k, "finish", "returned")
  /\ UNCHANGED <<callVars, configVars, lockVars>>

(***************************************************************************)
(* The specification.                                                      *)
(***************************************************************************)
Transaction(p) ==
  \/ ReadIntoViper(p)
  \/ Unmarshal(p)
  \/ Validate(p)
  \/ Lock(p)
  \/ Check(p)
  \/ Advance(p)
  \/ Store(p)
  \/ Count(p)
  \/ ReportFailure(p)

(* A call of doReload up to the semaphore's release and the count.         *)
Attempt(c) ==
  \/ Entry(c)
  \/ Acquire(c)
  \/ GiveUp(c)
  \/ Interrupted(c)
  \/ Recheck(c)
  \/ Transaction(c)
  \/ Release(c)

DoReload(c) == Attempt(c) \/ Emit(c)

New ==
  \/ Transaction(Builder)
  \/ Build

(* beginClose.                                                             *)
Freeze(k) ==
  \/ LockToClose(k)
  \/ StartClosing(k)
  \/ AlreadyClosing(k)
  \/ Signal(k)

Close(k) ==
  \/ Freeze(k)
  \/ StopDispatcher(k)
  \/ DropHandlers(k)
  \/ Finish(k)

(* Every call made so far has returned.  Naming this state keeps the       *)
(* deadlock check on: any other state without a successor is a deadlock.   *)
Quiescent ==
  /\ pc[Builder] \in {"done", "failed"}
  /\ \A c \in Callers : pc[c] = "idle"
  /\ \A k \in Closers : cpc[k] \in {"idle", "returned"}

Rest == Quiescent /\ UNCHANGED vars

Next ==
  \/ New
  \/ \E c \in Callers : Call(c) \/ Cancel(c) \/ DoReload(c)
  \/ \E k \in Closers : CallClose(k) \/ Close(k)
  \/ Rest

Spec == Init /\ [][Next]_vars

(***************************************************************************)
(* Properties.                                                             *)
(***************************************************************************)

(* Every variable holds what its Go counterpart can hold.                  *)
TypeOK ==
  /\ LifecycleTypeOK
  /\ pc \in [Processes -> CallerAt \cup BuilderAt]
  /\ cpc \in [Closers -> CloserAt]
  /\ engine \in Contents
  /\ cand \in [Processes -> Snapshots]
  /\ change \in [Processes -> Changes]
  /\ outcome \in [Processes -> Outcomes]
  /\ reloadSem \in {0, 1}
  /\ publishMu \in BOOLEAN
  /\ current \in Snapshots
  /\ generation \in Nat
  /\ successes \in Nat
  /\ failures \in Nat
  /\ cancelled \subseteq Callers
  /\ calls \in Nat

(* A goroutine between decoding and publishing still has in front of it the *)
(* engine it read: no other transaction has touched the Viper instance,     *)
(* which is not safe for concurrent use, in between.                        *)
EngineBelongsToTransaction ==
  \A p \in Processes :
    pc[p] \in {"validate", "lock"} \cup Gated => cand[p] = engine

(* Whenever nobody is inside the publication gate of a constructed Config,  *)
(* the generation is one more than the successful reloads: commit counts a  *)
(* publication exactly once, whatever else is failing or closing.           *)
CounterAgreement ==
  (state # "initializing" /\ ~publishMu) => generation = successes + 1

(* The changes that callers still hold fit together whatever order they    *)
(* will be delivered in: no two carry one generation, the successor of a    *)
(* change names that change's snapshot as its previous one, and the newest  *)
(* is what Current returns.                                                 *)
ChangesChain ==
  \A p, q \in Processes :
    LET a == change[p]
        b == change[q]
    IN  /\ (p # q /\ a.generation > 0) => a.generation # b.generation
        /\ (a.generation > 0 /\ b.generation = a.generation + 1)
             => b.previous = a.current
        /\ (a.generation > 0 /\ a.generation = generation /\ ~publishMu)
             => current = a.current

(* Current never hands out a snapshot that was not accepted, and never nil  *)
(* once the Config exists.                                                  *)
OnlyAcceptedIsPublished ==
  /\ current \in Acceptable \cup {None}
  /\ state # "initializing" => current # None

(* Once closing has begun nothing a reader can load ever changes again.     *)
FrozenByClose ==
  [][Closed => Closed' /\ UNCHANGED <<current, generation, successes>>]_vars

(* A generation is announced by commit before its snapshot is stored, so   *)
(* the abstract count lags by one in between.                              *)
Published ==
  IF \E p \in Processes : pc[p] = "store" THEN generation - 1 ELSE generation

Register == INSTANCE Publication
  WITH generation <- Published, open <- ~Closed

(* The publications a reader of Current sees, and the closing that ends    *)
(* them, are those of the abstract register.                               *)
PublishesLikeRegister == Register!Spec

(***************************************************************************)
(* The inductive invariant the proofs use.                                 *)
(***************************************************************************)

(* Until New returns, the Builder is alone.                                *)
Construction ==
  /\ pc[Builder] \in BuilderAt
  /\ \A c \in Callers : pc[c] \in CallerAt
  /\ pc[Builder] # "done" =>
       /\ state = "initializing"
       /\ reloadSem = 0
       /\ \A c \in Callers : pc[c] = "idle"
       /\ \A k \in Closers : cpc[k] = "idle"
  /\ pc[Builder] = "done" => state # "initializing"

(* The one token of the semaphore is in the hands of the one caller whose  *)
(* transaction is under way.                                               *)
Serialised ==
  /\ \A c \in Callers : pc[c] \in InTransaction => reloadSem = 1
  /\ \A c, d \in Callers :
       (pc[c] \in InTransaction /\ pc[d] \in InTransaction) => c = d

(* The publication gate is held by one committer or by one closer, and     *)
(* nobody commits to a Config that is closing.                             *)
OneInGate ==
  /\ \A p \in Processes : pc[p] \in Gated => publishMu
  /\ \A k \in Closers : cpc[k] \in CloserGated => publishMu
  /\ \A p, q \in Processes : (pc[p] \in Gated /\ pc[q] \in Gated) => p = q
  /\ \A k, l \in Closers :
       (cpc[k] \in CloserGated /\ cpc[l] \in CloserGated) => k = l
  /\ \A p \in Processes, k \in Closers :
       ~(pc[p] \in Gated /\ cpc[k] \in CloserGated)

CommitsOnlyWhileOpen ==
  /\ \A p \in Processes : pc[p] \in Committing => ~Closed
  /\ \A k \in Closers :
       cpc[k] \in {"signal", "stop", "drop", "finish"} => Closed

(* A candidate has passed every stage before the one it is at.             *)
CandidatesPassed ==
  /\ \A p \in Processes :
       /\ pc[p] = "validate" => cand[p] \in Contents \cap Decodable
       /\ pc[p] \in {"lock"} \cup Gated => cand[p] \in Acceptable
  /\ current \in Acceptable \cup {None}

Uncounted ==
  IF \E c \in Callers : pc[c] \in {"store", "count"} THEN 1 ELSE 0

(* What has been published and what has been counted differ by the initial *)
(* load, and by the commit under way.                                      *)
Counted ==
  /\ pc[Builder] \in {"read", "decode", "validate", "lock", "check", "advance",
                      "report", "failed"}
       => generation = 0 /\ successes = 0
  /\ pc[Builder] \in {"store", "count", "ready"}
       => generation = 1 /\ successes = 0
  /\ pc[Builder] = "done" => generation = successes + 1 + Uncounted
  /\ pc[Builder] \in {"count", "ready", "done"} => current # None

(* A change agrees with the counters while its commit is under way, and    *)
(* with its neighbours for ever after.                                     *)
ChangesAgree ==
  /\ \A p \in Processes :
       /\ change[p].generation <= generation
       /\ pc[p] \in {"store", "count"} =>
            /\ change[p].generation = generation
            /\ change[p].current = cand[p]
       /\ pc[p] = "store" => change[p].previous = current
       /\ pc[p] = "count" => current = cand[p]
       /\ (change[p].generation = generation /\ generation > 0
             /\ \A q \in Processes : pc[q] # "store")
            => current = change[p].current
  /\ \A p, q \in Processes :
       /\ (p # q /\ change[p].generation > 0)
            => change[p].generation # change[q].generation
       /\ (change[p].generation > 0
             /\ change[q].generation = change[p].generation + 1)
            => change[q].previous = change[p].current

(* What every reachable state satisfies and every step preserves: the      *)
(* conjunction the safety properties above follow from.                    *)
IInv ==
  /\ TypeOK
  /\ Construction
  /\ Serialised
  /\ OneInGate
  /\ CommitsOnlyWhileOpen
  /\ CandidatesPassed
  /\ EngineBelongsToTransaction
  /\ Counted
  /\ ChangesAgree
=============================================================================
