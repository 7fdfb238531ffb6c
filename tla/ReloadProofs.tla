---------------------------- MODULE ReloadProofs ----------------------------
(***************************************************************************)
(* Theorems about Reload for every set of callers and closers, every set   *)
(* of configurations and any number of calls.                              *)
(***************************************************************************)
EXTENDS Reload, TLAPS

(***************************************************************************)
(* Type correctness.                                                       *)
(***************************************************************************)

(* What each action changes, as one list: any step of Next is one of the   *)
(* transaction's, taken by a caller or by the Builder, or one of these.    *)
LEMMA StepIsOneOf ==
  ASSUME [Next]_vars
  PROVE  \/ \E p \in Processes : Transaction(p)
         \/ Build
         \/ \E c \in Callers :
              \/ Call(c) \/ Cancel(c) \/ Entry(c) \/ Acquire(c) \/ GiveUp(c)
              \/ Interrupted(c) \/ Recheck(c) \/ Release(c) \/ Emit(c)
         \/ \E k \in Closers : CallClose(k) \/ Close(k)
         \/ UNCHANGED vars
  BY DEF Next, New, DoReload, Attempt, Processes, Rest

(* Every variable starts with a value of its type.                         *)
LEMMA TypeInit == Init => TypeOK
  <1> SUFFICES ASSUME Init PROVE TypeOK
    OBVIOUS
  <1>1. pc \in [Processes -> CallerAt \cup BuilderAt]
    BY DEF Init, CallerAt, BuilderAt
  <1>2. /\ cpc \in [Closers -> CloserAt]
        /\ cand \in [Processes -> Snapshots]
        /\ change \in [Processes -> Changes]
        /\ outcome \in [Processes -> Outcomes]
    BY DEF Init, CloserAt, Snapshots, Changes, Outcomes
  <1> QED
    BY <1>1, <1>2
    DEF Init, TypeOK, LifecycleInit, LifecycleTypeOK, States, Snapshots

(* Every action gives the variables it changes values of their types.      *)
LEMMA TypeStep == TypeOK /\ [Next]_vars => TypeOK'
  <1> SUFFICES ASSUME TypeOK, [Next]_vars PROVE TypeOK'
    OBVIOUS
  <1> USE DEF TypeOK, LifecycleTypeOK, States, Move, Return, End,
              AfterTransaction, CallerAt, BuilderAt, InTransaction, Gated,
              Committing, Outcomes, Snapshots, configVars, counters, callVars,
              lockVars, lifecycleVars, Processes
  <1>1. ASSUME NEW p \in Processes, Transaction(p) PROVE TypeOK'
    <2>1. CASE ReadIntoViper(p)
      BY <2>1 DEF ReadIntoViper
    <2>2. CASE Unmarshal(p)
      BY <2>2 DEF Unmarshal
    <2>3. CASE Validate(p)
      BY <2>3 DEF Validate
    <2>4. CASE Lock(p)
      BY <2>4 DEF Lock
    <2>5. CASE Check(p)
      BY <2>5 DEF Check
    <2>6. CASE Advance(p)
      BY <2>6 DEF Advance, Changes
    <2>7. CASE Store(p)
      BY <2>7 DEF Store
    <2>8. CASE Count(p)
      <3>1. successes' \in Nat
        BY <2>8 DEF Count
      <3> QED
        BY <2>8, <3>1 DEF Count
    <2>9. CASE ReportFailure(p)
      BY <2>9 DEF ReportFailure
    <2> QED
      BY <1>1, <2>1, <2>2, <2>3, <2>4, <2>5, <2>6, <2>7, <2>8, <2>9
      DEF Transaction
  <1>2. CASE Build
    BY <1>2 DEF Build, Ready
  <1>3. ASSUME NEW c \in Callers,
               \/ Call(c) \/ Cancel(c) \/ Entry(c) \/ Acquire(c) \/ GiveUp(c)
               \/ Interrupted(c) \/ Recheck(c) \/ Release(c) \/ Emit(c)
        PROVE  TypeOK'
    <2>1. CASE Call(c)
      BY <2>1 DEF Call
    <2>2. CASE Cancel(c)
      BY <2>2 DEF Cancel
    <2>3. CASE Entry(c)
      BY <2>3 DEF Entry, EntryOutcome
    <2>4. CASE Acquire(c)
      BY <2>4 DEF Acquire
    <2>5. CASE GiveUp(c)
      BY <2>5 DEF GiveUp
    <2>6. CASE Interrupted(c)
      BY <2>6 DEF Interrupted
    <2>7. CASE Recheck(c)
      BY <2>7 DEF Recheck
    <2>8. CASE Release(c)
      BY <2>8 DEF Release, AfterRelease
    <2>9. CASE Emit(c)
      BY <2>9 DEF Emit
    <2> QED
      BY <1>3, <2>1, <2>2, <2>3, <2>4, <2>5, <2>6, <2>7, <2>8, <2>9
  <1>4. ASSUME NEW k \in Closers, CallClose(k) \/ Close(k) PROVE TypeOK'
    BY <1>4
    DEF CallClose, Close, Freeze, LockToClose, StartClosing, AlreadyClosing, Signal,
        StopDispatcher, DropHandlers, Finish, MoveCloser, BeginClose,
        SignalDone, FinishClose, CloserAt, CloserGated
  <1>5. CASE UNCHANGED vars
    BY <1>5 DEF vars
  <1> QED
    BY <1>1, <1>2, <1>3, <1>4, <1>5, StepIsOneOf

(* Every variable keeps its type: the counters never go below zero, and    *)
(* the semaphore never holds more than its one token.                      *)
THEOREM ReloadTypeOK == Spec => []TypeOK
  BY TypeInit, TypeStep, PTL DEF Spec

(***************************************************************************)
(* Preserving the inductive invariant: one lemma for each of its parts,    *)
(* resting on the parts it needs.                                          *)
(***************************************************************************)

(* Only Build lets anybody else in, and only Build leaves initializing.    *)
LEMMA ConstructionStep ==
  ASSUME TypeOK, Construction, [Next]_vars
  PROVE  Construction'
  <1> USE ReloadAssumption
      DEF Construction, CallerAt, BuilderAt, Closed, TypeOK,
          LifecycleTypeOK, Processes, Move, Return, End, AfterTransaction,
          MoveCloser, InTransaction, Gated, Committing, CloserGated,
          configVars, counters, callVars, lockVars, lifecycleVars
  <1>1. ASSUME NEW p \in Processes, Transaction(p) PROVE Construction'
    <2>1. CASE ReadIntoViper(p)
      BY <2>1 DEF ReadIntoViper
    <2>2. CASE Unmarshal(p)
      BY <2>2 DEF Unmarshal
    <2>3. CASE Validate(p)
      BY <2>3 DEF Validate
    <2>4. CASE Lock(p)
      BY <2>4 DEF Lock
    <2>5. CASE Check(p)
      BY <2>5 DEF Check
    <2>6. CASE Advance(p)
      BY <2>6 DEF Advance
    <2>7. CASE Store(p)
      BY <2>7 DEF Store
    <2>8. CASE Count(p)
      BY <2>8 DEF Count
    <2>9. CASE ReportFailure(p)
      BY <2>9 DEF ReportFailure
    <2> QED
      BY <1>1, <2>1, <2>2, <2>3, <2>4, <2>5, <2>6, <2>7, <2>8, <2>9
      DEF Transaction
  <1>2. CASE Build
    BY <1>2 DEF Build, Ready
  <1>3. ASSUME NEW c \in Callers,
               \/ Call(c) \/ Cancel(c) \/ Entry(c) \/ Acquire(c) \/ GiveUp(c)
               \/ Interrupted(c) \/ Recheck(c) \/ Release(c) \/ Emit(c)
        PROVE  Construction'
    <2>1. CASE Call(c)
      BY <2>1 DEF Call
    <2>2. CASE Cancel(c)
      BY <2>2 DEF Cancel
    <2>3. CASE Entry(c)
      BY <2>3 DEF Entry, EntryOutcome
    <2>4. CASE Acquire(c)
      BY <2>4 DEF Acquire
    <2>5. CASE GiveUp(c)
      BY <2>5 DEF GiveUp
    <2>6. CASE Interrupted(c)
      BY <2>6 DEF Interrupted
    <2>7. CASE Recheck(c)
      BY <2>7 DEF Recheck
    <2>8. CASE Release(c)
      BY <2>8 DEF Release, AfterRelease
    <2>9. CASE Emit(c)
      BY <2>9 DEF Emit
    <2> QED
      BY <1>3, <2>1, <2>2, <2>3, <2>4, <2>5, <2>6, <2>7, <2>8, <2>9
  <1>4. ASSUME NEW k \in Closers, CallClose(k) \/ Close(k)
        PROVE  Construction'
    BY <1>4
    DEF Close, Freeze, CallClose, LockToClose, StartClosing,
        AlreadyClosing, Signal, StopDispatcher, DropHandlers, Finish,
        BeginClose, SignalDone, FinishClose
  <1>5. CASE UNCHANGED vars
    BY <1>5 DEF vars
  <1> QED
    BY <1>1, <1>2, <1>3, <1>4, <1>5, StepIsOneOf

(* A caller enters its transaction with the token and leaves it without:   *)
(* Acquire finds the channel empty, so nobody was inside.                  *)
LEMMA SerialisedStep ==
  ASSUME TypeOK, Construction, Serialised, [Next]_vars
  PROVE  Serialised'
  <1> USE ReloadAssumption
      DEF Construction, Serialised, CallerAt, BuilderAt, TypeOK,
          LifecycleTypeOK, Processes, Move, Return, End, AfterTransaction,
          MoveCloser, InTransaction, Gated, Committing, CloserGated,
          configVars, counters, callVars, lockVars, lifecycleVars
  <1>1. ASSUME NEW p \in Processes, Transaction(p) PROVE Serialised'
    <2>1. CASE ReadIntoViper(p)
      BY <2>1 DEF ReadIntoViper
    <2>2. CASE Unmarshal(p)
      BY <2>2 DEF Unmarshal
    <2>3. CASE Validate(p)
      BY <2>3 DEF Validate
    <2>4. CASE Lock(p)
      BY <2>4 DEF Lock
    <2>5. CASE Check(p)
      BY <2>5 DEF Check
    <2>6. CASE Advance(p)
      BY <2>6 DEF Advance
    <2>7. CASE Store(p)
      BY <2>7 DEF Store
    <2>8. CASE Count(p)
      BY <2>8 DEF Count
    <2>9. CASE ReportFailure(p)
      BY <2>9 DEF ReportFailure
    <2> QED
      BY <1>1, <2>1, <2>2, <2>3, <2>4, <2>5, <2>6, <2>7, <2>8, <2>9
      DEF Transaction
  <1>2. CASE Build
    BY <1>2 DEF Build, Ready
  <1>3. ASSUME NEW c \in Callers,
               \/ Call(c) \/ Cancel(c) \/ Entry(c) \/ Acquire(c) \/ GiveUp(c)
               \/ Interrupted(c) \/ Recheck(c) \/ Release(c) \/ Emit(c)
        PROVE  Serialised'
    <2>1. CASE Call(c)
      BY <2>1 DEF Call
    <2>2. CASE Cancel(c)
      BY <2>2 DEF Cancel
    <2>3. CASE Entry(c)
      BY <2>3 DEF Entry, EntryOutcome
    <2>4. CASE Acquire(c)
      BY <2>4 DEF Acquire
    <2>5. CASE GiveUp(c)
      BY <2>5 DEF GiveUp
    <2>6. CASE Interrupted(c)
      BY <2>6 DEF Interrupted
    <2>7. CASE Recheck(c)
      BY <2>7 DEF Recheck
    <2>8. CASE Release(c)
      BY <2>8 DEF Release, AfterRelease
    <2>9. CASE Emit(c)
      BY <2>9 DEF Emit
    <2> QED
      BY <1>3, <2>1, <2>2, <2>3, <2>4, <2>5, <2>6, <2>7, <2>8, <2>9
  <1>4. ASSUME NEW k \in Closers, CallClose(k) \/ Close(k)
        PROVE  Serialised'
    BY <1>4
    DEF Close, Freeze, CallClose, LockToClose, StartClosing,
        AlreadyClosing, Signal, StopDispatcher, DropHandlers, Finish,
        BeginClose, SignalDone, FinishClose
  <1>5. CASE UNCHANGED vars
    BY <1>5 DEF vars
  <1> QED
    BY <1>1, <1>2, <1>3, <1>4, <1>5, StepIsOneOf

(* The gate is taken only when it is free, and given up by its holder.     *)
LEMMA OneInGateStep ==
  ASSUME TypeOK, Construction, OneInGate, [Next]_vars
  PROVE  OneInGate'
  <1> USE ReloadAssumption
      DEF Construction, OneInGate, TypeOK, LifecycleTypeOK, Processes,
          Move, Return, End, AfterTransaction, MoveCloser, InTransaction,
          Gated, Committing, CloserGated, configVars, counters, callVars,
          lockVars, lifecycleVars
  <1>1. ASSUME NEW p \in Processes, Transaction(p) PROVE OneInGate'
    <2>1. CASE ReadIntoViper(p)
      BY <2>1 DEF ReadIntoViper
    <2>2. CASE Unmarshal(p)
      BY <2>2 DEF Unmarshal
    <2>3. CASE Validate(p)
      BY <2>3 DEF Validate
    <2>4. CASE Lock(p)
      BY <2>4 DEF Lock
    <2>5. CASE Check(p)
      BY <2>5 DEF Check
    <2>6. CASE Advance(p)
      BY <2>6 DEF Advance
    <2>7. CASE Store(p)
      BY <2>7 DEF Store
    <2>8. CASE Count(p)
      BY <2>8 DEF Count
    <2>9. CASE ReportFailure(p)
      BY <2>9 DEF ReportFailure
    <2> QED
      BY <1>1, <2>1, <2>2, <2>3, <2>4, <2>5, <2>6, <2>7, <2>8, <2>9
      DEF Transaction
  <1>2. CASE Build
    BY <1>2 DEF Build, Ready
  <1>3. ASSUME NEW c \in Callers,
               \/ Call(c) \/ Cancel(c) \/ Entry(c) \/ Acquire(c) \/ GiveUp(c)
               \/ Interrupted(c) \/ Recheck(c) \/ Release(c) \/ Emit(c)
        PROVE  OneInGate'
    BY <1>3
    DEF Call, Cancel, Entry, Acquire, GiveUp, Interrupted, Recheck,
        Release, Emit, EntryOutcome, AfterRelease
  <1>4. ASSUME NEW k \in Closers, CallClose(k) \/ Close(k)
        PROVE  OneInGate'
    <2>1. CASE CallClose(k)
      BY <2>1 DEF CallClose
    <2>2. CASE LockToClose(k)
      BY <2>2 DEF LockToClose
    <2>3. CASE StartClosing(k)
      BY <2>3 DEF StartClosing, BeginClose
    <2>4. CASE AlreadyClosing(k)
      BY <2>4 DEF AlreadyClosing
    <2>5. CASE Signal(k)
      BY <2>5 DEF Signal, SignalDone
    <2>6. CASE StopDispatcher(k)
      BY <2>6 DEF StopDispatcher
    <2>7. CASE DropHandlers(k)
      BY <2>7 DEF DropHandlers
    <2>8. CASE Finish(k)
      BY <2>8 DEF Finish, FinishClose
    <2> QED
      BY <1>4, <2>1, <2>2, <2>3, <2>4, <2>5, <2>6, <2>7, <2>8
      DEF Close, Freeze
  <1>5. CASE UNCHANGED vars
    BY <1>5 DEF vars
  <1> QED
    BY <1>1, <1>2, <1>3, <1>4, <1>5, StepIsOneOf

(* Check passes only while open, and closing begins only inside the gate.  *)
LEMMA CommitsStep ==
  ASSUME TypeOK, Construction, OneInGate, CommitsOnlyWhileOpen, [Next]_vars
  PROVE  CommitsOnlyWhileOpen'
  <1> USE ReloadAssumption
      DEF Construction, OneInGate, CommitsOnlyWhileOpen, Closed, TypeOK,
          LifecycleTypeOK, Processes, Move, Return, End, AfterTransaction,
          MoveCloser, InTransaction, Gated, Committing, CloserGated,
          configVars, counters, callVars, lockVars, lifecycleVars
  <1>1. ASSUME NEW p \in Processes, Transaction(p) PROVE CommitsOnlyWhileOpen'
    <2>1. CASE ReadIntoViper(p)
      BY <2>1 DEF ReadIntoViper
    <2>2. CASE Unmarshal(p)
      BY <2>2 DEF Unmarshal
    <2>3. CASE Validate(p)
      BY <2>3 DEF Validate
    <2>4. CASE Lock(p)
      BY <2>4 DEF Lock
    <2>5. CASE Check(p)
      BY <2>5 DEF Check
    <2>6. CASE Advance(p)
      BY <2>6 DEF Advance
    <2>7. CASE Store(p)
      BY <2>7 DEF Store
    <2>8. CASE Count(p)
      BY <2>8 DEF Count
    <2>9. CASE ReportFailure(p)
      BY <2>9 DEF ReportFailure
    <2> QED
      BY <1>1, <2>1, <2>2, <2>3, <2>4, <2>5, <2>6, <2>7, <2>8, <2>9
      DEF Transaction
  <1>2. CASE Build
    BY <1>2 DEF Build, Ready
  <1>3. ASSUME NEW c \in Callers,
               \/ Call(c) \/ Cancel(c) \/ Entry(c) \/ Acquire(c) \/ GiveUp(c)
               \/ Interrupted(c) \/ Recheck(c) \/ Release(c) \/ Emit(c)
        PROVE  CommitsOnlyWhileOpen'
    BY <1>3
    DEF Call, Cancel, Entry, Acquire, GiveUp, Interrupted, Recheck,
        Release, Emit, EntryOutcome, AfterRelease
  <1>4. ASSUME NEW k \in Closers, CallClose(k) \/ Close(k)
        PROVE  CommitsOnlyWhileOpen'
    <2>1. CASE CallClose(k)
      BY <2>1 DEF CallClose
    <2>2. CASE LockToClose(k)
      BY <2>2 DEF LockToClose
    <2>3. CASE StartClosing(k)
      BY <2>3 DEF StartClosing, BeginClose
    <2>4. CASE AlreadyClosing(k)
      BY <2>4 DEF AlreadyClosing
    <2>5. CASE Signal(k)
      BY <2>5 DEF Signal, SignalDone
    <2>6. CASE StopDispatcher(k)
      BY <2>6 DEF StopDispatcher
    <2>7. CASE DropHandlers(k)
      BY <2>7 DEF DropHandlers
    <2>8. CASE Finish(k)
      BY <2>8 DEF Finish, FinishClose
    <2> QED
      BY <1>4, <2>1, <2>2, <2>3, <2>4, <2>5, <2>6, <2>7, <2>8
      DEF Close, Freeze
  <1>5. CASE UNCHANGED vars
    BY <1>5 DEF vars
  <1> QED
    BY <1>1, <1>2, <1>3, <1>4, <1>5, StepIsOneOf

(* Nothing replaces a candidate after it was decoded.                      *)
LEMMA CandidatesStep ==
  ASSUME TypeOK, Construction, CandidatesPassed, [Next]_vars
  PROVE  CandidatesPassed'
  <1> USE ReloadAssumption
      DEF Construction, CandidatesPassed, Acceptable, Snapshots, TypeOK,
          LifecycleTypeOK, Processes, Move, Return, End, AfterTransaction,
          MoveCloser, InTransaction, Gated, Committing, CloserGated,
          configVars, counters, callVars, lockVars, lifecycleVars
  <1>1. ASSUME NEW p \in Processes, Transaction(p) PROVE CandidatesPassed'
    <2>1. CASE ReadIntoViper(p)
      BY <2>1 DEF ReadIntoViper
    <2>2. CASE Unmarshal(p)
      BY <2>2 DEF Unmarshal
    <2>3. CASE Validate(p)
      BY <2>3 DEF Validate
    <2>4. CASE Lock(p)
      BY <2>4 DEF Lock
    <2>5. CASE Check(p)
      BY <2>5 DEF Check
    <2>6. CASE Advance(p)
      BY <2>6 DEF Advance
    <2>7. CASE Store(p)
      BY <2>7 DEF Store
    <2>8. CASE Count(p)
      BY <2>8 DEF Count
    <2>9. CASE ReportFailure(p)
      BY <2>9 DEF ReportFailure
    <2> QED
      BY <1>1, <2>1, <2>2, <2>3, <2>4, <2>5, <2>6, <2>7, <2>8, <2>9
      DEF Transaction
  <1>2. CASE Build
    BY <1>2 DEF Build, Ready
  <1>3. ASSUME NEW c \in Callers,
               \/ Call(c) \/ Cancel(c) \/ Entry(c) \/ Acquire(c) \/ GiveUp(c)
               \/ Interrupted(c) \/ Recheck(c) \/ Release(c) \/ Emit(c)
        PROVE  CandidatesPassed'
    BY <1>3
    DEF Call, Cancel, Entry, Acquire, GiveUp, Interrupted, Recheck,
        Release, Emit, EntryOutcome, AfterRelease
  <1>4. ASSUME NEW k \in Closers, CallClose(k) \/ Close(k)
        PROVE  CandidatesPassed'
    BY <1>4
    DEF Close, Freeze, CallClose, LockToClose, StartClosing,
        AlreadyClosing, Signal, StopDispatcher, DropHandlers, Finish,
        BeginClose, SignalDone, FinishClose
  <1>5. CASE UNCHANGED vars
    BY <1>5 DEF vars
  <1> QED
    BY <1>1, <1>2, <1>3, <1>4, <1>5, StepIsOneOf

(* The only writer of the engine is a transaction, and there is only one.  *)
LEMMA EngineStep ==
  ASSUME TypeOK, Construction, Serialised, EngineBelongsToTransaction,
         [Next]_vars
  PROVE  EngineBelongsToTransaction'
  <1> USE ReloadAssumption
      DEF Construction, Serialised, EngineBelongsToTransaction, TypeOK,
          LifecycleTypeOK, Processes, Move, Return, End, AfterTransaction,
          MoveCloser, InTransaction, Gated, Committing, CloserGated,
          configVars, counters, callVars, lockVars, lifecycleVars
  <1>1. ASSUME NEW p \in Processes, Transaction(p) PROVE EngineBelongsToTransaction'
    <2>1. CASE ReadIntoViper(p)
      BY <2>1 DEF ReadIntoViper
    <2>2. CASE Unmarshal(p)
      BY <2>2 DEF Unmarshal
    <2>3. CASE Validate(p)
      BY <2>3 DEF Validate
    <2>4. CASE Lock(p)
      BY <2>4 DEF Lock
    <2>5. CASE Check(p)
      BY <2>5 DEF Check
    <2>6. CASE Advance(p)
      BY <2>6 DEF Advance
    <2>7. CASE Store(p)
      BY <2>7 DEF Store
    <2>8. CASE Count(p)
      BY <2>8 DEF Count
    <2>9. CASE ReportFailure(p)
      BY <2>9 DEF ReportFailure
    <2> QED
      BY <1>1, <2>1, <2>2, <2>3, <2>4, <2>5, <2>6, <2>7, <2>8, <2>9
      DEF Transaction
  <1>2. CASE Build
    BY <1>2 DEF Build, Ready
  <1>3. ASSUME NEW c \in Callers,
               \/ Call(c) \/ Cancel(c) \/ Entry(c) \/ Acquire(c) \/ GiveUp(c)
               \/ Interrupted(c) \/ Recheck(c) \/ Release(c) \/ Emit(c)
        PROVE  EngineBelongsToTransaction'
    BY <1>3
    DEF Call, Cancel, Entry, Acquire, GiveUp, Interrupted, Recheck,
        Release, Emit, EntryOutcome, AfterRelease
  <1>4. ASSUME NEW k \in Closers, CallClose(k) \/ Close(k)
        PROVE  EngineBelongsToTransaction'
    BY <1>4
    DEF Close, Freeze, CallClose, LockToClose, StartClosing,
        AlreadyClosing, Signal, StopDispatcher, DropHandlers, Finish,
        BeginClose, SignalDone, FinishClose
  <1>5. CASE UNCHANGED vars
    BY <1>5 DEF vars
  <1> QED
    BY <1>1, <1>2, <1>3, <1>4, <1>5, StepIsOneOf

(* Advance opens a gap between the two counters and Count closes it; the   *)
(* gate keeps a second commit from opening another.                        *)
LEMMA CountedStep ==
  ASSUME TypeOK, Construction, OneInGate, Counted, [Next]_vars,
         \A p \in Processes : pc[p] = "store" => cand[p] # None
  PROVE  Counted'
  <1> USE ReloadAssumption
      DEF Construction, OneInGate, Counted, Uncounted, CallerAt, BuilderAt,
          TypeOK, LifecycleTypeOK, Processes, Move, Return, End,
          AfterTransaction, MoveCloser, InTransaction, Gated, Committing,
          CloserGated, configVars, counters, callVars, lockVars, lifecycleVars
  <1>1. ASSUME NEW p \in Processes, Transaction(p) PROVE Counted'
    <2>1. CASE ReadIntoViper(p)
      BY <2>1 DEF ReadIntoViper
    <2>2. CASE Unmarshal(p)
      BY <2>2 DEF Unmarshal
    <2>3. CASE Validate(p)
      BY <2>3 DEF Validate
    <2>4. CASE Lock(p)
      BY <2>4 DEF Lock
    <2>5. CASE Check(p)
      BY <2>5 DEF Check
    <2>6. CASE Advance(p)
      BY <2>6 DEF Advance
    <2>7. CASE Store(p)
      BY <2>7 DEF Store
    <2>8. CASE Count(p)
      BY <2>8 DEF Count
    <2>9. CASE ReportFailure(p)
      BY <2>9 DEF ReportFailure
    <2> QED
      BY <1>1, <2>1, <2>2, <2>3, <2>4, <2>5, <2>6, <2>7, <2>8, <2>9
      DEF Transaction
  <1>2. CASE Build
    BY <1>2 DEF Build, Ready
  <1>3. ASSUME NEW c \in Callers,
               \/ Call(c) \/ Cancel(c) \/ Entry(c) \/ Acquire(c) \/ GiveUp(c)
               \/ Interrupted(c) \/ Recheck(c) \/ Release(c) \/ Emit(c)
        PROVE  Counted'
    BY <1>3
    DEF Call, Cancel, Entry, Acquire, GiveUp, Interrupted, Recheck,
        Release, Emit, EntryOutcome, AfterRelease
  <1>4. ASSUME NEW k \in Closers, CallClose(k) \/ Close(k)
        PROVE  Counted'
    BY <1>4
    DEF Close, Freeze, CallClose, LockToClose, StartClosing,
        AlreadyClosing, Signal, StopDispatcher, DropHandlers, Finish,
        BeginClose, SignalDone, FinishClose
  <1>5. CASE UNCHANGED vars
    BY <1>5 DEF vars
  <1> QED
    BY <1>1, <1>2, <1>3, <1>4, <1>5, StepIsOneOf

(* Advance links the new change to the newest one, which current still is; *)
(* the gate keeps it so until Store.                                       *)
LEMMA ChangesStep ==
  ASSUME TypeOK, Construction, OneInGate, ChangesAgree, [Next]_vars
  PROVE  ChangesAgree'
  <1> USE ReloadAssumption
      DEF Construction, OneInGate, ChangesAgree, Changes, TypeOK,
          LifecycleTypeOK, Processes, Move, Return, End, AfterTransaction,
          MoveCloser, InTransaction, Gated, Committing, CloserGated,
          configVars, counters, callVars, lockVars, lifecycleVars
  <1>1. ASSUME NEW p \in Processes, Transaction(p) PROVE ChangesAgree'
    <2>1. CASE ReadIntoViper(p)
      BY <2>1 DEF ReadIntoViper
    <2>2. CASE Unmarshal(p)
      BY <2>2 DEF Unmarshal
    <2>3. CASE Validate(p)
      BY <2>3 DEF Validate
    <2>4. CASE Lock(p)
      BY <2>4 DEF Lock
    <2>5. CASE Check(p)
      BY <2>5 DEF Check
    <2>6. CASE Advance(p)
      <3>1. /\ change'[p].previous = current
            /\ change'[p].current = cand[p]
            /\ change'[p].generation = generation + 1
            /\ generation' = generation + 1
            /\ UNCHANGED <<current, cand>>
        BY <2>6 DEF Advance
      <3>2. \A q \in Processes : q # p => change'[q] = change[q]
        BY <2>6 DEF Advance
      <3>3. \A q \in Processes :
              /\ change[q].generation \in Nat
              /\ change[q].generation <= generation
              /\ pc[q] \notin {"store", "count"}
        BY <2>6 DEF Advance
      <3>4. /\ pc'[p] = "store"
            /\ \A q \in Processes : q # p => pc'[q] = pc[q]
        BY <2>6 DEF Advance
      <3>5. \A q \in Processes :
              (change[q].generation > 0 /\ change[q].generation = generation)
                => current = change[q].current
        BY <3>3
      <3>6. \A q \in Processes :
              /\ change'[q].generation <= generation'
              /\ pc'[q] \in {"store", "count"} =>
                   /\ change'[q].generation = generation'
                   /\ change'[q].current = cand'[q]
              /\ pc'[q] = "store" => change'[q].previous = current'
              /\ pc'[q] # "count"
        BY <3>1, <3>2, <3>3, <3>4
      <3>7. \A q, r \in Processes :
              (q # r /\ change'[q].generation > 0)
                => change'[q].generation # change'[r].generation
        BY <3>1, <3>2, <3>3
      <3>8. \A q, r \in Processes :
              (change'[q].generation > 0
                 /\ change'[r].generation = change'[q].generation + 1)
                => change'[r].previous = change'[q].current
        <4> SUFFICES ASSUME NEW q \in Processes, NEW r \in Processes,
                            change'[q].generation > 0,
                            change'[r].generation = change'[q].generation + 1
                     PROVE  change'[r].previous = change'[q].current
          OBVIOUS
        <4>1. q # p
          BY <3>1, <3>2, <3>3
        <4>2. CASE r = p
          <5>1. change'[q] = change[q]
            BY <3>2, <4>1
          <5>2. change[q].generation > 0 /\ change[q].generation = generation
            BY <3>1, <3>3, <4>2, <5>1
          <5> QED
            BY <3>1, <3>5, <4>2, <5>1, <5>2
        <4>3. CASE r # p
          BY <3>2, <4>1, <4>3
        <4> QED
          BY <4>2, <4>3
      <3>9. \E q \in Processes : pc'[q] = "store"
        BY <3>4
      <3> QED
        BY <3>6, <3>7, <3>8, <3>9, Zenon DEF ChangesAgree
    <2>7. CASE Store(p)
      BY <2>7 DEF Store
    <2>8. CASE Count(p)
      BY <2>8 DEF Count
    <2>9. CASE ReportFailure(p)
      BY <2>9 DEF ReportFailure
    <2> QED
      BY <1>1, <2>1, <2>2, <2>3, <2>4, <2>5, <2>6, <2>7, <2>8, <2>9
      DEF Transaction
  <1>2. CASE Build
    BY <1>2 DEF Build, Ready
  <1>3. ASSUME NEW c \in Callers,
               \/ Call(c) \/ Cancel(c) \/ Entry(c) \/ Acquire(c) \/ GiveUp(c)
               \/ Interrupted(c) \/ Recheck(c) \/ Release(c) \/ Emit(c)
        PROVE  ChangesAgree'
    BY <1>3
    DEF Call, Cancel, Entry, Acquire, GiveUp, Interrupted, Recheck,
        Release, Emit, EntryOutcome, AfterRelease
  <1>4. ASSUME NEW k \in Closers, CallClose(k) \/ Close(k)
        PROVE  ChangesAgree'
    BY <1>4
    DEF Close, Freeze, CallClose, LockToClose, StartClosing,
        AlreadyClosing, Signal, StopDispatcher, DropHandlers, Finish,
        BeginClose, SignalDone, FinishClose
  <1>5. CASE UNCHANGED vars
    BY <1>5 DEF vars
  <1> QED
    BY <1>1, <1>2, <1>3, <1>4, <1>5, StepIsOneOf

(* The invariant holds when New begins.                                    *)
LEMMA IInvInit == Init => IInv
  <1> SUFFICES ASSUME Init PROVE IInv
    OBVIOUS
  <1> USE ReloadAssumption DEF Init, LifecycleInit, Processes
  <1>1. TypeOK
    BY TypeInit
  <1>2. Construction
    BY DEF Construction, BuilderAt, CallerAt
  <1>3. Serialised /\ OneInGate
    BY DEF Serialised, OneInGate, InTransaction, Gated, Committing, CloserGated
  <1>4. CommitsOnlyWhileOpen /\ CandidatesPassed /\ EngineBelongsToTransaction
    BY DEF CommitsOnlyWhileOpen, Closed, CandidatesPassed, Gated, Committing,
           EngineBelongsToTransaction
  <1>5. Counted /\ ChangesAgree
    BY DEF Counted, ChangesAgree
  <1> QED
    BY <1>1, <1>2, <1>3, <1>4, <1>5 DEF IInv

(* Every step preserves the invariant.                                     *)
LEMMA IInvStep == IInv /\ [Next]_vars => IInv'
  <1> SUFFICES ASSUME IInv, [Next]_vars PROVE IInv'
    OBVIOUS
  <1>1. \A p \in Processes : pc[p] = "store" => cand[p] # None
    BY ReloadAssumption
    DEF IInv, CandidatesPassed, Acceptable, Gated, Committing
  <1> QED
    BY <1>1, TypeStep, ConstructionStep, SerialisedStep, OneInGateStep,
       CommitsStep, CandidatesStep, EngineStep, CountedStep, ChangesStep
    DEF IInv

(* The parts of IInv hold together in every reachable state: the token and *)
(* the gate have one holder, commits and closing exclude each other, and   *)
(* counters, candidates and changes agree.                                 *)
THEOREM ReloadInvariant == Spec => []IInv
  BY IInvInit, IInvStep, PTL DEF Spec

(***************************************************************************)
(* The safety properties.                                                  *)
(***************************************************************************)

(* The engine a goroutine decoded from is still there when it publishes:   *)
(* one transaction uses the Viper instance at a time.                      *)
THEOREM EngineIsOwned == Spec => []EngineBelongsToTransaction
  <1>1. IInv => EngineBelongsToTransaction
    BY DEF IInv
  <1> QED
    BY <1>1, ReloadInvariant, PTL

(* Nobody is between the counters when nobody is inside the gate.          *)
LEMMA CountedCountersAgree ==
  ASSUME TypeOK, Construction, OneInGate, Counted
  PROVE  CounterAgreement
  <1> SUFFICES ASSUME state # "initializing", ~publishMu
               PROVE  generation = successes + 1
    BY DEF CounterAgreement
  <1>1. pc[Builder] = "done"
    BY DEF Construction
  <1>2. Uncounted = 0
    BY DEF OneInGate, Uncounted, Processes, Gated, Committing
  <1> QED
    BY <1>1, <1>2 DEF TypeOK, Counted

(* Outside the publication gate, generation = successful reloads + 1.      *)
THEOREM CountersAgree == Spec => []CounterAgreement
  <1>1. IInv => CounterAgreement
    BY CountedCountersAgree DEF IInv
  <1> QED
    BY <1>1, ReloadInvariant, PTL

(* Changes that agree with the counters fit together.                      *)
LEMMA AgreeingChangesChain ==
  ASSUME TypeOK, OneInGate, ChangesAgree
  PROVE  ChangesChain
  <1>1. ~publishMu => \A q \in Processes : pc[q] # "store"
    BY DEF OneInGate, Gated, Committing
  <1> QED
    BY <1>1 DEF TypeOK, Changes, ChangesAgree, ChangesChain

(* No two changes carry one generation, neighbours are linked, and the     *)
(* newest is the published snapshot.                                       *)
THEOREM ChangesAreChained == Spec => []ChangesChain
  <1>1. IInv => ChangesChain
    BY AgreeingChangesChain DEF IInv
  <1> QED
    BY <1>1, ReloadInvariant, PTL

(* Current never returns an unaccepted snapshot, nor nil once constructed. *)
THEOREM OnlyAccepted == Spec => []OnlyAcceptedIsPublished
  <1>1. IInv => OnlyAcceptedIsPublished
    BY DEF IInv, CandidatesPassed, Construction, Counted,
           OnlyAcceptedIsPublished
  <1> QED
    BY <1>1, ReloadInvariant, PTL

(* No step out of a state in which closing has begun touches the snapshot  *)
(* or its counters: commits are made by an open Config only.               *)
LEMMA FrozenStep ==
  ASSUME CommitsOnlyWhileOpen, Construction, [Next]_vars, Closed
  PROVE  Closed' /\ UNCHANGED <<current, generation, successes>>
  <1> DEFINE Frozen == Closed' /\ UNCHANGED <<current, generation, successes>>
  <1> USE DEF CommitsOnlyWhileOpen, Construction, Committing, Closed, Move,
              End, configVars, counters, lifecycleVars
  <1>1. ASSUME NEW p \in Processes, Transaction(p) PROVE Frozen
    BY <1>1
    DEF Transaction, ReadIntoViper, Unmarshal, Validate, Lock, Check,
        Advance, Store, Count, ReportFailure
  <1>2. CASE Build
    BY <1>2 DEF Build, Ready
  <1>3. ASSUME NEW c \in Callers,
               \/ Call(c) \/ Cancel(c) \/ Entry(c) \/ Acquire(c) \/ GiveUp(c)
               \/ Interrupted(c) \/ Recheck(c) \/ Release(c) \/ Emit(c)
        PROVE  Frozen
    BY <1>3
    DEF Call, Cancel, Entry, Acquire, GiveUp, Interrupted, Recheck, Release,
        Emit
  <1>4. ASSUME NEW k \in Closers, CallClose(k) \/ Close(k) PROVE Frozen
    BY <1>4
    DEF CallClose, Close, Freeze, LockToClose, StartClosing, AlreadyClosing, Signal,
        StopDispatcher, DropHandlers, Finish, BeginClose, SignalDone,
        FinishClose
  <1>5. CASE UNCHANGED vars
    BY <1>5 DEF vars
  <1> QED
    BY <1>1, <1>2, <1>3, <1>4, <1>5, StepIsOneOf

(* Once closing has begun the snapshot and its counters are frozen.        *)
THEOREM CloseFreezes == Spec => FrozenByClose
  <1> DEFINE Frozen == Closed' /\ UNCHANGED <<current, generation, successes>>
  <1>1. ASSUME IInv, [Next]_vars, Closed PROVE Frozen
    BY <1>1, FrozenStep DEF IInv
  <1>2. IInv /\ [Next]_vars => [Closed => Frozen]_vars
    BY <1>1
  <1> QED
    BY <1>2, ReloadInvariant, PTL DEF Spec, FrozenByClose

(***************************************************************************)
(* Reload implements the abstract register.                                *)
(***************************************************************************)

(* Before the initial load nothing is published.                           *)
LEMMA RegisterInit == Init => Register!Init
  BY ReloadAssumption
  DEF Init, LifecycleInit, Register!Init, Published, Closed, Processes

(* What readers of Current see of a step: one of the candidates taken is   *)
(* published, or closing begins, or nothing.                               *)
RegisterTakes(taken) ==
  \/ /\ ~Closed /\ ~Closed'
     /\ current' \in taken
     /\ Published' = Published + 1
  \/ /\ ~Closed /\ Closed'
     /\ Published > 0
     /\ current' = current /\ Published' = Published
  \/ /\ current' = current /\ Published' = Published
     /\ Closed' = Closed

(* Store publishes, StartClosing freezes, and every other step leaves the  *)
(* register as it was.                                                     *)
LEMMA SeenStep ==
  ASSUME TypeOK, Construction, OneInGate, CommitsOnlyWhileOpen, Counted,
         OneInGate', [Next]_vars,
         NEW taken, \A p \in Processes : pc[p] = "store" => cand[p] \in taken
  PROVE  RegisterTakes(taken)
  <1> USE ReloadAssumption
      DEF TypeOK, Construction, OneInGate, Processes, Move, Return, End,
          AfterTransaction, MoveCloser, Gated, Committing, CloserGated,
          configVars, counters, callVars, lockVars, lifecycleVars, Closed,
          Published, RegisterTakes
  <1>1. ASSUME NEW p \in Processes, Transaction(p)
        PROVE  RegisterTakes(taken)
    <2>1. CASE ReadIntoViper(p)
      BY <2>1 DEF ReadIntoViper
    <2>2. CASE Unmarshal(p)
      BY <2>2 DEF Unmarshal
    <2>3. CASE Validate(p)
      BY <2>3 DEF Validate
    <2>4. CASE Lock(p)
      BY <2>4 DEF Lock
    <2>5. CASE Check(p)
      BY <2>5 DEF Check
    <2>6. CASE Advance(p)
      BY <2>6 DEF Advance
    <2>7. CASE Store(p)
      <3>1. /\ Published = generation - 1
            /\ Published' = generation
            /\ ~Closed
            /\ ~Closed'
            /\ cand[p] \in taken
        BY <2>7 DEF Store, CommitsOnlyWhileOpen
      <3>2. current' = cand[p] /\ Published' = Published + 1
        BY <2>7, <3>1 DEF Store
      <3> QED
        BY <3>1, <3>2
    <2>8. CASE Count(p)
      BY <2>8 DEF Count
    <2>9. CASE ReportFailure(p)
      BY <2>9 DEF ReportFailure
    <2> QED
      BY <1>1, <2>1, <2>2, <2>3, <2>4, <2>5, <2>6, <2>7, <2>8, <2>9
      DEF Transaction
  <1>2. CASE Build
    BY <1>2 DEF Build, Ready
  <1>3. ASSUME NEW c \in Callers,
               \/ Call(c) \/ Cancel(c) \/ Entry(c) \/ Acquire(c) \/ GiveUp(c)
               \/ Interrupted(c) \/ Recheck(c) \/ Release(c) \/ Emit(c)
        PROVE  RegisterTakes(taken)
    BY <1>3
    DEF Call, Cancel, Entry, Acquire, GiveUp, Interrupted, Recheck, Release,
        AfterRelease, Emit
  <1>4. ASSUME NEW k \in Closers, CallClose(k) \/ Close(k)
        PROVE  RegisterTakes(taken)
    <2>1. CASE StartClosing(k)
      <3>1. generation > 0 /\ Published = generation /\ Published' = generation
        BY <2>1 DEF StartClosing, Counted, Uncounted
      <3> QED
        BY <2>1, <3>1 DEF StartClosing, BeginClose
    <2>2. CASE CallClose(k)
      BY <2>2 DEF CallClose
    <2>3. CASE LockToClose(k)
      BY <2>3 DEF LockToClose
    <2>4. CASE AlreadyClosing(k)
      BY <2>4 DEF AlreadyClosing
    <2>5. CASE Signal(k)
      BY <2>5 DEF Signal, SignalDone
    <2>6. CASE StopDispatcher(k)
      BY <2>6 DEF StopDispatcher
    <2>7. CASE DropHandlers(k)
      BY <2>7 DEF DropHandlers
    <2>8. CASE Finish(k)
      BY <2>8 DEF Finish, FinishClose, CommitsOnlyWhileOpen
    <2> QED
      BY <1>4, <2>1, <2>2, <2>3, <2>4, <2>5, <2>6, <2>7, <2>8
      DEF Close, Freeze
  <1>5. CASE UNCHANGED vars
    BY <1>5 DEF vars
  <1> QED
    BY <1>1, <1>2, <1>3, <1>4, <1>5, StepIsOneOf

(* The register takes what is acceptable.                                  *)
LEMMA RegisterStep ==
  ASSUME IInv, IInv', [Next]_vars
  PROVE  [Register!Next]_(Register!vars)
  <1>1. \A p \in Processes : pc[p] = "store" => cand[p] \in Acceptable
    BY DEF IInv, CandidatesPassed, Gated, Committing
  <1>2. RegisterTakes(Acceptable)
    BY <1>1, SeenStep DEF IInv
  <1> QED
    BY <1>2
    DEF RegisterTakes, Register!Next, Register!Publish, Register!Freeze,
        Register!vars

(* What readers of Current see is a register that takes accepted           *)
(* configurations one at a time and that closing freezes for good.         *)
THEOREM ReloadImplementsPublication == Spec => PublishesLikeRegister
  BY RegisterInit, RegisterStep, IInvStep, ReloadInvariant, PTL
  DEF Spec, PublishesLikeRegister, Register!Spec
=============================================================================
