-------------------------- MODULE PublishingProofs --------------------------
(***************************************************************************)
(* What Reload's theorems say of publications, for a Config built from any *)
(* options, reading any files, under any watch: with a validator and       *)
(* without, Current is a register that takes what the options let through. *)
(***************************************************************************)
EXTENDS WatchProofs

(***************************************************************************)
(* Preserving the rest of the invariant.                                   *)
(***************************************************************************)

(* What is accepted decodes, and is not nil.                               *)
LEMMA AcceptedDecodes ==
  Acceptable \subseteq Accepted /\ Accepted \subseteq Contents \cap Decodable
  BY DEF Accepted, Acceptable

(* Nil is no candidate.                                                    *)
LEMMA CandidatesAreNotNil ==
  ASSUME PassedStages
  PROVE  \A p \in Processes : pc[p] = "store" => cand[p] \in Accepted \ {None}
  BY AcceptedDecodes, ReloadAssumption DEF PassedStages, Gated, Committing

(* The two counters differ by the initial load and by the commit under way, *)
(* whatever is read and whoever watches.                                   *)
LEMMA CountedStays ==
  ASSUME LoadingInv, Counted, PassedStages, LoadingStep
  PROVE  Counted'
  <1>1. TransactionInv
    BY DEF LoadingInv
  <1>2. CASE [Next]_vars
    BY <1>1, <1>2, CandidatesAreNotNil, CountedStep DEF TransactionInv
  <1>3. ASSUME NEW p \in Processes, Unvalidated(p) PROVE Counted'
    BY <1>1, <1>3, ReloadAssumption
    DEF TransactionInv, TypeOK, Unvalidated, Move, Processes, Counted, Uncounted,
        configVars, counters
  <1>4. CASE SlotMoves
    BY <1>4 DEF SlotMoves, Counted, Uncounted, callVars, configVars, counters
  <1> QED
    BY <1>1, <1>2, <1>3, <1>4, LoadingStepIsTransactionStep DEF TransactionStep

(* A candidate has passed the stages before the one it is at, whether a    *)
(* validator is among them or not: a step of Reload passes only what both  *)
(* kinds of options let through, and Unvalidated is for one kind only.     *)
LEMMA PassedTransaction ==
  ASSUME TransactionInv, PassedStages, TransactionStep, opts' = opts
  PROVE  PassedStages'
  <1>1. Accepted' = Accepted
    BY DEF Accepted
  <1> USE <1>1, AcceptedDecodes, ReloadAssumption
      DEF TransactionInv, TypeOK, PassedStages, Processes, Move, Return, End,
          AfterTransaction, Gated, Committing, Snapshots, configVars, counters,
          callVars, lockVars, lifecycleVars
  <1>2. ASSUME NEW p \in Processes, Transaction(p) PROVE PassedStages'
    <2>1. CASE ReadIntoViper(p)
      BY <2>1 DEF ReadIntoViper
    <2>2. CASE Unmarshal(p)
      BY <2>2 DEF Unmarshal
    <2>3. CASE Validate(p)
      BY <2>3 DEF Validate, Acceptable
    <2>4. CASE Lock(p)
      BY <2>4 DEF Lock
    <2>5. CASE Check(p)
      BY <2>5 DEF Check
    <2>6. CASE Advance(p)
      BY <2>6 DEF Advance
    <2>7. CASE Store(p)
      BY <2>7 DEF Store
    <2>8. CASE Count(p)
      BY <2>8 DEF Count
    <2>9. CASE ReportFailure(p)
      BY <2>9 DEF ReportFailure
    <2> QED
      BY <1>2, <2>1, <2>2, <2>3, <2>4, <2>5, <2>6, <2>7, <2>8, <2>9
      DEF Transaction
  <1>3. CASE Build
    BY <1>3 DEF Build, Ready
  <1>4. ASSUME NEW c \in Callers,
               \/ Call(c) \/ Cancel(c) \/ Entry(c) \/ Acquire(c) \/ GiveUp(c)
               \/ Interrupted(c) \/ Recheck(c) \/ Release(c) \/ Emit(c)
        PROVE  PassedStages'
    BY <1>4
    DEF Call, Cancel, Entry, Acquire, GiveUp, Interrupted, Recheck, Release,
        AfterRelease, Emit, EntryOutcome
  <1>5. ASSUME NEW k \in Closers, CallClose(k) \/ Close(k) PROVE PassedStages'
    BY <1>5
    DEF Close, Freeze, CallClose, LockToClose, StartClosing, AlreadyClosing,
        Signal, StopDispatcher, DropHandlers, Finish
  <1>6. CASE UNCHANGED vars
    BY <1>6 DEF vars
  <1>7. ASSUME NEW p \in Processes, Unvalidated(p) PROVE PassedStages'
    BY <1>7 DEF Unvalidated, Accepted
  <1>8. CASE SlotMoves
    BY <1>8 DEF SlotMoves
  <1> QED
    BY <1>2, <1>3, <1>4, <1>5, <1>6, <1>7, <1>8, StepIsOneOf DEF TransactionStep

(* While the options are applied there is no candidate.                    *)
LEMMA PassedStay ==
  ASSUME LoadingInv, PassedStages, LoadingStep
  PROVE  PassedStages'
  <1>1. CASE Prepare
    <2>1. build.stage # "load" /\ UNCHANGED vars
      BY <1>1 DEF Prepare, Adopt, ApplyOption, RunSetup
    <2>2. current = None /\ pc[Builder] = "read"
      BY <2>1 DEF LoadingInv, BuildInv, LoadComesLast
    <2>3. \A p \in Processes : pc[p] \in {"read", "idle"}
      BY <2>2 DEF LoadingInv, TransactionInv, Construction, Processes
    <2> QED
      BY <2>1, <2>2, <2>3
      DEF PassedStages, Gated, Committing, vars, callVars, configVars
  <1>2. CASE ~Prepare
    BY <1>2, OptionsAreFixed, LoadingStepIsTransactionStep, PassedTransaction
    DEF LoadingInv
  <1> QED
    BY <1>1, <1>2

(* Nothing is published when the constructor is called.                    *)
LEMMA PublishingInvInit ==
  ASSUME LoadingInit
  PROVE  PublishingInv
  <1>1. LoadingInv
    BY LoadingInvInit
  <1>2. Counted
    BY IInvInit DEF LoadingInit, IInv
  <1>3. PassedStages
    BY DEF LoadingInit, Init, PassedStages, Processes, Gated, Committing
  <1> QED
    BY <1>1, <1>2, <1>3 DEF PublishingInv

(* Every step of Loading, or of Watch, keeps the invariant.                *)
LEMMA PublishingInvStep ==
  ASSUME PublishingInv, LoadingStep
  PROVE  PublishingInv'
  BY LoadingInvStep, CountedStays, PassedStay DEF PublishingInv

(* In every reachable state of Loading a candidate has passed what the     *)
(* options in force ask of it, and the counters tell what was published.   *)
THEOREM PublishingInvariant == LoadingSpec => []PublishingInv
  <1>1. LoadingInit => PublishingInv
    BY PublishingInvInit
  <1>2. PublishingInv /\ [LoadingNext]_loadingVars => PublishingInv'
    BY LoadingNextIsLoadingStep, PublishingInvStep DEF LoadingStep
  <1> QED
    BY <1>1, <1>2, PTL DEF LoadingSpec

(* Under a watch, too, a candidate has passed what the options ask of it,  *)
(* and the counters tell what was published, by whomever.                  *)
THEOREM PublishingInvariantOfWatch == WatchSpec => []PublishingInv
  <1>1. WatchInit => PublishingInv
    BY PublishingInvInit DEF WatchInit
  <1>2. WatchInv /\ PublishingInv /\ [WatchNext]_watchVars => PublishingInv'
    BY WatchNextIsLoadingStep, PublishingInvStep
  <1> QED
    BY <1>1, <1>2, WatchInvariant, PTL DEF WatchSpec

(***************************************************************************)
(* What follows from it: counters and snapshots.                           *)
(***************************************************************************)

(* What the invariant says outside the publication gate.                   *)
LEMMA PublishingInvImplies ==
  ASSUME PublishingInv
  PROVE  CounterAgreement /\ OnlyAcceptedIsLoaded
  <1>1. CounterAgreement
    BY CountedCountersAgree DEF PublishingInv, LoadingInv, TransactionInv
  <1>2. state # "initializing" => current # None
    BY DEF PublishingInv, LoadingInv, TransactionInv, Construction, Counted
  <1> QED
    BY <1>1, <1>2 DEF PublishingInv, PassedStages, OnlyAcceptedIsLoaded

(* The generation is one more than the reloads counted, whichever files    *)
(* were read, whether or not there is a validator.                         *)
THEOREM LoadedCountersAgree == LoadingSpec => []CounterAgreement
  <1>1. PublishingInv => CounterAgreement
    BY PublishingInvImplies
  <1> QED
    BY <1>1, PublishingInvariant, PTL

(* The generation is one more than the reloads counted when a watch        *)
(* reloads beside other callers, through closing and the watch's end.      *)
THEOREM WatchedCountersAgree == WatchSpec => []CounterAgreement
  <1>1. PublishingInv => CounterAgreement
    BY PublishingInvImplies
  <1> QED
    BY <1>1, PublishingInvariantOfWatch, PTL

(* Current never returns what the options in force refuse, nor nil once    *)
(* constructed: not from an engine another transaction has replaced, nor   *)
(* from one that was read before its validator was set.                    *)
THEOREM OnlyAcceptedIsEverLoaded == LoadingSpec => []OnlyAcceptedIsLoaded
  <1>1. PublishingInv => OnlyAcceptedIsLoaded
    BY PublishingInvImplies
  <1> QED
    BY <1>1, PublishingInvariant, PTL

(* Under a watch, whatever the files become between an event and the reads *)
(* it causes, Current never returns what the options in force refuse, nor  *)
(* nil once constructed.                                                   *)
THEOREM OnlyAcceptedIsWatched == WatchSpec => []OnlyAcceptedIsLoaded
  <1>1. PublishingInv => OnlyAcceptedIsLoaded
    BY PublishingInvImplies
  <1> QED
    BY <1>1, PublishingInvariantOfWatch, PTL

(***************************************************************************)
(* What readers of Current see.                                            *)
(***************************************************************************)

(* A step publishes a candidate, freezes, or is not seen.                  *)
LEMMA SeenByReaders ==
  ASSUME PublishingInv, PublishingInv', LoadingStep,
         NEW taken, \A p \in Processes : pc[p] = "store" => cand[p] \in taken
  PROVE  RegisterTakes(taken)
  <1> USE DEF PublishingInv, LoadingInv, TransactionInv
  <1>1. CASE [Next]_vars
    BY <1>1, SeenStep
  <1>2. ASSUME NEW p \in Processes, Unvalidated(p) PROVE RegisterTakes(taken)
    BY <1>2
    DEF TypeOK, Unvalidated, Move, Processes, RegisterTakes, Published, Closed,
        configVars, counters, lifecycleVars
  <1>3. CASE SlotMoves
    BY <1>3
    DEF SlotMoves, BeginWatch, BeginWatchOutcome, EndWatch, RegisterTakes,
        Published, Closed, callVars, configVars, counters
  <1> QED
    BY <1>1, <1>2, <1>3, LoadingStepIsTransactionStep DEF TransactionStep

(* Every candidate decodes, so it is a step of the register of what does.  *)
LEMMA DecodedStep ==
  ASSUME PublishingInv, PublishingInv', LoadingStep
  PROVE  [Decoded!Next]_(Decoded!vars)
  <1>1. \A p \in Processes :
          pc[p] = "store" => cand[p] \in Contents \cap Decodable
    BY CandidatesAreNotNil, AcceptedDecodes DEF PublishingInv
  <1>2. RegisterTakes(Contents \cap Decodable)
    BY <1>1, SeenByReaders
  <1> QED
    BY <1>2
    DEF RegisterTakes, Decoded!Next, Decoded!Publish, Decoded!Freeze, Decoded!vars

(* Before the initial load nothing is published.                           *)
LEMMA DecodedInit == Init => Decoded!Init
  BY ReloadAssumption
  DEF Init, LifecycleInit, Decoded!Init, Published, Closed, Processes

(* Whatever its options say of a validator, what readers of Current see of *)
(* a Config is a register that takes configurations that decode, one at a  *)
(* time, numbers them without a gap, and that closing freezes for good.    *)
THEOREM LoadingImplementsPublication == LoadingSpec => Decoded!Spec
  <1>1. LoadingInit => Decoded!Init
    BY DecodedInit DEF LoadingInit
  <1>2. PublishingInv /\ PublishingInv' /\ [LoadingNext]_loadingVars
          => [Decoded!Next]_(Decoded!vars)
    BY LoadingNextIsLoadingStep, DecodedStep DEF LoadingStep
  <1> QED
    BY <1>1, <1>2, PublishingInvariant, PTL DEF LoadingSpec, Decoded!Spec

(* While its files are watched, what readers of Current see of a Config is *)
(* that register too: no watch step publishes or freezes by itself.        *)
THEOREM WatchImplementsPublication == WatchSpec => Decoded!Spec
  <1>1. WatchInit => Decoded!Init
    BY DecodedInit DEF WatchInit, LoadingInit
  <1>2. WatchInv /\ PublishingInv /\ PublishingInv' /\ [WatchNext]_watchVars
          => [Decoded!Next]_(Decoded!vars)
    BY WatchNextIsLoadingStep, DecodedStep
  <1> QED
    BY <1>1, <1>2, WatchInvariant, PublishingInvariantOfWatch, PTL
    DEF WatchSpec, Decoded!Spec

(***************************************************************************)
(* Loading implements Reload, and Watch the register Reload implements,    *)
(* when Reload's Valid is what the options let through.                    *)
(***************************************************************************)

(* What has not been loaded yet is no candidate.                           *)
LEMMA CandidatesAreLoaded ==
  ASSUME LoadingInv, NEW p \in Processes, pc[p] \in {"validate", "store"}
  PROVE  build.stage = "load"
  <1>1. build.stage # "load" => pc[Builder] = "read"
    BY DEF LoadingInv, BuildInv, LoadComesLast
  <1> QED
    BY <1>1 DEF LoadingInv, TransactionInv, Construction, Processes

(* A candidate that no validator refuses is one that the validator of      *)
(* Reload accepts.                                                         *)
LEMMA UnvalidatedIsValidate ==
  ASSUME PublishingInv, Judges, NEW p \in Processes, Unvalidated(p)
  PROVE  Validate(p)
  <1>1. cand[p] \in Accepted
    BY DEF PublishingInv, PassedStages, Accepted, Unvalidated, Move
  <1>2. cand[p] \in Valid
    BY <1>1, CandidatesAreLoaded
    DEF PublishingInv, Judges, Acceptable, Unvalidated, Move
  <1> QED
    BY <1>2 DEF Unvalidated, Validate

(* Reading several files is reading one configuration: the steps before    *)
(* the last are not seen.                                                  *)
LEMMA LoadingStepsReload ==
  ASSUME PublishingInv, Judges, [LoadingNext]_loadingVars
  PROVE  [Next]_vars
  <1>1. CASE Prepare
    BY <1>1 DEF Prepare
  <1>2. ASSUME NEW f \in Files, Write(f) \/ Delete(f) PROVE [Next]_vars
    BY <1>2 DEF Write, Delete, ChangeDisk
  <1>3. ASSUME NEW p \in Processes, Works(p) PROVE [Next]_vars
    <2>1. CASE ReadNamed(p) \/ ReadDiscovered(p) \/ StoreFiles(p)
      <3>1. UNCHANGED vars \/ ReadIntoViper(p)
        BY <2>1
        DEF ReadNamed, ReadDiscovered, StoreFiles, Stat, SkipFile, ReadFile,
            ReadFails, ReadDone, Find, NotFound, ReadFound, StampFound, ReadsOn,
            EndRead
      <3> QED
        BY <3>1 DEF Next, New, DoReload, Attempt, Transaction, Processes
    <2>2. CASE Commit(p)
      BY <2>2
      DEF Commit, Next, New, DoReload, Attempt, Transaction, Processes
    <2>3. CASE Otherwise(p)
      <3>1. CASE Unvalidated(p)
        BY <3>1, UnvalidatedIsValidate
        DEF Next, New, DoReload, Attempt, Transaction, Processes
      <3>2. CASE ~Unvalidated(p)
        BY <2>3, <3>2 DEF Otherwise, Next, Processes
      <3> QED
        BY <3>1, <3>2
    <2> QED
      BY <1>3, <2>1, <2>2, <2>3 DEF Works
  <1>4. ASSUME NEW c \in Callers, CallReload(c) PROVE [Next]_vars
    BY <1>4 DEF CallReload, Next
  <1>5. ASSUME NEW k \in Closers, Closes(k) PROVE [Next]_vars
    BY <1>5 DEF Closes, Next
  <1>6. CASE UNCHANGED loadingVars
    BY <1>6 DEF loadingVars
  <1> QED
    BY <1>1, <1>2, <1>3, <1>4, <1>5, <1>6 DEF LoadingNext, LoadingRest

(* Reading files that change while they are read, from options applied one *)
(* by one, implements the transaction that reads one configuration in one  *)
(* step: whatever is true of Reload is true of Loading.                    *)
THEOREM LoadingImplementsReload == LoadingSpec => ([]Judges => Spec)
  <1>1. LoadingInit => Init
    BY DEF LoadingInit
  <1>2. PublishingInv /\ Judges /\ [LoadingNext]_loadingVars => [Next]_vars
    BY LoadingStepsReload
  <1> QED
    BY <1>1, <1>2, PublishingInvariant, PTL DEF LoadingSpec, Spec

(* What is true of Reload, then: the publications that a reader sees are   *)
(* those of the register that takes what the validator accepts.            *)
THEOREM LoadingPublishesLikeRegister ==
  LoadingSpec => ([]Judges => PublishesLikeRegister)
  BY LoadingImplementsReload, ReloadImplementsPublication, PTL

(* Under a watch, whose slot Reload leaves out, the publications a reader  *)
(* sees are also those of the register that takes what is accepted.        *)
THEOREM WatchPublishesLikeRegister ==
  WatchSpec => ([]Judges => PublishesLikeRegister)
  <1>1. WatchInit => Register!Init
    BY RegisterInit DEF WatchInit, LoadingInit
  <1>2. ASSUME WatchInv, PublishingInv, PublishingInv', Judges,
               [WatchNext]_watchVars
        PROVE  [Register!Next]_(Register!vars)
    <2>1. LoadingStep
      BY <1>2, WatchNextIsLoadingStep
    <2>2. \A p \in Processes : pc[p] = "store" => cand[p] \in Acceptable
      BY <1>2, CandidatesAreLoaded, CandidatesAreNotNil DEF PublishingInv, Judges
    <2>3. RegisterTakes(Acceptable)
      BY <1>2, <2>1, <2>2, SeenByReaders
    <2> QED
      BY <2>3
      DEF RegisterTakes, Register!Next, Register!Publish, Register!Freeze,
          Register!vars
  <1>3. WatchInv /\ PublishingInv /\ PublishingInv' /\ Judges
          /\ [WatchNext]_watchVars => [Register!Next]_(Register!vars)
    BY <1>2
  <1> QED
    BY <1>1, <1>3, WatchInvariant, PublishingInvariantOfWatch, PTL
    DEF WatchSpec, PublishesLikeRegister, Register!Spec

=============================================================================
