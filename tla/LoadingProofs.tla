---------------------------- MODULE LoadingProofs ----------------------------
(***************************************************************************)
(* Theorems about Loading for every set of files, every list of options,   *)
(* every set of callers and any number of changes.  The lemmas are about   *)
(* steps that Watch takes too.                                             *)
(***************************************************************************)
EXTENDS Loading, ReloadProofs, SequenceFacts

(***************************************************************************)
(* The transaction.                                                        *)
(***************************************************************************)

(* The claim or release of the slot of Watch.                              *)
SlotMoves ==
  /\ pc[Builder] = "done"
  /\ BeginWatch \/ EndWatch
  /\ UNCHANGED <<callVars, cpc, configVars, lockVars>>

(* What a step of Loading, or one of Watch, may do to the variables of     *)
(* Reload: a step of Reload, the step of a transaction without validator,  *)
(* or what Watch does to its slot.                                         *)
TransactionStep ==
  [Next]_vars \/ (\E p \in Processes : Unvalidated(p)) \/ SlotMoves

(* The parts of Reload's invariant that hold without a validator are       *)
(* preserved by all of these.                                              *)
LEMMA TransactionInvStep ==
  ASSUME TransactionInv, TransactionStep
  PROVE  TransactionInv'
  <1>1. CASE [Next]_vars
    BY <1>1, TypeStep, ConstructionStep, SerialisedStep, OneInGateStep,
       CommitsStep, EngineStep, ChangesStep
    DEF TransactionInv
  <1>2. ASSUME NEW p \in Processes, Unvalidated(p) PROVE TransactionInv'
    <2> USE <1>2, ReloadAssumption
        DEF TransactionInv, Unvalidated, Move, Processes, configVars, counters,
            lockVars, lifecycleVars
    <2>1. TypeOK'
      BY DEF TypeOK, LifecycleTypeOK, CallerAt, BuilderAt, InTransaction, Gated
    <2>2. Construction'
      BY DEF TypeOK, Construction, CallerAt, BuilderAt, InTransaction, Gated
    <2>3. Serialised' /\ OneInGate'
      BY DEF TypeOK, Serialised, OneInGate, InTransaction, Gated, Committing
    <2>4. CommitsOnlyWhileOpen' /\ EngineBelongsToTransaction'
      BY DEF TypeOK, CommitsOnlyWhileOpen, EngineBelongsToTransaction, Closed,
             Gated, Committing
    <2>5. ChangesAgree'
      BY DEF TypeOK, ChangesAgree
    <2> QED
      BY <2>1, <2>2, <2>3, <2>4, <2>5
  <1>3. CASE SlotMoves
    <2> USE <1>3
        DEF TransactionInv, SlotMoves, BeginWatch, BeginWatchOutcome, EndWatch,
            callVars, configVars, counters, lockVars
    <2>1. TypeOK'
      BY DEF TypeOK, LifecycleTypeOK, States
    <2>2. Construction'
      BY DEF Construction
    <2>3. Serialised' /\ OneInGate'
      BY DEF Serialised, OneInGate
    <2>4. CommitsOnlyWhileOpen' /\ EngineBelongsToTransaction'
      BY DEF CommitsOnlyWhileOpen, EngineBelongsToTransaction, Closed
    <2>5. ChangesAgree'
      BY DEF ChangesAgree
    <2> QED
      BY <2>1, <2>2, <2>3, <2>4, <2>5
  <1> QED
    BY <1>1, <1>2, <1>3 DEF TransactionStep

(* Where a transaction is once it has read its files.                      *)
HasRead == {"decode", "validate", "lock"} \cup Gated

(* One transaction is under way at a time, the initial load included.      *)
LEMMA OneTransaction ==
  ASSUME TransactionInv, NEW p \in Processes, NEW q \in Processes,
         pc[p] \in {"read"} \cup HasRead,
         pc[q] \in {"recheck", "read"} \cup HasRead
  PROVE  p = q
  BY ReloadAssumption
  DEF TransactionInv, Construction, Serialised, InTransaction, HasRead,
      Processes, Gated, Committing

(* Where a call is that may have published something.                      *)
HasEnded == {"release", "report", "emit"}

(* What a step that neither ends a read nor ends a commit does to one      *)
(* goroutine: nobody gets past the read stage, or publishes.               *)
Quiet(q) ==
  /\ engine' = engine
  /\ pc'[q] \in HasRead => pc[q] \in HasRead
  /\ pc'[q] = "read" => pc[q] \in {"read", "recheck"}
  /\ (pc'[q] \in HasEnded /\ outcome'[q] = "published") =>
       pc[q] \in HasEnded /\ outcome[q] = "published" /\ change'[q] = change[q]
  /\ pc[q] = "count" => pc'[q] = "count"
  /\ \/ current' = current
     \/ \E p \in Processes :
          pc[p] = "store" /\ pc'[p] = "count" /\ current' = cand[p]

(* All steps but the two are quiet.                                        *)
LEMMA QuietStep ==
  ASSUME TransactionInv, TransactionStep, NEW q \in Processes,
         \A p \in Processes : pc[p] \in {"read", "count"} => pc'[p] = pc[p]
  PROVE  Quiet(q)
  <1> USE ReloadAssumption
      DEF TransactionInv, TypeOK, Processes, HasRead, HasEnded, Quiet, Move,
          Return, End, AfterTransaction, Gated, Committing, configVars,
          counters, callVars, lockVars, lifecycleVars
  <1>1. ASSUME NEW p \in Processes, Transaction(p) PROVE Quiet(q)
    <2>1. CASE ReadIntoViper(p)
      BY <2>1 DEF ReadIntoViper
    <2>2. CASE Unmarshal(p)
      BY <2>2 DEF Unmarshal
    <2>3. CASE Validate(p)
      BY <2>3 DEF Validate
    <2>4. CASE Lock(p)
      BY <2>4 DEF Lock
    <2>5. CASE Check(p)
      BY <2>5 DEF Check
    <2>6. CASE Advance(p)
      BY <2>6 DEF Advance
    <2>7. CASE Store(p)
      BY <2>7 DEF Store
    <2>8. CASE Count(p)
      BY <2>8 DEF Count
    <2>9. CASE ReportFailure(p)
      BY <2>9 DEF ReportFailure
    <2> QED
      BY <1>1, <2>1, <2>2, <2>3, <2>4, <2>5, <2>6, <2>7, <2>8, <2>9
      DEF Transaction
  <1>2. CASE Build
    BY <1>2 DEF Build, Ready
  <1>3. ASSUME NEW c \in Callers,
               \/ Call(c) \/ Cancel(c) \/ Entry(c) \/ Acquire(c) \/ GiveUp(c)
               \/ Interrupted(c) \/ Recheck(c) \/ Release(c) \/ Emit(c)
        PROVE  Quiet(q)
    <2>1. CASE Call(c)
      BY <2>1 DEF Call
    <2>2. CASE Cancel(c) \/ Acquire(c) \/ Emit(c)
      BY <2>2 DEF Cancel, Acquire, Emit
    <2>3. CASE Entry(c)
      BY <2>3 DEF Entry, EntryOutcome
    <2>4. CASE GiveUp(c) \/ Interrupted(c)
      BY <2>4 DEF GiveUp, Interrupted
    <2>5. CASE Recheck(c)
      BY <2>5 DEF Recheck
    <2>6. CASE Release(c)
      BY <2>6 DEF Release, AfterRelease
    <2> QED
      BY <1>3, <2>1, <2>2, <2>3, <2>4, <2>5, <2>6
  <1>4. ASSUME NEW k \in Closers, CallClose(k) \/ Close(k) PROVE Quiet(q)
    BY <1>4
    DEF Close, Freeze, CallClose, LockToClose, StartClosing,
        AlreadyClosing, Signal, StopDispatcher, DropHandlers, Finish,
        BeginClose, SignalDone, FinishClose
  <1>5. CASE UNCHANGED vars
    BY <1>5 DEF vars
  <1>6. ASSUME NEW p \in Processes, Unvalidated(p) PROVE Quiet(q)
    BY <1>6 DEF Unvalidated
  <1>7. CASE SlotMoves
    BY <1>7 DEF SlotMoves
  <1> QED
    BY <1>1, <1>2, <1>3, <1>4, <1>5, <1>6, <1>7, StepIsOneOf DEF TransactionStep

(* Nothing happens before the Builder has read.                            *)
LEMMA NothingBeforeLoad ==
  ASSUME TransactionInv, TransactionStep, pc[Builder] = "read",
         pc'[Builder] = "read"
  PROVE  UNCHANGED vars
  <1> USE ReloadAssumption
      DEF TransactionInv, Construction, Processes, Move, vars
  <1>1. \A c \in Callers : pc[c] = "idle"
    OBVIOUS
  <1>2. \A k \in Closers : cpc[k] = "idle"
    OBVIOUS
  <1>3. ASSUME NEW p \in Processes, Transaction(p) PROVE FALSE
    BY <1>1, <1>3
    DEF Transaction, ReadIntoViper, Unmarshal, Validate, Lock, Check, Advance,
        Store, Count, ReportFailure, End, AfterTransaction, TypeOK
  <1>4. CASE Build
    BY <1>4 DEF Build
  <1>5. ASSUME NEW c \in Callers,
               \/ Call(c) \/ Cancel(c) \/ Entry(c) \/ Acquire(c) \/ GiveUp(c)
               \/ Interrupted(c) \/ Recheck(c) \/ Release(c) \/ Emit(c)
        PROVE  FALSE
    BY <1>1, <1>5
    DEF Call, Cancel, Entry, Acquire, GiveUp, Interrupted, Recheck, Release,
        Emit
  <1>6. ASSUME NEW k \in Closers, CallClose(k) \/ Close(k) PROVE FALSE
    BY <1>2, <1>6
    DEF Close, Freeze, CallClose, LockToClose, StartClosing, AlreadyClosing,
        Signal, StopDispatcher, DropHandlers, Finish, MoveCloser
  <1>7. ASSUME NEW p \in Processes, Unvalidated(p) PROVE FALSE
    BY <1>1, <1>7 DEF Unvalidated
  <1> QED
    BY <1>3, <1>4, <1>5, <1>6, <1>7, StepIsOneOf DEF TransactionStep, SlotMoves

(***************************************************************************)
(* The steps, by what they do to the files and to what was read of them.   *)
(***************************************************************************)
fileVars == <<buildVars, diskVars, read, storedVars>>

DiskChanges ==
  \E changed \in SUBSET Files, version \in {0, changes + 2} :
    ChangeDisk(changed, version)

Calling ==
  \E c \in Callers :
    /\ Call(c)
    /\ floor' = [x \in Witnesses |-> IF x = c THEN disk ELSE floor[x]]
    /\ UNCHANGED <<buildVars, disk, changes, read, storedVars>>

(* The steps of Loading, and those that Watch adds to them.                *)
LoadingStep ==
  \/ Prepare
  \/ DiskChanges
  \/ \E p \in Processes : Works(p)
  \/ Calling
  \/ \E c \in Callers : Cancel(c) /\ UNCHANGED fileVars
  \/ \E k \in Closers : Closes(k)
  \/ SlotMoves /\ UNCHANGED fileVars
  \/ UNCHANGED loadingVars

(* A read that goes on, and one that ends.                                 *)
ReadsMore(p) ==
  \/ Stat(p)
  \/ SkipFile(p)
  \/ ReadFile(p)
  \/ ReadFound(p) /\ disk[viper.file] \notin Garbled

EndsRead(p) ==
  \/ ReadFails(p)
  \/ ReadDone(p)
  \/ NotFound(p)
  \/ ReadFound(p) /\ disk[viper.file] \in Garbled
  \/ StampFound(p)

(* A step that has nothing to do with files, but may start a transaction   *)
(* or a call.                                                              *)
Elsewhere ==
  /\ TransactionStep
  /\ \A p \in Processes : pc[p] \in {"read", "count"} => pc'[p] = pc[p]
  /\ UNCHANGED <<buildVars, disk, changes, storedVars>>
  /\ \/ read' = read
     \/ read' = NotRead /\ \E c \in Processes : pc[c] = "recheck"
  /\ \A p \in Processes :
       pc'[p] = "read" => read' = NotRead \/ (read' = read /\ pc[p] = "read")
  /\ \/ floor' = floor
     \/ \E c \in Callers :
          /\ pc'[c] = "entry"
          /\ floor' = [x \in Witnesses |-> IF x = c THEN disk ELSE floor[x]]

(* Nothing but Recheck begins to read, and only to and from its goroutine. *)
LEMMA OtherwiseIsElsewhere ==
  ASSUME TransactionInv, NEW p \in Processes, Otherwise(p)
  PROVE  Elsewhere
  <1>1. TransactionStep
    <2>1. CASE pc[p] = "validate" /\ opts.validator = Nil
      BY <2>1 DEF Otherwise, TransactionStep
    <2>2. CASE ~(pc[p] = "validate" /\ opts.validator = Nil)
      BY <2>2 DEF Otherwise, TransactionStep, Next, Processes
    <2> QED
      BY <2>1, <2>2
  <1>2. \A q \in Processes : q # p => pc'[q] = pc[q]
    <2> USE DEF TransactionInv, TypeOK, Processes, Move, End
    <2>1. CASE Unvalidated(p)
      BY <2>1 DEF Unvalidated
    <2>2. CASE Transaction(p)
      BY <2>2 DEF Transaction, ReadIntoViper, Unmarshal, Validate, Lock, Check,
                  Advance, Store, Count, ReportFailure
    <2>3. CASE p = Builder /\ Build
      BY <2>3 DEF Build
    <2>4. CASE p \in Callers /\ DoReload(p) /\ ~Transaction(p)
      BY <2>4 DEF DoReload, Attempt, Entry, Acquire, GiveUp, Interrupted,
                  Recheck, Release, Emit
    <2> QED
      BY <2>1, <2>2, <2>3, <2>4 DEF Otherwise, New, DoReload, Attempt
  <1>3. pc'[p] = "read" => pc[p] = "recheck"
    <2> USE DEF TransactionInv, TypeOK, Processes, Move, End, AfterTransaction,
                Otherwise
    <2>1. CASE Unvalidated(p)
      BY <2>1 DEF Unvalidated
    <2>2. CASE Transaction(p)
      BY <2>2 DEF Transaction, ReadIntoViper, Unmarshal, Validate, Lock, Check,
                  Advance, Store, Count, ReportFailure
    <2>3. CASE p = Builder /\ Build
      BY <2>3 DEF Build
    <2>4. CASE p \in Callers /\ DoReload(p) /\ ~Transaction(p)
      BY <2>4 DEF DoReload, Attempt, Entry, Acquire, GiveUp, Interrupted,
                  Recheck, Release, AfterRelease, Emit
    <2> QED
      BY <2>1, <2>2, <2>3, <2>4 DEF New, DoReload, Attempt
  <1>4. \A q \in Processes : pc[q] \in {"read", "count"} => pc'[q] = pc[q]
    BY <1>2 DEF Otherwise
  <1>5. UNCHANGED <<buildVars, diskVars, storedVars>>
    BY DEF Otherwise
  <1>6. CASE pc'[p] = "read"
    <2>1. read' = NotRead /\ pc[p] = "recheck"
      BY <1>3, <1>6 DEF Otherwise, Forget
    <2> QED
      BY <1>1, <1>4, <1>5, <2>1 DEF Elsewhere, diskVars
  <1>7. CASE pc'[p] # "read"
    <2>1. read' = read
      BY <1>7 DEF Otherwise
    <2>2. \A q \in Processes : pc'[q] = "read" => pc[q] = "read"
      BY <1>2, <1>7
    <2> QED
      BY <1>1, <1>4, <1>5, <2>1, <2>2 DEF Elsewhere, diskVars
  <1> QED
    BY <1>6, <1>7

(* Every step is of one of these kinds.                                    *)
LEMMA LoadingStepIsOneOf ==
  ASSUME TransactionInv, LoadingStep
  PROVE  \/ Prepare
         \/ DiskChanges
         \/ Elsewhere
         \/ \E p \in Processes :
              \/ ReadsMore(p) \/ Find(p) \/ EndsRead(p)
              \/ StoreFiles(p) \/ Commit(p)
  <1> USE DEF fileVars, diskVars, loadingVars
  <1>1. ASSUME NEW p \in Processes, Works(p)
        PROVE  \/ ReadsMore(p) \/ Find(p) \/ EndsRead(p)
               \/ StoreFiles(p) \/ Commit(p) \/ Elsewhere
    BY <1>1, OtherwiseIsElsewhere
    DEF Works, ReadNamed, ReadDiscovered, ReadsMore, EndsRead
  <1>2. CASE Calling
    <2> PICK c \in Callers :
               /\ Call(c)
               /\ floor' = [x \in Witnesses |-> IF x = c THEN disk ELSE floor[x]]
               /\ UNCHANGED <<buildVars, disk, changes, read, storedVars>>
      BY <1>2 DEF Calling
    <2>1. /\ pc'[c] = "entry"
          /\ \A p \in Processes :
               /\ pc[p] \in {"read", "count"} => pc'[p] = pc[p]
               /\ pc'[p] = "read" => pc[p] = "read"
      BY DEF Call, Move, TransactionInv, TypeOK, Processes
    <2> QED
      BY <2>1 DEF Elsewhere, TransactionStep, Next
  <1>3. ASSUME NEW c \in Callers, Cancel(c), UNCHANGED fileVars PROVE Elsewhere
    BY <1>3 DEF Elsewhere, TransactionStep, Next, Cancel
  <1>4. ASSUME NEW k \in Closers, Closes(k) PROVE Elsewhere
    <2>1. UNCHANGED pc
      BY <1>4 DEF Closes, CallClose, Close, Freeze, LockToClose, StartClosing,
                  AlreadyClosing, Signal, StopDispatcher, DropHandlers, Finish,
                  callVars
    <2> QED
      BY <1>4, <2>1 DEF Elsewhere, TransactionStep, Next, Closes
  <1>5. CASE SlotMoves /\ UNCHANGED fileVars
    BY <1>5 DEF Elsewhere, TransactionStep, SlotMoves, callVars
  <1>6. CASE UNCHANGED loadingVars
    BY <1>6 DEF Elsewhere, TransactionStep, vars, callVars
  <1> QED
    BY <1>1, <1>2, <1>3, <1>4, <1>5, <1>6 DEF LoadingStep

(* Every step leaves the variables of Reload alone or is one of theirs.    *)
LEMMA LoadingStepIsTransactionStep ==
  ASSUME TransactionInv, LoadingStep
  PROVE  TransactionStep
  <1>1. CASE Prepare \/ DiskChanges
    BY <1>1 DEF Prepare, DiskChanges, ChangeDisk, TransactionStep
  <1>2. ASSUME NEW p \in Processes, ReadsMore(p) \/ Find(p) \/ StoreFiles(p)
        PROVE  UNCHANGED vars
    BY <1>2 DEF ReadsMore, Stat, SkipFile, ReadFile, ReadFound, ReadsOn, Find,
                StoreFiles
  <1>3. ASSUME NEW p \in Processes, EndsRead(p) PROVE ReadIntoViper(p)
    BY <1>3 DEF EndsRead, ReadFails, ReadDone, NotFound, ReadFound, StampFound,
                EndRead
  <1>4. ASSUME NEW p \in Processes, ReadIntoViper(p) \/ Count(p) PROVE Next
    BY <1>4 DEF Next, New, DoReload, Attempt, Transaction, Processes
  <1> QED
    BY <1>1, <1>2, <1>3, <1>4, LoadingStepIsOneOf
    DEF Elsewhere, Commit, TransactionStep

(* The options of a Config never change once it reads.                     *)
LEMMA OptionsAreFixed ==
  ASSUME LoadingInv, LoadingStep, ~Prepare
  PROVE  opts' = opts
  <1>1. ASSUME NEW p \in Processes,
               ReadsMore(p) \/ Find(p) \/ EndsRead(p) \/ StoreFiles(p)
                 \/ Commit(p)
        PROVE  opts' = opts
    BY <1>1
    DEF ReadsMore, Stat, SkipFile, ReadFile, ReadFound, ReadsOn, Find,
        EndsRead, ReadFails, ReadDone, NotFound, StampFound, EndRead,
        StoreFiles, Commit, buildVars
  <1>2. DiskChanges \/ Elsewhere => opts' = opts
    BY DEF DiskChanges, ChangeDisk, Elsewhere, buildVars
  <1> QED
    BY <1>1, <1>2, LoadingStepIsOneOf DEF LoadingInv

(***************************************************************************)
(* Construction.                                                           *)
(***************************************************************************)

(* What a right option sets, and to what.                                  *)
Setting(option) ==
  \/ \E f \in Files, b \in BOOLEAN :
       /\ option.field = "configFiles"
       /\ option.adds
       /\ option.value = <<[path |-> f, optional |-> b]>>
  \/ \E allow \in BOOLEAN : option = WithAllowMissingFile(allow)
  \/ option.field = "debounce" /\ ~option.adds /\ option.value \in Nat
  \/ option.field = "eventBuffer" /\ ~option.adds /\ option.value \in Nat \ {0}
  \/ option.field \in {"validator", "logger"} /\ ~option.adds
  \/ option.field = "decodeOptions" /\ option.adds
  \/ \E fn \in Setups :
       option.field = "viperSetup" /\ option.adds /\ option.value = <<fn>>

(* The checks an option makes leave what its field can hold.               *)
LEMMA RightOptionsSet ==
  ASSUME NEW option, IsOption(option, Files, Setups), ~Mistaken(option)
  PROVE  Setting(option)
  <1>1. ASSUME NEW f \in Files \cup {""},
               option = WithConfigFile(f) \/ option = WithOptionalConfigFile(f)
        PROVE  \E b \in BOOLEAN :
                 /\ f \in Files
                 /\ option.field = "configFiles"
                 /\ option.adds
                 /\ option.value = <<[path |-> f, optional |-> b]>>
    <2>1. CASE option = WithConfigFile(f)
      BY <1>1, <2>1 DEF WithConfigFile, Adds, Mistaken
    <2>2. CASE option = WithOptionalConfigFile(f)
      BY <1>1, <2>2 DEF WithOptionalConfigFile, Adds, Mistaken
    <2> QED
      BY <1>1, <2>1, <2>2
  <1>2. ASSUME NEW v \in Int, option = WithDebounce(v)
        PROVE  option.field = "debounce" /\ ~option.adds /\ option.value \in Nat
    <2>1. v >= 0
      BY <1>2 DEF WithDebounce, Sets, Mistaken
    <2>2. option.field = "debounce" /\ ~option.adds /\ option.value = v
      BY <1>2 DEF WithDebounce, Sets
    <2> QED
      BY <2>1, <2>2
  <1>3. ASSUME NEW v \in Int, option = WithEventBuffer(v)
        PROVE  /\ option.field = "eventBuffer"
               /\ ~option.adds
               /\ option.value \in Nat \ {0}
    <2>1. v >= 1
      BY <1>3 DEF WithEventBuffer, Sets, Mistaken
    <2>2. option.field = "eventBuffer" /\ ~option.adds /\ option.value = v
      BY <1>3 DEF WithEventBuffer, Sets
    <2> QED
      BY <2>1, <2>2
  <1>4. ASSUME NEW v, option = WithValidator(v) \/ option = WithLogger(v)
        PROVE  option.field \in {"validator", "logger"} /\ ~option.adds
    BY <1>4 DEF WithValidator, WithLogger, Sets
  <1>5. ASSUME NEW v, option = WithDecodeOption(v)
        PROVE  option.field = "decodeOptions" /\ option.adds
    BY <1>5 DEF WithDecodeOption, Adds
  <1>6. ASSUME NEW fn, fn = Nil \/ fn \in Setups, option = WithViperSetup(fn)
        PROVE  /\ fn \in Setups
               /\ option.field = "viperSetup"
               /\ option.adds
               /\ option.value = <<fn>>
    BY <1>6 DEF WithViperSetup, Adds, Mistaken
  <1>7. option # Nil
    BY DEF Mistaken
  <1> QED
    BY <1>1, <1>2, <1>3, <1>4, <1>5, <1>6, <1>7 DEF IsOption, Setting

(* What applying one right option does: only its own field changes, a file *)
(* or a setup is added at the end, and the types stay.                     *)
OnlyAdds(before, after, option) ==
  /\ Len(after.viperSetup) <= Len(before.viperSetup) + 1
  /\ Range(before.configFiles) \subseteq Range(after.configFiles)
  /\ \A f \in Files : option = WithConfigFile(f) =>
       [path |-> f, optional |-> FALSE] \in Range(after.configFiles)
  /\ after.allowMissingFile =>
       before.allowMissingFile \/ option = WithAllowMissingFile(TRUE)

(* Only WithConfigFile adds a file.                                        *)
LEMMA ConfigFileOption ==
  ASSUME NEW f
  PROVE  /\ WithConfigFile(f).field = "configFiles"
         /\ WithConfigFile(f).value = <<[path |-> f, optional |-> FALSE]>>
  BY DEF WithConfigFile, Adds

(* Applying an option keeps the options typed, and adds no file and no     *)
(* tolerance but those the option itself names.                            *)
LEMMA AppliedOnlyAdds ==
  ASSUME OptionTypes, NEW option, Setting(option), opts' = Applied(opts, option)
  PROVE  OptionTypes' /\ OnlyAdds(opts, opts', option)
  <1>1. ASSUME NEW f \in Files, NEW b \in BOOLEAN,
               option.field = "configFiles",
               option.adds,
               option.value = <<[path |-> f, optional |-> b]>>
        PROVE  OptionTypes' /\ OnlyAdds(opts, opts', option)
    <2> DEFINE e == [path |-> f, optional |-> b]
               files == Append(opts.configFiles, e)
    <2>1. e \in FileOptions /\ opts.configFiles \in Seq(FileOptions)
      BY DEF FileOptions, OptionTypes
    <2>2. option.value = <<e>>
      BY <1>1
    <2>3. ASSUME NEW g \in Files, option = WithConfigFile(g)
          PROVE  [path |-> g, optional |-> FALSE] = e
      BY <2>2, <2>3, ConfigFileOption
    <2> HIDE DEF e
    <2>4. opts.configFiles \o option.value = files /\ files \in Seq(FileOptions)
      BY <2>1, <2>2
    <2>5. Range(files) = Range(opts.configFiles) \cup {e}
      BY <2>1, RangeOfAppend
    <2> HIDE DEF files
    <2>6. opts' = [opts EXCEPT !.configFiles = files]
      BY <1>1, <2>4 DEF Applied, OptionTypes
    <2>7. OptionTypes'
      BY <2>4, <2>6 DEF OptionTypes
    <2>8. /\ opts'.configFiles = files
          /\ opts'.viperSetup = opts.viperSetup
          /\ opts'.allowMissingFile = opts.allowMissingFile
      BY <2>6 DEF OptionTypes
    <2>9. Len(opts'.viperSetup) <= Len(opts.viperSetup) + 1
      BY <2>8 DEF OptionTypes
    <2>10. /\ Range(opts.configFiles) \subseteq Range(opts'.configFiles)
           /\ e \in Range(opts'.configFiles)
      BY <2>5, <2>8
    <2>11. \A g \in Files : option = WithConfigFile(g) =>
             [path |-> g, optional |-> FALSE] \in Range(opts'.configFiles)
      BY <2>3, <2>10
    <2>12. opts'.allowMissingFile => opts.allowMissingFile
      BY <2>8
    <2> QED
      BY <2>7, <2>9, <2>10, <2>11, <2>12 DEF OnlyAdds
  <1>2. ASSUME option.field # "configFiles",
               NEW name \in {"allowMissingFile", "debounce", "eventBuffer",
                             "validator", "logger", "decodeOptions", "viperSetup"},
               NEW v, opts' = [opts EXCEPT ![name] = v],
               name = "allowMissingFile" =>
                 v \in BOOLEAN /\ option = WithAllowMissingFile(v),
               name = "debounce" => v \in Nat,
               name = "eventBuffer" => v \in Nat \ {0},
               name = "viperSetup" =>
                 v \in Seq(Setups) /\ Len(v) <= Len(opts.viperSetup) + 1
        PROVE  OptionTypes' /\ OnlyAdds(opts, opts', option)
    <2>1. OptionTypes'
      BY <1>2 DEF OptionTypes
    <2>2. \A f \in Files : option # WithConfigFile(f)
      BY <1>2, ConfigFileOption
    <2>3. opts'.configFiles = opts.configFiles
      BY <1>2 DEF OptionTypes
    <2>4. Len(opts'.viperSetup) <= Len(opts.viperSetup) + 1
      BY <1>2 DEF OptionTypes
    <2>5. opts'.allowMissingFile =>
            opts.allowMissingFile \/ option = WithAllowMissingFile(TRUE)
      BY <1>2 DEF OptionTypes
    <2> QED
      BY <2>1, <2>2, <2>3, <2>4, <2>5 DEF OnlyAdds
  <1>3. ASSUME NEW allow \in BOOLEAN, option = WithAllowMissingFile(allow)
        PROVE  OptionTypes' /\ OnlyAdds(opts, opts', option)
    <2>1. option.field = "allowMissingFile" /\ ~option.adds /\ option.value = allow
      BY <1>3 DEF WithAllowMissingFile, Sets
    <2>2. opts' = [opts EXCEPT !["allowMissingFile"] = allow]
      BY <2>1 DEF Applied
    <2> QED
      BY <1>2, <1>3, <2>1, <2>2
  <1>4. ASSUME option.field \in {"debounce", "eventBuffer", "validator", "logger"},
               ~option.adds,
               option.field = "debounce" => option.value \in Nat,
               option.field = "eventBuffer" => option.value \in Nat \ {0}
        PROVE  OptionTypes' /\ OnlyAdds(opts, opts', option)
    <2>1. opts' = [opts EXCEPT ![option.field] = option.value]
      BY <1>4 DEF Applied
    <2> QED
      BY <1>2, <1>4, <2>1
  <1>5. ASSUME option.field = "decodeOptions", option.adds
        PROVE  OptionTypes' /\ OnlyAdds(opts, opts', option)
    <2>1. opts' = [opts EXCEPT !["decodeOptions"] =
                     opts.decodeOptions \o option.value]
      BY <1>5 DEF Applied, OptionTypes
    <2> QED
      BY <1>2, <1>5, <2>1
  <1>6. ASSUME NEW fn \in Setups, option.field = "viperSetup", option.adds,
               option.value = <<fn>>
        PROVE  OptionTypes' /\ OnlyAdds(opts, opts', option)
    <2> DEFINE setups == Append(opts.viperSetup, fn)
    <2>1. /\ opts.viperSetup \o option.value = setups
          /\ setups \in Seq(Setups)
          /\ Len(setups) <= Len(opts.viperSetup) + 1
      BY <1>6 DEF OptionTypes
    <2> HIDE DEF setups
    <2>2. opts' = [opts EXCEPT !["viperSetup"] = setups]
      BY <1>6, <2>1 DEF Applied, OptionTypes
    <2> QED
      BY <1>2, <1>6, <2>1, <2>2
  <1> QED
    BY <1>1, <1>3, <1>4, <1>5, <1>6 DEF Setting

(* The options a constructor can be given.                                 *)
LEMMA GivenOptions ==
  ASSUME given \in Given
  PROVE  /\ Len(given) \in Nat
         /\ DOMAIN given = 1 .. Len(given)
         /\ \A i \in 1 .. Len(given) :
              given[i] \in Range(given) /\ IsOption(given[i], Files, Setups)
  <1>1. given \in Seq(Range(given))
    BY LoadingAssumption
  <1>2. Len(given) \in Nat /\ DOMAIN given = 1 .. Len(given)
    BY <1>1
  <1> QED
    BY <1>2, LoadingAssumption DEF Range

(* What has been taken stays taken.                                        *)
LEMMA OptionsStayTaken ==
  ASSUME OptionsTaken, UNCHANGED <<given, opts>>, build.stage # "refused",
         AppliedSoFar' = AppliedSoFar
  PROVE  OptionsTaken'
  <1>1. /\ \A i \in 1 .. AppliedSoFar' : i \in 1 .. AppliedSoFar
        /\ given' = given /\ opts' = opts
    OBVIOUS
  <1>2. ASSUME NEW i \in 1 .. AppliedSoFar'
        PROVE  /\ ~Mistaken(given'[i])
               /\ \A f \in Files : given'[i] = WithConfigFile(f) =>
                    [path |-> f, optional |-> FALSE] \in Range(opts'.configFiles)
    <2>1. i \in 1 .. AppliedSoFar
      BY <1>1
    <2>2. /\ ~Mistaken(given[i])
          /\ \A f \in Files : given[i] = WithConfigFile(f) =>
               [path |-> f, optional |-> FALSE] \in Range(opts.configFiles)
      BY <2>1, Zenon DEF OptionsTaken
    <2> QED
      BY <1>1, <2>2, Zenon
  <1>3. Len(opts'.viperSetup) <= AppliedSoFar'
    BY <1>1 DEF OptionsTaken
  <1>4. opts'.allowMissingFile => WithAllowMissingFile(TRUE) \in Range(given')
    BY <1>1, Zenon DEF OptionsTaken
  <1> QED
    BY <1>2, <1>3, <1>4, Zenon DEF OptionsTaken

(* Nothing more is said of the options of a constructor that gave up.      *)
LEMMA RefusedStep ==
  ASSUME OptionsTaken, UNCHANGED <<given, opts>>, build'.stage = "refused"
  PROVE  OptionsTaken'
  <1>1. AppliedSoFar' = 0
    BY DEF AppliedSoFar
  <1>2. \A i \in 1 .. AppliedSoFar' : FALSE
    BY <1>1
  <1>3. opts'.allowMissingFile => WithAllowMissingFile(TRUE) \in Range(given')
    BY Zenon DEF OptionsTaken
  <1> QED
    BY <1>2, <1>3, Zenon DEF OptionsTaken

(* Options are applied one after the other, until one is mistaken.         *)
LEMMA ApplyOptionStep ==
  ASSUME BuildInv, ApplyOption, UNCHANGED <<vars, given, read, storedVars>>
  PROVE  BuildInv'
  <1> DEFINE n == build.next
  <1>1. /\ build.stage = "options"
        /\ n \in 1 .. Len(given) + 1
        /\ given \in Given /\ given' = given
        /\ viper \in Vipers /\ viper' = viper
        /\ AppliedSoFar = n - 1
        /\ OptionTypes
    BY DEF ApplyOption, BuildInv, BuildTypes, AppliedSoFar
  <1>2. LoadComesLast'
    BY <1>1
    DEF BuildInv, LoadComesLast, vars, callVars, configVars, storedVars, Nothing,
        NotRead
  <1>3. Len(given) \in Nat
    BY <1>1, GivenOptions
  <1>4. CASE n > Len(given)
    <2>1. /\ build' = [stage |-> "setup", next |-> 1]
          /\ opts' = opts
          /\ n - 1 = Len(given)
      BY <1>1, <1>3, <1>4 DEF ApplyOption, Proceed
    <2>2. AppliedSoFar' = AppliedSoFar
      BY <1>1, <2>1 DEF AppliedSoFar
    <2>3. Len(opts.viperSetup) \in Nat
      BY <1>1 DEF OptionTypes
    <2>4. BuildTypes'
      BY <1>1, <1>3, <2>1, <2>3 DEF BuildTypes, OptionTypes
    <2>5. OptionsTaken'
      BY <1>1, <2>1, <2>2, OptionsStayTaken DEF BuildInv
    <2> QED
      BY <1>2, <2>4, <2>5 DEF BuildInv
  <1>5. CASE n <= Len(given) /\ Mistaken(given[n])
    <2>1. build' = [stage |-> "refused", next |-> 1] /\ opts' = opts
      BY <1>1, <1>3, <1>5 DEF ApplyOption, Proceed
    <2>2. BuildTypes'
      BY <1>1, <1>3, <2>1 DEF BuildTypes, OptionTypes
    <2>3. OptionsTaken'
      BY <1>1, <2>1, RefusedStep DEF BuildInv
    <2> QED
      BY <1>2, <2>2, <2>3 DEF BuildInv
  <1>6. CASE n <= Len(given) /\ ~Mistaken(given[n])
    <2>1. /\ build' = [build EXCEPT !.next = n + 1]
          /\ opts' = Applied(opts, given[n])
      BY <1>1, <1>3, <1>6 DEF ApplyOption, Another
    <2>2. /\ build' \in [stage : {"adopt", "options", "setup", "load", "refused"},
                         next : 1 .. Len(given) + 1]
          /\ build'.stage = "options" /\ build'.next = n + 1
      BY <1>1, <1>3, <1>6, <2>1 DEF BuildInv, BuildTypes
    <2>3. AppliedSoFar' = n
      BY <1>1, <1>3, <2>2 DEF AppliedSoFar
    <2>4. given[n] \in Range(given) /\ Setting(given[n])
      BY <1>1, <1>3, <1>6, GivenOptions, RightOptionsSet
    <2>5. OptionTypes' /\ OnlyAdds(opts, opts', given[n])
      BY <1>1, <2>1, <2>4, AppliedOnlyAdds
    <2>6. Len(opts'.viperSetup) <= AppliedSoFar'
      <3>1. /\ Len(opts.viperSetup) \in Nat /\ Len(opts'.viperSetup) \in Nat
            /\ Len(opts.viperSetup) <= n - 1
            /\ Len(opts'.viperSetup) <= Len(opts.viperSetup) + 1
        BY <1>1, <2>5 DEF OnlyAdds, OptionTypes, BuildInv, OptionsTaken
      <3> QED
        BY <1>1, <1>3, <2>3, <3>1
    <2>7. ASSUME NEW i \in 1 .. AppliedSoFar'
          PROVE  /\ ~Mistaken(given[i])
                 /\ \A f \in Files : given[i] = WithConfigFile(f) =>
                      [path |-> f, optional |-> FALSE] \in Range(opts'.configFiles)
      <3>1. CASE i = n
        BY <1>6, <2>5, <3>1 DEF OnlyAdds
      <3>2. CASE i # n
        <4>1. i \in 1 .. AppliedSoFar
          BY <1>1, <1>3, <2>3, <3>2
        <4> QED
          BY <2>5, <4>1 DEF OnlyAdds, BuildInv, OptionsTaken
      <3> QED
        BY <3>1, <3>2
    <2>8. opts'.allowMissingFile => WithAllowMissingFile(TRUE) \in Range(given)
      BY <2>4, <2>5 DEF OnlyAdds, BuildInv, OptionsTaken
    <2>9. BuildTypes'
      BY <1>1, <2>2, <2>5 DEF BuildTypes
    <2>10. OptionsTaken'
      BY <1>1, <2>6, <2>7, <2>8 DEF OptionsTaken
    <2> QED
      BY <1>2, <2>9, <2>10 DEF BuildInv
  <1> QED
    BY <1>1, <1>3, <1>4, <1>5, <1>6

(* The setups run once all options are applied.                            *)
LEMMA RunSetupStep ==
  ASSUME BuildInv, RunSetup, UNCHANGED <<vars, given, read, storedVars>>
  PROVE  BuildInv'
  <1> DEFINE n == build.next
             fn == opts.viperSetup[n]
  <1>1. /\ build.stage = "setup"
        /\ n \in 1 .. Len(given) + 1
        /\ n <= Len(opts.viperSetup) + 1
        /\ given \in Given /\ given' = given
        /\ viper \in Vipers
        /\ opts' = opts
        /\ AppliedSoFar = Len(given)
        /\ OptionTypes
    BY DEF RunSetup, BuildInv, BuildTypes, AppliedSoFar
  <1>2. Len(opts.viperSetup) <= Len(given)
    BY <1>1 DEF BuildInv, OptionsTaken
  <1>3. Len(given) \in Nat /\ Len(opts.viperSetup) \in Nat
    BY <1>1, GivenOptions DEF OptionTypes
  <1>4. OptionTypes'
    BY <1>1 DEF OptionTypes
  <1>5. /\ pc'[Builder] = "read" /\ read' = NotRead /\ current' = None
        /\ configFiles' = {} /\ fileStamps' = Nothing
    BY <1>1 DEF BuildInv, LoadComesLast, vars, callVars, configVars, storedVars
  <1>6. LoadComesLast'
    BY <1>5 DEF LoadComesLast, Nothing, NotRead
  <1>7. CASE n > Len(opts.viperSetup)
    <2>1. build' = [stage |-> "load", next |-> 1] /\ viper' = viper
      BY <1>1, <1>3, <1>7 DEF RunSetup, Proceed
    <2>2. AppliedSoFar' = AppliedSoFar
      BY <1>1, <2>1 DEF AppliedSoFar
    <2>3. BuildTypes'
      BY <1>1, <1>3, <1>4, <2>1 DEF BuildTypes
    <2>4. OptionsTaken'
      BY <1>1, <2>1, <2>2, OptionsStayTaken DEF BuildInv
    <2> QED
      BY <1>6, <2>3, <2>4 DEF BuildInv
  <1>8. CASE n <= Len(opts.viperSetup)
    <2>1. fn \in Setups
      BY <1>1, <1>3, <1>8 DEF OptionTypes
    <2>2. SetUp(fn)
      BY <1>1, <1>3, <1>8 DEF RunSetup
    <2> HIDE DEF fn
    <2>3. viper' = [search |-> viper.search \o fn.search,
                    file |-> IF fn.file = Nil THEN viper.file ELSE fn.file]
      BY <2>2 DEF SetUp
    <2>4. /\ viper.search \in Seq(Files) /\ fn.search \in Seq(Files)
          /\ viper.file \in Files \cup {Nil} /\ fn.file \in Files \cup {Nil}
      BY <1>1, <2>1 DEF Vipers, Setups
    <2>5. viper.search \o fn.search \in Seq(Files)
      BY <2>4
    <2>6. viper' \in Vipers
      BY <2>3, <2>4, <2>5 DEF Vipers
    <2>7. CASE build' = [stage |-> "refused", next |-> 1]
      <3>1. BuildTypes'
        BY <1>1, <1>3, <1>4, <2>6, <2>7 DEF BuildTypes
      <3>2. OptionsTaken'
        BY <1>1, <2>7, RefusedStep DEF BuildInv
      <3> QED
        BY <1>6, <3>1, <3>2 DEF BuildInv
    <2>8. CASE build' = [build EXCEPT !.next = n + 1]
      <3>1. n + 1 \in 1 .. Len(given) + 1 /\ n + 1 <= Len(opts.viperSetup) + 1
        BY <1>1, <1>2, <1>3, <1>8
      <3>2. /\ build' \in [stage : {"adopt", "options", "setup", "load", "refused"},
                           next : 1 .. Len(given) + 1]
            /\ build'.stage = "setup" /\ build'.next = n + 1
        BY <1>1, <2>8, <3>1 DEF BuildInv, BuildTypes
      <3>3. AppliedSoFar' = AppliedSoFar
        BY <1>1, <3>2 DEF AppliedSoFar
      <3>4. BuildTypes'
        BY <1>1, <1>4, <2>6, <3>1, <3>2 DEF BuildTypes
      <3>5. OptionsTaken'
        BY <1>1, <3>2, <3>3, OptionsStayTaken DEF BuildInv
      <3> QED
        BY <1>6, <3>4, <3>5 DEF BuildInv
    <2> QED
      BY <1>1, <1>3, <1>8, <2>7, <2>8 DEF RunSetup, Proceed, Another
  <1> QED
    BY <1>1, <1>3, <1>7, <1>8

(* Before the load there is a constructor that adopts, applies and sets up. *)
LEMMA PrepareStep ==
  ASSUME BuildInv, Prepare
  PROVE  BuildInv'
  <1>1. CASE Adopt
    <2>1. /\ build.stage = "adopt" /\ build.next = 1
          /\ \/ viper = Nil /\ build' = [stage |-> "refused", next |-> 1]
             \/ viper # Nil /\ build' = [stage |-> "options", next |-> 1]
          /\ opts' = opts /\ viper' = viper /\ given' = given
      BY <1>1 DEF Adopt, Proceed, Prepare, BuildInv, BuildTypes
    <2>2. Len(given) \in Nat
      BY GivenOptions DEF BuildInv, BuildTypes
    <2>3. BuildTypes'
      BY <2>1, <2>2 DEF BuildInv, BuildTypes, OptionTypes
    <2>4. OptionsTaken'
      <3>1. CASE build'.stage = "refused"
        BY <2>1, <3>1, RefusedStep DEF BuildInv
      <3>2. CASE build' = [stage |-> "options", next |-> 1]
        <4>1. AppliedSoFar' = AppliedSoFar
          BY <2>1, <3>2 DEF AppliedSoFar
        <4> QED
          BY <2>1, <4>1, OptionsStayTaken DEF BuildInv
      <3> QED
        BY <2>1, <3>1, <3>2
    <2>5. /\ pc'[Builder] = "read" /\ read' = NotRead /\ current' = None
          /\ configFiles' = {} /\ fileStamps' = Nothing
      BY <2>1 DEF BuildInv, LoadComesLast, Prepare, vars, callVars, configVars,
                  storedVars
    <2>6. LoadComesLast'
      BY <2>5 DEF LoadComesLast, Nothing, NotRead
    <2> QED
      BY <2>3, <2>4, <2>6 DEF BuildInv
  <1>2. CASE ApplyOption
    BY <1>2, ApplyOptionStep DEF Prepare
  <1>3. CASE RunSetup
    BY <1>3, RunSetupStep DEF Prepare
  <1> QED
    BY <1>1, <1>2, <1>3 DEF Prepare

(* Once the load has begun, only Find touches what was built.              *)
LEMMA BuildStays ==
  ASSUME BuildInv, LoadComesLast', UNCHANGED <<given, build, opts>>,
         viper' = viper \/ viper' \in Vipers
  PROVE  BuildInv'
  <1>1. BuildTypes'
    BY DEF BuildInv, BuildTypes, OptionTypes
  <1>2. OptionsTaken'
    <2>1. CASE build.stage = "refused"
      BY <2>1, RefusedStep DEF BuildInv
    <2>2. CASE build.stage # "refused"
      <3>1. AppliedSoFar' = AppliedSoFar
        BY DEF AppliedSoFar
      <3> QED
        BY <2>2, <3>1, OptionsStayTaken DEF BuildInv
    <2> QED
      BY <2>1, <2>2
  <1> QED
    BY <1>1, <1>2 DEF BuildInv

(* Every step keeps what is known of the options.                          *)
LEMMA BuildStep ==
  ASSUME TransactionInv, BuildInv, LoadingStep
  PROVE  BuildInv'
  <1>1. CASE Prepare
    BY <1>1, PrepareStep
  <1>2. CASE DiskChanges
    <2>1. UNCHANGED <<vars, buildVars, read, storedVars>>
      BY <1>2 DEF DiskChanges, ChangeDisk
    <2>2. LoadComesLast'
      BY <2>1 DEF BuildInv, LoadComesLast, vars, callVars, configVars, buildVars,
                  storedVars, Nothing, NotRead
    <2> QED
      BY <2>1, <2>2, BuildStays DEF buildVars
  <1>3. CASE Elsewhere
    <2>1. UNCHANGED <<given, build, opts, viper, configFiles, fileStamps>>
      BY <1>3 DEF Elsewhere, buildVars, storedVars
    <2>2. ASSUME build.stage # "load"
          PROVE  UNCHANGED <<pc, current, read>>
      <3>1. pc[Builder] = "read" /\ pc'[Builder] = "read"
        BY <1>3, <2>2 DEF Elsewhere, BuildInv, LoadComesLast, Processes
      <3>2. UNCHANGED vars
        BY <1>3, <3>1, NothingBeforeLoad DEF Elsewhere
      <3>3. ~ \E c \in Processes : pc[c] = "recheck"
        BY <3>1 DEF TransactionInv, Construction, Processes
      <3> QED
        BY <1>3, <3>2, <3>3 DEF Elsewhere, vars, callVars, configVars
    <2>3. LoadComesLast'
      BY <2>1, <2>2 DEF BuildInv, LoadComesLast, Nothing, NotRead
    <2> QED
      BY <2>1, <2>3, BuildStays
  <1>4. ASSUME NEW p \in Processes, ReadsMore(p) \/ EndsRead(p) PROVE BuildInv'
    <2>1. build.stage = "load" /\ UNCHANGED <<given, build, opts, viper>>
      BY <1>4
      DEF ReadsMore, EndsRead, Stat, SkipFile, ReadFile, ReadFound, ReadFails,
          ReadDone, NotFound, StampFound, ReadsFile, Discovers, Reads, ReadsOn,
          EndRead, buildVars
    <2>2. LoadComesLast'
      BY <2>1 DEF LoadComesLast
    <2> QED
      BY <2>1, <2>2, BuildStays
  <1>5. ASSUME NEW p \in Processes, Find(p) PROVE BuildInv'
    <2>1. build.stage = "load" /\ UNCHANGED <<given, build, opts>>
      BY <1>5 DEF Find, Discovers, Reads
    <2>2. viper \in Vipers
      BY <2>1 DEF BuildInv, BuildTypes
    <2>3. PICK i \in DOMAIN viper.search :
            viper' = [viper EXCEPT !.file = viper.search[i]]
      BY <1>5 DEF Find
    <2>4. viper' \in Vipers
      BY <2>2, <2>3 DEF Vipers
    <2>5. LoadComesLast'
      BY <2>1 DEF LoadComesLast
    <2> QED
      BY <2>1, <2>4, <2>5, BuildStays
  <1>6. ASSUME NEW p \in Processes, StoreFiles(p) \/ Commit(p) PROVE BuildInv'
    <2>1. pc[p] = "count" /\ UNCHANGED <<given, build, opts, viper>>
      BY <1>6 DEF StoreFiles, Commit, Count, End, Move, buildVars
    <2>2. build.stage = "load"
      BY <2>1 DEF TransactionInv, Construction, BuildInv, LoadComesLast, Processes
    <2>3. LoadComesLast'
      BY <2>1, <2>2 DEF LoadComesLast
    <2> QED
      BY <2>1, <2>3, BuildStays
  <1> QED
    BY <1>1, <1>2, <1>3, <1>4, <1>5, <1>6, LoadingStepIsOneOf

(***************************************************************************)
(* Changes of the disk.                                                    *)
(***************************************************************************)

(* The files a transaction may reach are files.                            *)
LEMMA ReachedFiles ==
  ASSUME BuildTypes, viper \in Vipers
  PROVE  /\ Len(opts.configFiles) \in Nat
         /\ DOMAIN opts.configFiles = 1 .. Len(opts.configFiles)
         /\ \A i \in 1 .. Len(opts.configFiles) :
              /\ opts.configFiles[i].path \in Files
              /\ opts.configFiles[i].optional \in BOOLEAN
         /\ Named \subseteq Files
         /\ Reached \subseteq Files
         /\ viper.file \in Files \cup {Nil}
         /\ \A i \in DOMAIN viper.search : viper.search[i] \in Files
  <1>1. opts.configFiles \in Seq(FileOptions)
    BY DEF BuildTypes, OptionTypes
  <1>2. /\ Len(opts.configFiles) \in Nat
        /\ DOMAIN opts.configFiles = 1 .. Len(opts.configFiles)
        /\ \A i \in 1 .. Len(opts.configFiles) :
             opts.configFiles[i] \in FileOptions
    BY <1>1
  <1>3. viper.search \in Seq(Files) /\ viper.file \in Files \cup {Nil}
    BY DEF Vipers
  <1>4. \A i \in DOMAIN viper.search : viper.search[i] \in Files
    BY <1>3
  <1>5. \A i \in 1 .. Len(opts.configFiles) :
          /\ opts.configFiles[i].path \in Files
          /\ opts.configFiles[i].optional \in BOOLEAN
    BY <1>2 DEF FileOptions
  <1>6. Named \subseteq Files
    BY <1>2, <1>5 DEF Named
  <1>7. Reached \subseteq Files
    BY <1>3, <1>4, <1>6 DEF Reached, Followed, Range
  <1> QED
    BY <1>2, <1>3, <1>4, <1>5, <1>6, <1>7

(* Whoever has read, or ended, did so after the load began.                *)
LEMMA LoadHasBegun ==
  ASSUME TransactionInv, BuildInv, NEW p \in Processes,
         pc[p] \in HasRead \cup HasEnded
  PROVE  build.stage = "load" /\ viper \in Vipers
  <1>1. build.stage = "load"
    BY DEF TransactionInv, Construction, BuildInv, LoadComesLast, Processes,
           HasRead, HasEnded, Gated, Committing
  <1> QED
    BY <1>1 DEF BuildInv, BuildTypes

(* A change leaves what exists as it was, removes it, or makes it newer    *)
(* than everything; and no call saw anything newer than there is.          *)
LEMMA DiskGrowsStep ==
  ASSUME DiskGrows, ReadTypes, DiskChanges
  PROVE  /\ DiskGrows'
         /\ \A f \in Files : \/ disk'[f] = disk[f]
                            \/ disk'[f] = 0
                            \/ disk'[f] > changes + 1
         /\ \A c \in Witnesses : \A f \in Files : floor'[c][f] <= floor[c][f]
  <1>1. PICK changed \in SUBSET Files, version \in {0, changes + 2} :
               ChangeDisk(changed, version)
    BY DEF DiskChanges
  <1>2. /\ changes < MaxChanges /\ changes' = changes + 1
        /\ changes \in Nat /\ MaxChanges \in Nat
        /\ Contents = [Files -> 0 .. MaxChanges + 1]
        /\ read' = read
    BY <1>1, LoadingAssumption DEF ChangeDisk, DiskGrows
  <1>3. disk' = [f \in Files |-> IF f \in changed THEN version ELSE disk[f]]
    BY <1>1 DEF ChangeDisk
  <1>4. \A f \in Files : disk[f] \in 0 .. MaxChanges + 1 /\ disk[f] <= changes + 1
    BY <1>2 DEF DiskGrows
  <1>5. \A f \in Files :
          /\ disk'[f] \in 0 .. MaxChanges + 1
          /\ disk'[f] <= changes' + 1
          /\ disk'[f] = disk[f] \/ disk'[f] = 0 \/ disk'[f] > changes + 1
    BY <1>2, <1>3, <1>4
  <1>6. disk' \in Contents
    BY <1>2, <1>3, <1>5
  <1>7. floor' = [c \in Witnesses |->
                   [f \in Files |-> IF disk'[f] = 0 THEN 0 ELSE floor[c][f]]]
    BY <1>1 DEF ChangeDisk
  <1>8. \A c \in Witnesses : \A f \in Files :
          floor[c][f] \in 0 .. MaxChanges + 1 /\ floor[c][f] <= disk[f]
    BY <1>2 DEF DiskGrows
  <1>9. \A c \in Witnesses : \A f \in Files :
          /\ floor'[c][f] = IF disk'[f] = 0 THEN 0 ELSE floor[c][f]
          /\ floor'[c][f] \in 0 .. MaxChanges + 1
          /\ floor'[c][f] <= floor[c][f]
    BY <1>2, <1>7, <1>8
  <1>10. \A c \in Witnesses : \A f \in Files : floor'[c][f] <= disk'[f]
    BY <1>2, <1>4, <1>5, <1>8, <1>9
  <1>11. floor' \in [Witnesses -> Contents]
    <2>1. \A c \in Witnesses : floor'[c] \in [Files -> 0 .. MaxChanges + 1]
      BY <1>7, <1>9
    <2> QED
      BY <1>2, <1>7, <2>1
  <1>12. read'.stamp <= changes' + 1
    BY <1>2 DEF DiskGrows, ReadTypes
  <1> QED
    BY <1>2, <1>5, <1>6, <1>9, <1>10, <1>11, <1>12 DEF DiskGrows

(* What is not older than a call stays so, as long as nothing further can  *)
(* be reached.                                                             *)
LEMMA NotOlderStays ==
  ASSUME BuildTypes, viper \in Vipers, DiskGrows, DiskGrows',
         NEW c \in Witnesses, NEW contents \in Contents, NotOlder(contents, c),
         Reached' \subseteq Reached,
         \A f \in Files : floor'[c][f] <= floor[c][f]
  PROVE  \A f \in Reached' : contents[f] >= floor'[c][f]
  <1> SUFFICES ASSUME NEW f \in Reached' PROVE contents[f] >= floor'[c][f]
    OBVIOUS
  <1>1. f \in Files /\ f \in Reached
    BY ReachedFiles
  <1>2. Contents = [Files -> 0 .. MaxChanges + 1] /\ MaxChanges \in Nat
    BY LoadingAssumption
  <1>3. /\ contents[f] \in Int /\ floor[c][f] \in Int /\ floor'[c][f] \in Int
    BY <1>1, <1>2 DEF DiskGrows
  <1>4. contents[f] >= floor[c][f]
    BY <1>1 DEF NotOlder
  <1> QED
    BY <1>1, <1>3, <1>4

(* A change of the disk disturbs nobody: what was read stays newer than    *)
(* what the call saw.                                                      *)
LEMMA DiskStep ==
  ASSUME LoadingInv, DiskChanges
  PROVE  LoadingInv'
  <1>1. UNCHANGED <<vars, buildVars, read, storedVars>>
    BY DEF DiskChanges, ChangeDisk
  <1>2. TransactionInv' /\ BuildInv'
    <2>1. LoadingStep
      BY DEF LoadingStep
    <2> QED
      BY <2>1, TransactionInvStep, LoadingStepIsTransactionStep, BuildStep
      DEF LoadingInv
  <1>3. /\ DiskGrows'
        /\ \A f \in Files : \/ disk'[f] = disk[f]
                           \/ disk'[f] = 0
                           \/ disk'[f] > changes + 1
        /\ \A c \in Witnesses : \A f \in Files : floor'[c][f] <= floor[c][f]
    BY DiskGrowsStep DEF LoadingInv
  <1>4. /\ opts' = opts /\ viper' = viper /\ build' = build /\ read' = read
        /\ pc' = pc /\ outcome' = outcome /\ change' = change
        /\ current' = current /\ engine' = engine
        /\ configFiles' = configFiles /\ fileStamps' = fileStamps
    BY <1>1 DEF vars, callVars, configVars, buildVars, storedVars
  <1>5. ReadTypes'
    BY <1>4 DEF LoadingInv, ReadTypes
  <1>6. StoredInv'
    BY <1>4 DEF LoadingInv, StoredInv, RequiredIn, Nothing
  <1>7. /\ Contents = [Files -> 0 .. MaxChanges + 1] /\ MaxChanges \in Nat
        /\ Reached' = Reached
    BY <1>4, LoadingAssumption DEF Reached, Followed, Named
  <1>8. ASSUME NEW p \in Processes, pc[p] = "read", build.stage = "load"
        PROVE  PartlyRead' /\ (p \in Witnesses => ReadSince(p)')
    <2>1. viper \in Vipers /\ BuildTypes
      BY <1>8 DEF LoadingInv, BuildInv, BuildTypes
    <2>2. PartlyRead /\ (p \in Witnesses => ReadSince(p))
      BY <1>8 DEF LoadingInv, ReadingInv, ReadingOf
    <2>3. /\ read.layer \in Nat \ {0} /\ read.layer <= Len(opts.configFiles) + 1
          /\ read.stamp \in Nat /\ read.stamp <= changes + 1
          /\ read.stamp # 0 => read.layer <= Len(opts.configFiles)
          /\ read.merged \in Contents /\ changes \in Nat
      BY <1>7 DEF LoadingInv, ReadTypes, DiskGrows
    <2>4. read.stamp # 0 =>
            disk'[File.path] = 0 \/ read.stamp <= disk'[File.path]
      <3> SUFFICES ASSUME read.stamp # 0, disk'[File.path] # 0
                   PROVE  read.stamp <= disk'[File.path]
        OBVIOUS
      <3>1. File.path \in Files
        BY <2>1, <2>3, ReachedFiles DEF File
      <3>2. disk[File.path] \in Int /\ disk'[File.path] \in Int
        BY <1>3, <1>7, <3>1 DEF LoadingInv, DiskGrows
      <3>3. disk[File.path] = 0 \/ read.stamp <= disk[File.path]
        BY <2>2 DEF PartlyRead
      <3> QED
        BY <1>3, <2>3, <3>1, <3>2, <3>3
    <2>5. PartlyRead'
      BY <1>4, <2>2, <2>4 DEF PartlyRead, File
    <2>6. ASSUME p \in Witnesses PROVE ReadSince(p)'
      <3>1. ASSUME NEW f \in Files, read.merged[f] >= floor[p][f]
            PROVE  read.merged[f] >= floor'[p][f]
        <4>1. /\ read.merged[f] \in Int /\ floor[p][f] \in Int
              /\ floor'[p][f] \in Int
          BY <1>3, <1>7, <2>3, <2>6 DEF LoadingInv, DiskGrows
        <4> QED
          BY <1>3, <2>6, <3>1, <4>1
      <3>2. \A i \in 1 .. read.layer - 1 : opts.configFiles[i].path \in Files
        BY <2>1, <2>3, ReachedFiles
      <3>3. read.files # {} /\ opts.configFiles = <<>> => viper.file \in Files
        BY <2>1, <2>2, ReachedFiles DEF PartlyRead
      <3> QED
        BY <1>4, <2>2, <2>6, <3>1, <3>2, <3>3 DEF ReadSince
    <2> QED
      BY <2>5, <2>6
  <1>9. ASSUME NEW p \in Processes, pc[p] \in HasRead
        PROVE  AllRead' /\ (p \in Witnesses => NotOlder(engine, p)')
    <2>1. viper \in Vipers /\ BuildTypes
      BY <1>9, LoadHasBegun DEF LoadingInv, BuildInv
    <2>2. AllRead /\ (p \in Witnesses => NotOlder(engine, p))
      BY <1>9 DEF LoadingInv, ReadingInv, ReadingOf, HasRead
    <2>3. AllRead'
      BY <1>4, <2>2 DEF AllRead, RequiredIn, Nothing
    <2>4. engine \in Contents
      BY DEF LoadingInv, TransactionInv, TypeOK
    <2> QED
      BY <1>3, <1>4, <1>7, <2>1, <2>2, <2>3, <2>4, NotOlderStays
      DEF LoadingInv, NotOlder
  <1>10. ASSUME NEW p \in Processes, p \in Witnesses, pc[p] \in HasEnded,
                outcome[p] = "published"
         PROVE  change[p].current \in Contents /\ NotOlder(change[p].current, p)'
    <2>1. viper \in Vipers /\ BuildTypes
      BY <1>10, LoadHasBegun DEF LoadingInv, BuildInv
    <2>2. change[p].current \in Contents /\ NotOlder(change[p].current, p)
      BY <1>10 DEF LoadingInv, ReadingInv, ReadingOf, HasEnded
    <2> QED
      BY <1>3, <1>4, <1>7, <1>10, <2>1, <2>2, NotOlderStays
      DEF LoadingInv, NotOlder
  <1>11. ReadingInv'
    BY <1>4, <1>8, <1>9, <1>10 DEF ReadingInv, ReadingOf, HasRead, HasEnded
  <1> QED
    BY <1>2, <1>3, <1>5, <1>6, <1>11 DEF LoadingInv

(***************************************************************************)
(* Reading.                                                                *)
(***************************************************************************)

(* The numbers that versions are.                                          *)
LEMMA ContentsAreVersions ==
  ASSUME DiskGrows, ReadTypes
  PROVE  /\ MaxChanges \in Nat
         /\ Contents = [Files -> 0 .. MaxChanges + 1]
         /\ Nothing \in Contents
         /\ \A f \in Files :
              /\ disk[f] \in 0 .. MaxChanges + 1
              /\ read.merged[f] \in 0 .. MaxChanges + 1
              /\ read.stamps[f] \in 0 .. MaxChanges + 1
         /\ \A c \in Witnesses : \A f \in Files :
              floor[c][f] \in 0 .. MaxChanges + 1 /\ floor[c][f] <= disk[f]
  <1>1. MaxChanges \in Nat /\ Contents = [Files -> 0 .. MaxChanges + 1]
    BY LoadingAssumption
  <1> QED
    BY <1>1 DEF DiskGrows, ReadTypes, Nothing

(* Stamping a file before it is read.                                      *)
LEMMA StatStep ==
  ASSUME BuildInv, DiskGrows, ReadTypes, PartlyRead, NEW p \in Processes, Stat(p)
  PROVE  /\ DiskGrows' /\ ReadTypes' /\ PartlyRead'
         /\ \A c \in Witnesses : ReadSince(c) => ReadSince(c)'
  <1>1. /\ read.layer <= Len(opts.configFiles) /\ build.stage = "load"
        /\ read.layer \in Nat \ {0}
    BY DEF Stat, ReadsFile, Reads, ReadTypes
  <1>2. File.path \in Files
    BY <1>1, ReachedFiles DEF File, BuildInv, BuildTypes
  <1>3. /\ disk[File.path] \in 1 .. MaxChanges + 1
        /\ disk[File.path] <= changes + 1
    BY <1>2, ContentsAreVersions DEF Stat, DiskGrows
  <1>4. read' = [read EXCEPT !.stamp = disk[File.path]]
    BY DEF Stat, ReadsOn
  <1>5. /\ read'.stamp = disk[File.path] /\ read'.layer = read.layer
        /\ read'.merged = read.merged /\ read'.stamps = read.stamps
        /\ read'.files = read.files
    BY <1>4 DEF ReadTypes
  <1>6. UNCHANGED <<opts, viper, disk, changes, floor, configFiles, fileStamps>>
    BY DEF Stat, ReadsOn, buildVars, diskVars, storedVars
  <1>7. DiskGrows'
    BY <1>3, <1>5, <1>6 DEF DiskGrows
  <1>8. ReadTypes'
    BY <1>1, <1>3, <1>4, <1>6 DEF ReadTypes
  <1>9. PartlyRead'
    BY <1>3, <1>5, <1>6 DEF PartlyRead, File
  <1>10. \A c \in Witnesses : ReadSince(c) => ReadSince(c)'
    BY <1>5, <1>6 DEF ReadSince
  <1> QED
    BY <1>7, <1>8, <1>9, <1>10

(* Passing over a file that does not exist and need not.                   *)
LEMMA SkipFileStep ==
  ASSUME BuildInv, DiskGrows, ReadTypes, PartlyRead, NEW p \in Processes,
         SkipFile(p)
  PROVE  /\ DiskGrows' /\ ReadTypes' /\ PartlyRead'
         /\ \A c \in Witnesses : ReadSince(c) => ReadSince(c)'
  <1>1. /\ read.layer <= Len(opts.configFiles) /\ build.stage = "load"
        /\ read.layer \in Nat \ {0} /\ Len(opts.configFiles) \in Nat
        /\ read.stamp = 0
    BY ReachedFiles
    DEF SkipFile, ReadsFile, Reads, ReadTypes, BuildInv, BuildTypes
  <1>2. File.path \in Files
    BY <1>1, ReachedFiles DEF File, BuildInv, BuildTypes
  <1>3. read' = [read EXCEPT !.layer = read.layer + 1]
    BY DEF SkipFile, ReadsOn
  <1>4. /\ read'.stamp = 0 /\ read'.layer = read.layer + 1
        /\ read'.merged = read.merged /\ read'.stamps = read.stamps
        /\ read'.files = read.files
    BY <1>1, <1>3 DEF ReadTypes
  <1>5. UNCHANGED <<opts, viper, disk, changes, floor, configFiles, fileStamps>>
    BY DEF SkipFile, ReadsOn, buildVars, diskVars, storedVars
  <1>6. DiskGrows'
    BY <1>4, <1>5 DEF DiskGrows
  <1>7. ReadTypes'
    BY <1>1, <1>3, <1>4, <1>5 DEF ReadTypes
  <1>8. \A i \in 1 .. read'.layer - 1 : i \in 1 .. read.layer - 1 \/ i = read.layer
    BY <1>1, <1>4
  <1>9. PartlyRead'
    <2>1. opts.configFiles[read.layer].optional
      BY DEF SkipFile, File
    <2>2. \A i \in 1 .. read'.layer - 1 :
            ~opts.configFiles[i].optional
              => read.merged[opts.configFiles[i].path] # 0
      BY <1>8, <2>1 DEF PartlyRead
    <2> QED
      BY <1>4, <1>5, <2>2 DEF PartlyRead, File
  <1>10. ASSUME NEW c \in Witnesses, ReadSince(c) PROVE ReadSince(c)'
    <2>1. read.merged[File.path] >= floor[c][File.path]
      BY <1>2, ContentsAreVersions DEF SkipFile
    <2> QED
      BY <1>4, <1>5, <1>8, <1>10, <2>1 DEF ReadSince, File
  <1> QED
    BY <1>6, <1>7, <1>9, <1>10

(* Reading a file that is there: it is no older than its stamp, nor than   *)
(* any call that has begun.                                                *)
LEMMA ReadFileStep ==
  ASSUME BuildInv, DiskGrows, ReadTypes, PartlyRead, NEW p \in Processes,
         ReadFile(p)
  PROVE  /\ DiskGrows' /\ ReadTypes' /\ PartlyRead'
         /\ \A c \in Witnesses : ReadSince(c) => ReadSince(c)'
  <1> DEFINE g == File.path
  <1>1. /\ read.layer <= Len(opts.configFiles) /\ build.stage = "load"
        /\ read.layer \in Nat \ {0} /\ Len(opts.configFiles) \in Nat
        /\ read.stamp # 0 /\ disk[g] # 0
    BY ReachedFiles
    DEF ReadFile, ReadsFile, Reads, ReadTypes, BuildInv, BuildTypes
  <1>2. /\ opts.configFiles # <<>>
        /\ \A i \in 1 .. Len(opts.configFiles) : opts.configFiles[i].path \in Files
    BY <1>1, ReachedFiles DEF BuildInv, BuildTypes
  <1>3. g \in Files /\ g = opts.configFiles[read.layer].path
    BY <1>1, <1>2 DEF File
  <1>4. read' = [read EXCEPT !.merged[g] = disk[g],
                             !.stamps[g] = read.stamp,
                             !.files = @ \cup {g},
                             !.layer = @ + 1,
                             !.stamp = 0]
    BY DEF ReadFile, ReadsOn
  <1>5. UNCHANGED <<opts, viper, disk, changes, floor, configFiles, fileStamps>>
    BY DEF ReadFile, ReadsOn, buildVars, diskVars, storedVars
  <1>6. read.stamp <= disk[g]
    BY <1>1 DEF PartlyRead
  <1> HIDE DEF g
  <1>7. /\ read'.stamp = 0 /\ read'.layer = read.layer + 1
        /\ read'.merged = [read.merged EXCEPT ![g] = disk[g]]
        /\ read'.stamps = [read.stamps EXCEPT ![g] = read.stamp]
        /\ read'.files = read.files \cup {g}
        /\ read' = [layer |-> read'.layer, stamp |-> read'.stamp,
                    merged |-> read'.merged, stamps |-> read'.stamps,
                    files |-> read'.files]
    BY <1>1, <1>4 DEF ReadTypes
  <1>8. \A f \in Files :
          /\ read'.merged[f] = IF f = g THEN disk[g] ELSE read.merged[f]
          /\ read'.stamps[f] = IF f = g THEN read.stamp ELSE read.stamps[f]
    BY <1>7, LoadingAssumption DEF ReadTypes
  <1>9. DiskGrows'
    BY <1>5, <1>7 DEF DiskGrows
  <1>10. ReadTypes'
    <2>1. disk[g] \in 0 .. MaxChanges + 1 /\ read.stamp \in 0 .. MaxChanges + 1
      BY <1>3, ContentsAreVersions DEF ReadTypes
    <2>2. read'.merged \in Contents /\ read'.stamps \in Contents
      BY <1>3, <1>7, <2>1, LoadingAssumption DEF ReadTypes
    <2>3. read'.layer \in Nat \ {0} /\ read'.stamp \in 0 .. MaxChanges + 1
      BY <1>1, <1>7, LoadingAssumption
    <2>4. read'.files \in SUBSET Files
      BY <1>3, <1>7 DEF ReadTypes
    <2>5. read' \in [layer : Nat \ {0}, stamp : 0 .. MaxChanges + 1,
                     merged : Contents, stamps : Contents, files : SUBSET Files]
      BY <1>7, <2>2, <2>3, <2>4
    <2> QED
      BY <1>1, <1>5, <1>7, <2>5 DEF ReadTypes
  <1>11. \A i \in 1 .. read'.layer - 1 : i \in 1 .. read.layer - 1 \/ i = read.layer
    BY <1>1, <1>7
  <1>12. \A i \in 1 .. read'.layer - 1 : opts.configFiles[i].path \in Files
    BY <1>1, <1>2, <1>7
  <1>13. PartlyRead'
    <2>1. read'.files = {f \in Files : read'.merged[f] # 0}
      BY <1>1, <1>3, <1>7, <1>8 DEF PartlyRead
    <2>2. \A i \in 1 .. read'.layer - 1 :
            ~opts.configFiles[i].optional
              => read'.merged[opts.configFiles[i].path] # 0
      BY <1>1, <1>3, <1>8, <1>11, <1>12 DEF PartlyRead
    <2>3. \A f \in Files : read'.stamps[f] <= read'.merged[f]
      BY <1>2, <1>6, <1>8 DEF PartlyRead
    <2> QED
      BY <1>2, <1>5, <1>7, <2>1, <2>2, <2>3 DEF PartlyRead
  <1>14. ASSUME NEW c \in Witnesses, ReadSince(c) PROVE ReadSince(c)'
    <2>1. \A f \in Files : read'.merged[f] >= read.merged[f] \/ f = g
      BY <1>8, ContentsAreVersions
    <2>2. read'.merged[g] >= floor[c][g]
      BY <1>3, <1>8, ContentsAreVersions
    <2>3. ASSUME NEW i \in 1 .. read'.layer - 1
          PROVE  read'.merged[opts.configFiles[i].path]
                   >= floor[c][opts.configFiles[i].path]
      <3>1. CASE opts.configFiles[i].path = g
        BY <2>2, <3>1
      <3>2. CASE opts.configFiles[i].path # g
        <4>1. i \in 1 .. read.layer - 1
          BY <1>3, <1>11, <3>2
        <4>2. read.merged[opts.configFiles[i].path]
                >= floor[c][opts.configFiles[i].path]
          BY <1>14, <4>1 DEF ReadSince
        <4> QED
          BY <1>8, <1>12, <3>2, <4>2
      <3> QED
        BY <3>1, <3>2
    <2> QED
      BY <1>2, <1>5, <2>3 DEF ReadSince
  <1> QED
    BY <1>9, <1>10, <1>13, <1>14

(* Reading the file that was discovered.                                   *)
LEMMA ReadFoundStep ==
  ASSUME BuildInv, DiskGrows, ReadTypes, PartlyRead, NEW p \in Processes,
         ReadFound(p), disk[viper.file] \notin Garbled
  PROVE  /\ DiskGrows' /\ ReadTypes' /\ PartlyRead'
         /\ \A c \in Witnesses : ReadSince(c) => ReadSince(c)'
  <1> DEFINE g == viper.file
  <1>1. /\ build.stage = "load" /\ opts.configFiles = <<>> /\ read.files = {}
        /\ g # Nil /\ disk[g] # 0
    BY DEF ReadFound, Discovers, Reads
  <1>2. g \in Files
    BY <1>1, ReachedFiles DEF BuildInv, BuildTypes
  <1>3. read' = [read EXCEPT !.merged[g] = disk[g], !.files = {g}]
    BY DEF ReadFound, ReadsOn
  <1>4. UNCHANGED <<opts, viper, disk, changes, floor, configFiles, fileStamps>>
    BY DEF ReadFound, ReadsOn, buildVars, diskVars, storedVars
  <1>5. /\ read'.stamp = read.stamp /\ read'.layer = read.layer
        /\ read'.merged = [read.merged EXCEPT ![g] = disk[g]]
        /\ read'.stamps = read.stamps
        /\ read'.files = {g}
        /\ read' = [layer |-> read'.layer, stamp |-> read'.stamp,
                    merged |-> read'.merged, stamps |-> read'.stamps,
                    files |-> read'.files]
    BY <1>3 DEF ReadTypes
  <1>6. read.layer = 1 /\ read.stamp = 0
    <2>1. Len(opts.configFiles) = 0
      BY <1>1
    <2> QED
      BY <2>1, LoadingAssumption DEF ReadTypes
  <1>7. \A f \in Files : read'.merged[f] = IF f = g THEN disk[g] ELSE read.merged[f]
    BY <1>5, LoadingAssumption DEF ReadTypes
  <1>8. DiskGrows'
    BY <1>4, <1>5 DEF DiskGrows
  <1>9. ReadTypes'
    <2>1. read'.merged \in Contents
      BY <1>2, <1>5, ContentsAreVersions DEF ReadTypes
    <2> QED
      BY <1>2, <1>4, <1>5, <2>1 DEF ReadTypes
  <1>10. \A i \in 1 .. read'.layer - 1 : FALSE
    BY <1>5, <1>6
  <1>11. PartlyRead'
    <2>1. read'.files = {f \in Files : read'.merged[f] # 0}
      BY <1>1, <1>2, <1>5, <1>7 DEF PartlyRead
    <2> QED
      BY <1>1, <1>4, <1>5, <1>6, <1>10, <2>1 DEF PartlyRead
  <1>12. \A c \in Witnesses : ReadSince(c)'
    <2>1. \A c \in Witnesses : read'.merged[g] >= floor[c][g]
      BY <1>2, <1>7, ContentsAreVersions
    <2> QED
      BY <1>4, <1>10, <2>1 DEF ReadSince
  <1> QED
    BY <1>8, <1>9, <1>11, <1>12

(***************************************************************************)
(* What each kind of step does to the rest of the invariant.               *)
(***************************************************************************)

(* Whoever does not read on stays where it is, or ends with what it had.   *)
LEMMA ReadingStays ==
  ASSUME LoadingInv, BuildInv', DiskGrows', NEW q \in Processes,
         opts' = opts, Reached' \subseteq Reached,
         pc'[q] # "read",
         pc'[q] \in HasRead =>
           /\ pc[q] \in HasRead
           /\ UNCHANGED <<engine, read, configFiles>>,
         (pc'[q] \in HasEnded /\ outcome'[q] = "published") =>
           /\ pc[q] \in HasEnded
           /\ outcome[q] = "published"
           /\ change'[q] = change[q],
         (q \in Witnesses /\ pc'[q] \in HasRead \cup HasEnded) =>
           \A f \in Files : floor'[q][f] <= floor[q][f]
  PROVE  ReadingOf(q)'
  <1>1. ASSUME pc'[q] \in HasRead
        PROVE  AllRead' /\ (q \in Witnesses => NotOlder(engine, q)')
    <2>1. pc[q] \in HasRead /\ UNCHANGED <<engine, read, configFiles>>
      BY <1>1
    <2>2. viper \in Vipers /\ BuildTypes
      BY <2>1, LoadHasBegun DEF LoadingInv, BuildInv
    <2>3. AllRead /\ (q \in Witnesses => NotOlder(engine, q))
      BY <2>1 DEF LoadingInv, ReadingInv, ReadingOf, HasRead
    <2>4. AllRead'
      BY <2>1, <2>3 DEF AllRead, RequiredIn, Nothing
    <2>5. engine \in Contents
      BY DEF LoadingInv, TransactionInv, TypeOK
    <2>6. q \in Witnesses => \A f \in Reached' : engine[f] >= floor'[q][f]
      BY <1>1, <2>2, <2>3, <2>5, NotOlderStays DEF LoadingInv
    <2> QED
      BY <2>1, <2>4, <2>6 DEF NotOlder
  <1>2. ASSUME q \in Witnesses, pc'[q] \in HasEnded, outcome'[q] = "published"
        PROVE  change'[q].current \in Contents /\ NotOlder(change[q].current, q)'
    <2>1. pc[q] \in HasEnded /\ outcome[q] = "published" /\ change'[q] = change[q]
      BY <1>2
    <2>2. viper \in Vipers /\ BuildTypes
      BY <2>1, LoadHasBegun DEF LoadingInv, BuildInv
    <2>3. change[q].current \in Contents /\ NotOlder(change[q].current, q)
      BY <1>2, <2>1 DEF LoadingInv, ReadingInv, ReadingOf, HasEnded
    <2>4. \A f \in Reached' : change[q].current[f] >= floor'[q][f]
      BY <1>2, <2>2, <2>3, NotOlderStays DEF LoadingInv
    <2> QED
      BY <2>1, <2>3, <2>4 DEF NotOlder
  <1> QED
    BY <1>1, <1>2 DEF ReadingOf, HasRead, HasEnded

(* Nobody else is reading, or has read, while a goroutine reads.           *)
LEMMA ReadsAlone ==
  ASSUME LoadingInv, NEW p \in Processes, pc[p] = "read", BuildInv', DiskGrows',
         opts' = opts, Reached' \subseteq Reached, floor' = floor,
         \A q \in Processes \ {p} :
           pc'[q] = pc[q] /\ outcome'[q] = outcome[q] /\ change'[q] = change[q]
  PROVE  \A q \in Processes \ {p} : ReadingOf(q)'
  <1> SUFFICES ASSUME NEW q \in Processes \ {p} PROVE ReadingOf(q)'
    OBVIOUS
  <1>1. pc[q] \notin {"read"} \cup HasRead
    BY OneTransaction DEF LoadingInv
  <1>2. ASSUME q \in Witnesses PROVE \A f \in Files : floor'[q][f] <= floor[q][f]
    BY <1>2, ContentsAreVersions DEF LoadingInv
  <1> QED
    BY <1>1, <1>2, ReadingStays

(* Reading on keeps all of it.                                             *)
LEMMA ReadsMoreStep ==
  ASSUME LoadingInv, NEW p \in Processes, ReadsMore(p)
  PROVE  LoadingInv'
  <1>1. /\ pc[p] = "read" /\ build.stage = "load"
        /\ UNCHANGED <<vars, buildVars, diskVars, storedVars>>
    BY DEF ReadsMore, Stat, SkipFile, ReadFile, ReadFound, ReadsFile, Discovers,
           Reads, ReadsOn
  <1>2. TransactionInv' /\ BuildInv'
    <2>1. LoadingStep
      BY DEF LoadingStep, Works, ReadNamed, ReadDiscovered, ReadsMore
    <2> QED
      BY <2>1, TransactionInvStep, LoadingStepIsTransactionStep, BuildStep
      DEF LoadingInv
  <1>3. PartlyRead /\ (p \in Witnesses => ReadSince(p))
    BY <1>1 DEF LoadingInv, ReadingInv, ReadingOf
  <1>4. /\ DiskGrows' /\ ReadTypes' /\ PartlyRead'
        /\ \A c \in Witnesses : ReadSince(c) => ReadSince(c)'
    BY <1>3, StatStep, SkipFileStep, ReadFileStep, ReadFoundStep
    DEF LoadingInv, ReadsMore
  <1>5. /\ pc' = pc /\ outcome' = outcome /\ change' = change
        /\ current' = current /\ opts' = opts /\ viper' = viper /\ floor' = floor
        /\ configFiles' = configFiles /\ fileStamps' = fileStamps
    BY <1>1 DEF vars, callVars, configVars, buildVars, diskVars, storedVars
  <1>6. StoredInv'
    BY <1>5 DEF LoadingInv, StoredInv, RequiredIn, Nothing
  <1>7. Reached' = Reached
    BY <1>5 DEF Reached, Followed, Named
  <1>8. ReadingOf(p)'
    BY <1>1, <1>3, <1>4, <1>5 DEF ReadingOf, Gated, Committing
  <1>9. \A q \in Processes \ {p} : ReadingOf(q)'
    BY <1>1, <1>2, <1>4, <1>5, <1>7, ReadsAlone
  <1>10. ReadingInv'
    BY <1>8, <1>9 DEF ReadingInv
  <1> QED
    BY <1>2, <1>4, <1>6, <1>10 DEF LoadingInv

(* Finding a file only narrows what can be reached.                        *)
LEMMA FindStep ==
  ASSUME LoadingInv, NEW p \in Processes, Find(p)
  PROVE  LoadingInv'
  <1>1. /\ pc[p] = "read" /\ build.stage = "load"
        /\ opts.configFiles = <<>> /\ read.files = {} /\ viper.file = Nil
        /\ UNCHANGED <<vars, given, build, opts, diskVars, read, storedVars>>
    BY DEF Find, Discovers, Reads
  <1>2. TransactionInv' /\ BuildInv'
    <2>1. LoadingStep
      BY DEF LoadingStep, Works, ReadDiscovered
    <2> QED
      BY <2>1, TransactionInvStep, LoadingStepIsTransactionStep, BuildStep
      DEF LoadingInv
  <1>3. PICK i \in DOMAIN viper.search :
               viper' = [viper EXCEPT !.file = viper.search[i]]
    BY DEF Find
  <1>4. viper.search[i] \in Files /\ viper \in Vipers
    BY <1>1, <1>3, ReachedFiles DEF LoadingInv, BuildInv, BuildTypes
  <1>5. viper'.file = viper.search[i]
    BY <1>3, <1>4 DEF Vipers
  <1>6. /\ pc' = pc /\ outcome' = outcome /\ change' = change
        /\ current' = current /\ opts' = opts /\ disk' = disk
        /\ changes' = changes /\ floor' = floor /\ read' = read
        /\ configFiles' = configFiles /\ fileStamps' = fileStamps
    BY <1>1 DEF vars, callVars, configVars, diskVars, storedVars
  <1>7. Reached' \subseteq Reached
    BY <1>1, <1>3, <1>5, <1>6 DEF Reached, Followed, Range
  <1>8. DiskGrows' /\ ReadTypes'
    BY <1>6 DEF LoadingInv, DiskGrows, ReadTypes
  <1>9. StoredInv'
    BY <1>6 DEF LoadingInv, StoredInv, RequiredIn, Nothing
  <1>10. PartlyRead /\ (p \in Witnesses => ReadSince(p))
    BY <1>1 DEF LoadingInv, ReadingInv, ReadingOf
  <1>11. PartlyRead'
    BY <1>1, <1>6, <1>10 DEF PartlyRead, File
  <1>12. p \in Witnesses => ReadSince(p)'
    BY <1>1, <1>6, <1>10 DEF ReadSince
  <1>13. ReadingOf(p)'
    BY <1>1, <1>6, <1>11, <1>12 DEF ReadingOf, Gated, Committing
  <1>14. \A q \in Processes \ {p} : ReadingOf(q)'
    BY <1>1, <1>2, <1>6, <1>7, <1>8, ReadsAlone
  <1>15. ReadingInv'
    BY <1>13, <1>14 DEF ReadingInv
  <1> QED
    BY <1>2, <1>8, <1>9, <1>15 DEF LoadingInv

(* The named files have all been read, or the last one is skipped.         *)
LEMMA ReadDoneStep ==
  ASSUME BuildInv, DiskGrows, ReadTypes, PartlyRead, engine \in Contents,
         NEW p \in Processes, p \in Witnesses => ReadSince(p),
         ReadDone(p), pc'[p] = "decode"
  PROVE  AllRead' /\ (p \in Witnesses => NotOlder(engine, p)')
  <1>1. /\ build.stage = "load" /\ opts.configFiles # <<>>
        /\ read.layer > Len(opts.configFiles)
        /\ read.files # {} \/ MayBeMissing
        /\ engine' = IF read.files = {} THEN engine ELSE read.merged
        /\ UNCHANGED <<opts, viper, floor, read, configFiles>>
    BY DEF ReadDone, Reads, EndRead, diskVars, storedVars
  <1>2. /\ Len(opts.configFiles) \in Nat
        /\ DOMAIN opts.configFiles = 1 .. Len(opts.configFiles)
        /\ \A i \in 1 .. Len(opts.configFiles) : opts.configFiles[i].path \in Files
    BY <1>1, ReachedFiles DEF BuildInv, BuildTypes
  <1>3. \A i \in DOMAIN opts.configFiles : i \in 1 .. read.layer - 1
    BY <1>1, <1>2 DEF ReadTypes
  <1>4. read.files = {f \in Files : read.merged[f] # 0}
    BY DEF PartlyRead
  <1>5. RequiredIn(read.merged)
    BY <1>3 DEF PartlyRead, RequiredIn
  <1>6. RequiredIn(engine')
    BY <1>1, <1>2, <1>4, <1>5 DEF RequiredIn
  <1>7. opts.allowMissingFile \/ engine' # Nothing
    <2>1. CASE read.files = {}
      BY <1>1, <2>1 DEF MayBeMissing
    <2>2. CASE read.files # {}
      BY <1>1, <1>4, <2>2 DEF Nothing
    <2> QED
      BY <2>1, <2>2
  <1>8. AllRead'
    BY <1>1, <1>4, <1>6, <1>7 DEF AllRead, RequiredIn, Nothing, MayBeMissing,
       PartlyRead
  <1>9. ASSUME p \in Witnesses PROVE NotOlder(engine, p)'
    <2>1. Reached' = Named
      BY <1>1 DEF Reached, Followed, Named
    <2>2. ASSUME NEW f \in Named PROVE engine'[f] >= floor[p][f]
      <3>1. PICK i \in DOMAIN opts.configFiles : f = opts.configFiles[i].path
        BY DEF Named
      <3>2. f \in Files /\ read.merged[f] >= floor[p][f]
        BY <1>2, <1>3, <1>9, <3>1 DEF ReadSince
      <3>3. CASE read.files = {}
        <4>1. read.merged[f] = 0
          BY <1>4, <3>2, <3>3
        <4>2. engine' = engine /\ engine[f] \in 0 .. MaxChanges + 1
          BY <1>1, <3>2, <3>3, LoadingAssumption
        <4>3. floor[p][f] \in 0 .. MaxChanges + 1 /\ MaxChanges \in Nat
          BY <1>9, <3>2, ContentsAreVersions
        <4> QED
          BY <3>2, <4>1, <4>2, <4>3
      <3>4. CASE read.files # {}
        BY <1>1, <3>2, <3>4
      <3> QED
        BY <3>3, <3>4
    <2> QED
      BY <1>1, <2>1, <2>2 DEF NotOlder
  <1> QED
    BY <1>8, <1>9

(* No file was discovered, and none need be.                               *)
LEMMA NotFoundStep ==
  ASSUME BuildInv, DiskGrows, ReadTypes, PartlyRead, engine \in Contents,
         NEW p \in Processes, NotFound(p), pc'[p] = "decode"
  PROVE  AllRead' /\ (p \in Witnesses => NotOlder(engine, p)')
  <1>1. /\ build.stage = "load" /\ opts.configFiles = <<>>
        /\ read.files = {} /\ MayBeMissing /\ engine' = engine
        /\ UNCHANGED <<opts, viper, floor, read, configFiles>>
    BY DEF NotFound, Discovers, Reads, EndRead, diskVars, storedVars
  <1>2. \A i \in DOMAIN opts.configFiles : FALSE
    BY <1>1
  <1>3. AllRead'
    BY <1>1, <1>2 DEF AllRead, RequiredIn, MayBeMissing, PartlyRead
  <1>4. \A f \in Reached : f \in Files /\ disk[f] = 0
    BY <1>1, ReachedFiles
    DEF NotFound, Missing, Reached, Followed, Range, BuildInv, BuildTypes
  <1>5. Reached' = Reached
    BY <1>1 DEF Reached, Followed, Named
  <1>6. ASSUME p \in Witnesses PROVE NotOlder(engine, p)'
    <2>1. ASSUME NEW f \in Reached PROVE engine[f] >= floor[p][f]
      <3>1. floor[p][f] \in Nat /\ floor[p][f] <= 0
        BY <1>4, <1>6, ContentsAreVersions
      <3>2. engine[f] \in Nat
        BY <1>4, LoadingAssumption
      <3> QED
        BY <3>1, <3>2
    <2> QED
      BY <1>1, <1>5, <2>1 DEF NotOlder
  <1> QED
    BY <1>3, <1>6

(* The file that was discovered has been read; its stamp comes late.       *)
LEMMA StampFoundStep ==
  ASSUME BuildInv, DiskGrows, ReadTypes, PartlyRead, NEW p \in Processes,
         p \in Witnesses => ReadSince(p), StampFound(p)
  PROVE  /\ AllRead' /\ (p \in Witnesses => NotOlder(engine, p)')
         /\ ReadTypes' /\ read'.stamp = read.stamp
  <1>1. /\ build.stage = "load" /\ opts.configFiles = <<>> /\ read.files # {}
        /\ read' = [read EXCEPT !.stamps[viper.file] = disk[viper.file]]
        /\ engine' = read.merged
        /\ UNCHANGED <<opts, viper, disk, floor, configFiles, fileStamps>>
    BY DEF StampFound, Reads, EndRead, diskVars, storedVars
  <1>2. viper.file # Nil /\ read.files = {viper.file}
    BY <1>1 DEF PartlyRead
  <1>3. viper.file \in Files
    BY <1>1, <1>2, ReachedFiles DEF BuildInv, BuildTypes
  <1>4. /\ read'.stamp = read.stamp /\ read'.layer = read.layer
        /\ read'.merged = read.merged /\ read'.files = read.files
    BY <1>1 DEF ReadTypes
  <1>5. ReadTypes'
    <2>1. disk[viper.file] \in 0 .. MaxChanges + 1
      BY <1>3, ContentsAreVersions
    <2>2. [read.stamps EXCEPT ![viper.file] = disk[viper.file]] \in Contents
      BY <2>1, LoadingAssumption DEF ReadTypes
    <2> DEFINE late == [read.stamps EXCEPT ![viper.file] = disk[viper.file]]
    <2>3. read' = [read EXCEPT !.stamps = late]
      BY <1>1 DEF ReadTypes
    <2> HIDE DEF late
    <2>4. late \in Contents
      BY <2>2 DEF late
    <2> QED
      BY <1>1, <1>4, <2>3, <2>4 DEF ReadTypes
  <1>6. \A i \in DOMAIN opts.configFiles : FALSE
    BY <1>1
  <1>7. read.files = {f \in Files : read.merged[f] # 0}
    BY DEF PartlyRead
  <1>8. engine' # Nothing
    BY <1>1, <1>7 DEF Nothing
  <1>9. AllRead'
    BY <1>1, <1>4, <1>6, <1>7, <1>8 DEF AllRead, RequiredIn, Nothing
  <1>10. Reached' = {viper.file}
    BY <1>1, <1>2 DEF Reached, Followed
  <1>11. p \in Witnesses => NotOlder(engine, p)'
    BY <1>1, <1>10 DEF NotOlder, ReadSince
  <1> QED
    BY <1>4, <1>5, <1>9, <1>11

(* A read that ends leaves a transaction that has read all, or none.       *)
LEMMA EndsReadStep ==
  ASSUME LoadingInv, NEW p \in Processes, EndsRead(p)
  PROVE  LoadingInv'
  <1>1. /\ ReadIntoViper(p) /\ pc[p] = "read" /\ build.stage = "load"
        /\ UNCHANGED <<buildVars, diskVars, storedVars>>
    BY DEF EndsRead, ReadFails, ReadDone, NotFound, ReadFound, StampFound,
           ReadsFile, Discovers, Reads, EndRead, buildVars
  <1>2. TransactionInv' /\ BuildInv'
    <2>1. LoadingStep
      BY DEF LoadingStep, Works, ReadNamed, ReadDiscovered, EndsRead
    <2> QED
      BY <2>1, TransactionInvStep, LoadingStepIsTransactionStep, BuildStep
      DEF LoadingInv
  <1>3. /\ current' = current /\ change' = change
        /\ \A q \in Processes \ {p} : pc'[q] = pc[q] /\ outcome'[q] = outcome[q]
        /\ \/ pc'[p] = "decode"
           \/ pc'[p] \in {"release", "report"} /\ outcome'[p] = "rejected"
    BY <1>1
    DEF ReadIntoViper, Move, End, Return, AfterTransaction, LoadingInv,
        TransactionInv, TypeOK, Processes
  <1>4. /\ opts' = opts /\ viper' = viper /\ disk' = disk /\ changes' = changes
        /\ floor' = floor /\ configFiles' = configFiles
        /\ fileStamps' = fileStamps
    BY <1>1 DEF buildVars, diskVars, storedVars
  <1>5. PartlyRead /\ (p \in Witnesses => ReadSince(p))
    BY <1>1 DEF LoadingInv, ReadingInv, ReadingOf
  <1>6. engine \in Contents
    BY DEF LoadingInv, TransactionInv, TypeOK
  <1>7. ReadTypes' /\ read'.stamp <= changes + 1
    <2>1. CASE read' = NotRead
      <3>1. /\ NotRead \in [layer : Nat \ {0}, stamp : 0 .. MaxChanges + 1,
                            merged : Contents, stamps : Contents,
                            files : SUBSET Files]
            /\ NotRead.layer = 1 /\ NotRead.stamp = 0 /\ changes \in Nat
        BY ContentsAreVersions DEF LoadingInv, DiskGrows, NotRead
      <3>2. Len(opts.configFiles) \in Nat
        BY <1>1, ReachedFiles DEF LoadingInv, BuildInv, BuildTypes
      <3>3. configFiles \subseteq Files /\ fileStamps \in Contents
        BY DEF LoadingInv, ReadTypes
      <3> QED
        BY <1>4, <2>1, <3>1, <3>2, <3>3 DEF ReadTypes
    <2>2. CASE read' = read
      BY <1>4, <2>2 DEF LoadingInv, ReadTypes, DiskGrows
    <2>3. CASE StampFound(p)
      BY <1>5, <2>3, StampFoundStep DEF LoadingInv, DiskGrows
    <2> QED
      BY <2>1, <2>2, <2>3
      DEF EndsRead, ReadFails, Forget, ReadDone, NotFound, ReadFound
  <1>8. DiskGrows'
    BY <1>4, <1>7 DEF LoadingInv, DiskGrows
  <1>9. StoredInv'
    BY <1>1, <1>3, <1>4 DEF LoadingInv, StoredInv, RequiredIn, Nothing
  <1>10. pc'[p] = "decode" => AllRead' /\ (p \in Witnesses => NotOlder(engine, p)')
    <2>1. CASE ReadFails(p) \/ (ReadFound(p) /\ disk[viper.file] \in Garbled)
      BY <2>1 DEF ReadFails, ReadFound, EndRead
    <2> QED
      BY <1>5, <1>6, <2>1, ReadDoneStep, NotFoundStep, StampFoundStep
      DEF EndsRead, LoadingInv
  <1>11. ReadingOf(p)'
    BY <1>3, <1>10 DEF ReadingOf, Gated, Committing
  <1>12. Reached' = Reached
    BY <1>4 DEF Reached, Followed, Named
  <1>13. \A q \in Processes \ {p} : ReadingOf(q)'
    BY <1>1, <1>2, <1>3, <1>4, <1>8, <1>12, ReadsAlone
  <1>14. ReadingInv'
    BY <1>11, <1>13 DEF ReadingInv
  <1> QED
    BY <1>2, <1>7, <1>8, <1>9, <1>14 DEF LoadingInv

(* A transaction that commits has in the engine what it publishes.         *)
LEMMA AtCount ==
  ASSUME LoadingInv, NEW p \in Processes, pc[p] = "count"
  PROVE  /\ AllRead /\ (p \in Witnesses => NotOlder(engine, p))
         /\ engine \in Contents
         /\ cand[p] = engine /\ current = engine /\ change[p].current = engine
         /\ build.stage = "load" /\ viper \in Vipers
         /\ \A q \in Processes \ {p} : pc[q] \notin {"read"} \cup HasRead
  <1>1. AllRead /\ (p \in Witnesses => NotOlder(engine, p))
    BY DEF LoadingInv, ReadingInv, ReadingOf, Gated, Committing
  <1>2. /\ engine \in Contents
        /\ cand[p] = engine /\ current = engine /\ change[p].current = engine
    BY DEF LoadingInv, TransactionInv, TypeOK, EngineBelongsToTransaction,
           ChangesAgree, Gated, Committing
  <1>3. build.stage = "load" /\ viper \in Vipers
    BY LoadHasBegun DEF LoadingInv, HasRead, Gated, Committing
  <1>4. \A q \in Processes \ {p} : pc[q] \notin {"read"} \cup HasRead
    BY OneTransaction DEF LoadingInv, HasRead, Gated, Committing
  <1> QED
    BY <1>1, <1>2, <1>3, <1>4

(* The rest of those that do not commit.                                   *)
LEMMA CommitsAlone ==
  ASSUME LoadingInv, NEW p \in Processes, pc[p] = "count", BuildInv', DiskGrows',
         UNCHANGED <<opts, viper, floor>>,
         \A q \in Processes \ {p} :
           pc'[q] = pc[q] /\ outcome'[q] = outcome[q] /\ change'[q] = change[q]
  PROVE  \A q \in Processes \ {p} : ReadingOf(q)'
  <1> SUFFICES ASSUME NEW q \in Processes \ {p} PROVE ReadingOf(q)'
    OBVIOUS
  <1>1. pc[q] \notin {"read"} \cup HasRead
    BY AtCount
  <1>2. ASSUME q \in Witnesses PROVE \A f \in Files : floor'[q][f] <= floor[q][f]
    BY <1>2, ContentsAreVersions DEF LoadingInv
  <1>3. Reached' = Reached
    BY DEF Reached, Followed, Named
  <1> QED
    BY <1>1, <1>2, <1>3, ReadingStays

(* Storing the files, once the snapshot they belong to is stored.          *)
LEMMA StoreFilesStep ==
  ASSUME LoadingInv, NEW p \in Processes, StoreFiles(p)
  PROVE  LoadingInv'
  <1>1. /\ pc[p] = "count" /\ read.files # {} /\ configFiles' = read.files
        /\ UNCHANGED <<vars, buildVars, diskVars, read, fileStamps>>
    BY DEF StoreFiles
  <1>2. TransactionInv' /\ BuildInv'
    <2>1. LoadingStep
      BY DEF LoadingStep, Works
    <2> QED
      BY <2>1, TransactionInvStep, LoadingStepIsTransactionStep, BuildStep
      DEF LoadingInv
  <1>3. /\ pc' = pc /\ outcome' = outcome /\ change' = change
        /\ current' = current /\ engine' = engine /\ opts' = opts
        /\ viper' = viper /\ disk' = disk /\ changes' = changes
        /\ floor' = floor /\ read' = read /\ fileStamps' = fileStamps
    BY <1>1 DEF vars, callVars, configVars, buildVars, diskVars
  <1>4. DiskGrows'
    BY <1>3 DEF LoadingInv, DiskGrows
  <1>5. ReadTypes'
    BY <1>1, <1>3 DEF LoadingInv, ReadTypes
  <1>6. Reached' = Reached
    BY <1>3 DEF Reached, Followed, Named
  <1>7. ReadingOf(p)'
    <2>1. AllRead'
      BY <1>1, <1>3, AtCount DEF AllRead, RequiredIn, Nothing
    <2>2. p \in Witnesses => NotOlder(engine, p)'
      BY <1>1, <1>3, <1>6, AtCount DEF NotOlder
    <2> QED
      BY <1>1, <1>3, <2>1, <2>2 DEF ReadingOf
  <1>8. \A q \in Processes \ {p} : ReadingOf(q)'
    BY <1>1, <1>2, <1>3, <1>4, CommitsAlone
  <1>9. ReadingInv'
    BY <1>7, <1>8 DEF ReadingInv
  <1>10. StoredInv'
    <2>1. current # None
      BY <1>1, AtCount, ReloadAssumption
    <2> QED
      BY <1>1, <1>3, <2>1 DEF LoadingInv, StoredInv, RequiredIn, Nothing
  <1> QED
    BY <1>2, <1>4, <1>5, <1>9, <1>10 DEF LoadingInv

(* The end of a commit: what is stored is what the snapshot was read from. *)
LEMMA CommitStep ==
  ASSUME LoadingInv, NEW p \in Processes, Commit(p)
  PROVE  LoadingInv'
  <1>1. /\ pc[p] = "count" /\ Count(p)
        /\ read.files \in {{}, configFiles}
        /\ fileStamps' = IF read.files = {} THEN fileStamps ELSE read.stamps
        /\ read' = NotRead
        /\ UNCHANGED <<buildVars, diskVars, configFiles>>
    BY DEF Commit, Count, End, Move, Forget
  <1>2. TransactionInv' /\ BuildInv'
    <2>1. LoadingStep
      BY DEF LoadingStep, Works
    <2> QED
      BY <2>1, TransactionInvStep, LoadingStepIsTransactionStep, BuildStep
      DEF LoadingInv
  <1>3. /\ opts' = opts /\ viper' = viper /\ disk' = disk
        /\ changes' = changes /\ floor' = floor /\ configFiles' = configFiles
    BY <1>1 DEF buildVars, diskVars
  <1>4. /\ current' = current /\ change' = change
        /\ pc'[p] \in {"release", "ready"}
        /\ \A q \in Processes \ {p} : pc'[q] = pc[q] /\ outcome'[q] = outcome[q]
    BY <1>1
    DEF Count, End, Move, Return, AfterTransaction, LoadingInv, TransactionInv,
        TypeOK, Processes
  <1>5. DiskGrows' /\ ReadTypes'
    <2>1. /\ NotRead \in [layer : Nat \ {0}, stamp : 0 .. MaxChanges + 1,
                          merged : Contents, stamps : Contents,
                          files : SUBSET Files]
          /\ NotRead.layer = 1 /\ NotRead.stamp = 0 /\ changes \in Nat
      BY ContentsAreVersions DEF LoadingInv, DiskGrows, NotRead
    <2>2. Len(opts.configFiles) \in Nat
      BY <1>1, AtCount, ReachedFiles DEF LoadingInv, BuildInv
    <2>3. configFiles \subseteq Files /\ fileStamps' \in Contents
      BY <1>1 DEF LoadingInv, ReadTypes
    <2>4. ReadTypes'
      BY <1>1, <1>3, <2>1, <2>2, <2>3 DEF ReadTypes
    <2>5. DiskGrows'
      BY <1>1, <1>3, <2>1 DEF LoadingInv, DiskGrows
    <2> QED
      BY <2>4, <2>5
  <1>6. ReadingOf(p)'
    <2>1. Reached' = Reached
      BY <1>3 DEF Reached, Followed, Named
    <2>2. change'[p].current = engine /\ engine \in Contents
      BY <1>1, <1>4, AtCount
    <2>3. p \in Witnesses => \A f \in Reached' : engine[f] >= floor'[p][f]
      BY <1>1, <1>3, <2>1, AtCount DEF NotOlder
    <2>4. p \in Witnesses => NotOlder(change[p].current, p)'
      BY <2>2, <2>3 DEF NotOlder
    <2> QED
      BY <1>4, <2>2, <2>4 DEF ReadingOf, Gated, Committing
  <1>7. \A q \in Processes \ {p} : ReadingOf(q)'
    BY <1>1, <1>2, <1>3, <1>4, <1>5, CommitsAlone
  <1>8. ReadingInv'
    BY <1>6, <1>7 DEF ReadingInv
  <1>9. StoredInv'
    <2>1. AllRead /\ current = engine
      BY <1>1, AtCount
    <2>2. configFiles # {} =>
            /\ read.files = configFiles
            /\ configFiles = {f \in Files : current[f] # 0}
            /\ opts.configFiles # <<>> =>
                 \A f \in Files : fileStamps'[f] <= current[f]
      BY <1>1, <2>1 DEF AllRead
    <2>3. configFiles \subseteq Files
      BY DEF LoadingInv, ReadTypes
    <2> QED
      BY <1>3, <1>4, <2>2, <2>3
      DEF LoadingInv, StoredInv, RequiredIn, Nothing
  <1> QED
    BY <1>2, <1>5, <1>8, <1>9 DEF LoadingInv

(* The steps that have nothing to do with files.                           *)
LEMMA ElsewhereStep ==
  ASSUME LoadingInv, LoadingStep, Elsewhere
  PROVE  LoadingInv'
  <1>1. TransactionInv' /\ BuildInv'
    BY TransactionInvStep, LoadingStepIsTransactionStep, BuildStep DEF LoadingInv
  <1>2. /\ opts' = opts /\ viper' = viper /\ build' = build /\ disk' = disk
        /\ changes' = changes /\ configFiles' = configFiles
        /\ fileStamps' = fileStamps
    BY DEF Elsewhere, buildVars, storedVars
  <1>3. \A q \in Processes : Quiet(q)
    BY QuietStep DEF Elsewhere, LoadingInv
  <1>4. read' = read \/ (read' = NotRead /\ \E c \in Processes : pc[c] = "recheck")
    BY DEF Elsewhere
  <1>5. NotRead \in [layer : Nat \ {0}, stamp : 0 .. MaxChanges + 1,
                     merged : Contents, stamps : Contents, files : SUBSET Files]
        /\ NotRead.layer = 1 /\ NotRead.stamp = 0 /\ changes \in Nat
    BY ContentsAreVersions DEF LoadingInv, DiskGrows, NotRead
  <1>6. Len(opts.configFiles) \in Nat
    BY DEF LoadingInv, BuildInv, BuildTypes, OptionTypes
  <1>7. ReadTypes'
    BY <1>2, <1>4, <1>5, <1>6 DEF LoadingInv, ReadTypes
  <1>8. /\ floor' \in [Witnesses -> Contents]
        /\ \A c \in Witnesses : \A f \in Files : floor'[c][f] <= disk[f]
        /\ \A c \in Witnesses : floor'[c] = floor[c] \/ pc'[c] = "entry"
    <2>1. CASE floor' = floor
      BY <2>1 DEF LoadingInv, DiskGrows
    <2>2. ASSUME NEW c \in Callers, pc'[c] = "entry",
                 floor' = [x \in Witnesses |-> IF x = c THEN disk ELSE floor[x]]
          PROVE  /\ floor' \in [Witnesses -> Contents]
                 /\ \A x \in Witnesses : \A f \in Files : floor'[x][f] <= disk[f]
                 /\ \A x \in Witnesses : floor'[x] = floor[x] \/ pc'[x] = "entry"
      BY <2>2, ContentsAreVersions DEF LoadingInv, DiskGrows
    <2> QED
      BY <2>1, <2>2 DEF Elsewhere
  <1>9. DiskGrows'
    BY <1>2, <1>4, <1>5, <1>8 DEF LoadingInv, DiskGrows
  <1>10. Reached' = Reached
    BY <1>2 DEF Reached, Followed, Named
  <1>11. ASSUME NEW q \in Processes PROVE ReadingOf(q)'
    <2>1. CASE pc'[q] = "read"
      <3>1. ASSUME read' = NotRead
            PROVE  PartlyRead' /\ (q \in Witnesses => ReadSince(q)')
        <4>1. \A i \in 1 .. read'.layer - 1 : FALSE
          BY <1>5, <3>1
        <4>2. \A f \in Files : read'.stamps[f] = 0 /\ read'.merged[f] = 0
          BY <3>1 DEF NotRead, Nothing
        <4>3. read'.files = {} /\ read'.stamp = 0
          BY <3>1 DEF NotRead
        <4> QED
          BY <4>1, <4>2, <4>3 DEF PartlyRead, ReadSince
      <3>2. ASSUME build.stage = "load", read' = read, pc[q] = "read"
            PROVE  PartlyRead' /\ (q \in Witnesses => ReadSince(q)')
        <4>1. PartlyRead /\ (q \in Witnesses => ReadSince(q))
          BY <3>2 DEF LoadingInv, ReadingInv, ReadingOf
        <4>2. PartlyRead'
          BY <1>2, <3>2, <4>1 DEF PartlyRead, File
        <4>3. q \in Witnesses => floor'[q] = floor[q]
          BY <1>8, <2>1
        <4>4. q \in Witnesses => ReadSince(q)'
          BY <1>2, <3>2, <4>1, <4>3 DEF ReadSince
        <4> QED
          BY <4>2, <4>4
      <3> QED
        BY <1>2, <2>1, <3>1, <3>2 DEF ReadingOf, Elsewhere, Gated, Committing
    <2>2. CASE pc'[q] # "read"
      <3>1. pc'[q] \in HasRead =>
              pc[q] \in HasRead /\ UNCHANGED <<engine, read, configFiles>>
        <4> SUFFICES ASSUME pc'[q] \in HasRead
                     PROVE  pc[q] \in HasRead /\ UNCHANGED <<engine, read, configFiles>>
          OBVIOUS
        <4>1. pc[q] \in HasRead /\ engine' = engine
          BY <1>3 DEF Quiet
        <4>2. ~ \E c \in Processes : pc[c] = "recheck"
          BY <4>1, OneTransaction DEF LoadingInv, HasRead, Gated, Committing
        <4> QED
          BY <1>2, <1>4, <4>1, <4>2
      <3>2. (pc'[q] \in HasEnded /\ outcome'[q] = "published") =>
              /\ pc[q] \in HasEnded
              /\ outcome[q] = "published"
              /\ change'[q] = change[q]
        BY <1>3 DEF Quiet
      <3>3. (q \in Witnesses /\ pc'[q] \in HasRead \cup HasEnded) =>
              \A f \in Files : floor'[q][f] <= floor[q][f]
        BY <1>8, ContentsAreVersions
        DEF LoadingInv, HasRead, HasEnded, Gated, Committing
      <3> QED
        BY <1>1, <1>2, <1>9, <1>10, <2>2, <3>1, <3>2, <3>3, ReadingStays
    <2> QED
      BY <2>1, <2>2
  <1>12. ReadingInv'
    BY <1>11 DEF ReadingInv
  <1>13. StoredInv'
    <2>1. CASE current' = current
      <3>1. (\A q \in Processes : pc'[q] # "count") =>
              \A q \in Processes : pc[q] # "count"
        BY <1>3 DEF Quiet
      <3> QED
        BY <1>2, <2>1, <3>1 DEF LoadingInv, StoredInv, RequiredIn, Nothing
    <2>2. ASSUME NEW p \in Processes, pc[p] = "store", pc'[p] = "count",
                 current' = cand[p]
          PROVE  StoredInv'
      <3>1. /\ cand[p] = engine /\ engine \in Contents
            /\ RequiredIn(engine) /\ (opts.allowMissingFile \/ engine # Nothing)
        BY <2>2
        DEF LoadingInv, TransactionInv, TypeOK, EngineBelongsToTransaction,
            ReadingInv, ReadingOf, AllRead, Gated, Committing
      <3>2. current' # None
        BY <2>2, <3>1, ReloadAssumption
      <3>3. RequiredIn(current)' /\ (opts.allowMissingFile \/ current' # Nothing)
        BY <1>2, <2>2, <3>1 DEF RequiredIn
      <3> QED
        BY <1>2, <2>2, <3>2, <3>3 DEF StoredInv, Nothing
    <2>3. Builder \in Processes
      BY DEF Processes
    <2> QED
      BY <1>3, <2>1, <2>2, <2>3 DEF Quiet
  <1> QED
    BY <1>1, <1>7, <1>9, <1>12, <1>13 DEF LoadingInv

(* Until the load nothing is read, so nothing is said of it.               *)
LEMMA BeforeLoadStep ==
  ASSUME LoadingInv, Prepare
  PROVE  LoadingInv'
  <1>1. UNCHANGED <<vars, given, diskVars, read, storedVars>>
    BY DEF Prepare
  <1>2. TransactionInv' /\ BuildInv'
    <2>1. LoadingStep
      BY DEF LoadingStep
    <2> QED
      BY <2>1, TransactionInvStep, LoadingStepIsTransactionStep, BuildStep
      DEF LoadingInv
  <1>3. build.stage # "load"
    BY DEF Prepare, Adopt, ApplyOption, RunSetup
  <1>4. /\ pc[Builder] = "read" /\ read = NotRead /\ current = None
        /\ configFiles = {} /\ fileStamps = Nothing
    BY <1>3 DEF LoadingInv, BuildInv, LoadComesLast
  <1>5. /\ pc' = pc /\ read' = NotRead /\ current' = None /\ configFiles' = {}
        /\ fileStamps' = Nothing /\ disk' = disk /\ changes' = changes
        /\ floor' = floor
    BY <1>1, <1>4 DEF vars, callVars, configVars, diskVars, storedVars
  <1>6. DiskGrows'
    BY <1>1, <1>5 DEF LoadingInv, DiskGrows
  <1>7. /\ NotRead \in [layer : Nat \ {0}, stamp : 0 .. MaxChanges + 1,
                        merged : Contents, stamps : Contents, files : SUBSET Files]
        /\ NotRead.layer = 1 /\ NotRead.stamp = 0 /\ Nothing \in Contents
    BY ContentsAreVersions DEF LoadingInv, NotRead
  <1>8. Len(opts'.configFiles) \in Nat
    BY <1>2 DEF BuildInv, BuildTypes, OptionTypes
  <1>9. ReadTypes'
    BY <1>5, <1>7, <1>8 DEF ReadTypes
  <1>10. PartlyRead' /\ \A c \in Witnesses : ReadSince(c)'
    <2>1. \A i \in 1 .. read'.layer - 1 : FALSE
      BY <1>5, <1>7
    <2>2. \A f \in Files : read'.stamps[f] = 0 /\ read'.merged[f] = 0
      BY <1>5 DEF NotRead, Nothing
    <2>3. read'.files = {} /\ read'.stamp = 0
      BY <1>5 DEF NotRead
    <2> QED
      BY <2>1, <2>2, <2>3 DEF PartlyRead, ReadSince
  <1>11. \A p \in Processes : pc'[p] \in {"read", "idle"}
    BY <1>4, <1>5 DEF LoadingInv, TransactionInv, Construction, Processes
  <1>12. ReadingInv'
    BY <1>10, <1>11 DEF ReadingInv, ReadingOf, Gated, Committing
  <1>13. StoredInv'
    BY <1>5 DEF StoredInv
  <1> QED
    BY <1>2, <1>6, <1>9, <1>12, <1>13 DEF LoadingInv

(* Every step keeps the invariant.                                         *)
LEMMA LoadingInvStep ==
  ASSUME LoadingInv, LoadingStep
  PROVE  LoadingInv'
  BY LoadingStepIsOneOf, DiskStep, ReadsMoreStep, FindStep, EndsReadStep,
     StoreFilesStep, CommitStep, ElsewhereStep, BeforeLoadStep
  DEF LoadingInv

(***************************************************************************)
(* The invariant.                                                          *)
(***************************************************************************)

(* A file written in place has a new version, a deleted one none.          *)
LEMMA LoadingNextIsLoadingStep ==
  ASSUME LoadingNext
  PROVE  LoadingStep
  <1>1. ASSUME NEW f \in Files, Write(f) \/ Delete(f) PROVE DiskChanges
    <2>1. {f} \in SUBSET Files
      OBVIOUS
    <2> QED
      BY <1>1, <2>1 DEF Write, Delete, DiskChanges
  <1>2. ASSUME NEW c \in Callers, CallReload(c) PROVE Calling
    BY <1>2 DEF CallReload, Calling
  <1> QED
    BY <1>1, <1>2 DEF LoadingNext, LoadingStep, LoadingRest

(* What the proofs need of Reload holds when it starts.                    *)
LEMMA TransactionInvInit ==
  ASSUME Init
  PROVE  TransactionInv
  BY IInvInit DEF IInv, TransactionInv

(* Before its constructor runs, a Config satisfies the rest too.           *)
LEMMA LoadingInvInit ==
  ASSUME LoadingInit
  PROVE  LoadingInv
  <1>1. TransactionInv
    BY TransactionInvInit DEF LoadingInit
  <1>2. /\ MaxChanges \in Nat /\ Contents = [Files -> 0 .. MaxChanges + 1]
        /\ Nothing \in Contents
    BY LoadingAssumption DEF Nothing
  <1>3. Len(given) \in Nat
    BY GivenOptions DEF LoadingInit
  <1>4. BuildTypes
    <2>1. OptionTypes
      BY LoadingAssumption DEF LoadingInit, DefaultOptions, OptionTypes
    <2>2. viper = Nil \/ viper \in Vipers
      BY LoadingAssumption DEF LoadingInit
    <2> QED
      BY <1>3, <2>1, <2>2 DEF LoadingInit, BuildTypes
  <1>5. OptionsTaken
    <2>1. AppliedSoFar = 0
      BY DEF LoadingInit, AppliedSoFar
    <2>2. \A i \in 1 .. AppliedSoFar : FALSE
      BY <2>1
    <2>3. opts.viperSetup = <<>> /\ ~opts.allowMissingFile
      BY DEF LoadingInit, DefaultOptions
    <2>4. Len(opts.viperSetup) <= AppliedSoFar
      BY <2>1, <2>3
    <2> QED
      BY <2>2, <2>3, <2>4, Zenon DEF OptionsTaken
  <1>6. /\ pc = [p \in Processes |-> IF p = Builder THEN "read" ELSE "idle"]
        /\ current = None /\ read = NotRead /\ configFiles = {}
        /\ fileStamps = Nothing /\ build.stage # "load"
    BY DEF LoadingInit, Init
  <1>7. LoadComesLast
    BY <1>6 DEF LoadComesLast, Processes
  <1>8. NotRead \in [layer : Nat \ {0}, stamp : 0 .. MaxChanges + 1,
                     merged : Contents, stamps : Contents, files : SUBSET Files]
        /\ NotRead.layer = 1 /\ NotRead.stamp = 0
    BY <1>2 DEF NotRead
  <1>9. ReadTypes
    <2>1. Len(opts.configFiles) \in Nat
      BY DEF LoadingInit, DefaultOptions
    <2> QED
      BY <1>2, <1>6, <1>8, <2>1 DEF ReadTypes
  <1>10. DiskGrows
    <2>1. disk \in Contents /\ changes = 0 /\ \A f \in Files : disk[f] \in 0 .. 1
      BY <1>2 DEF LoadingInit
    <2>2. /\ floor \in [Witnesses -> Contents]
          /\ \A c \in Witnesses : \A f \in Files : floor[c][f] = 0
      BY <1>2 DEF LoadingInit, Nothing
    <2> QED
      BY <1>2, <1>6, <1>8, <2>1, <2>2 DEF DiskGrows
  <1>11. ReadingInv
    BY <1>6 DEF ReadingInv, ReadingOf, Gated, Committing
  <1>12. StoredInv
    BY <1>6 DEF StoredInv
  <1> QED
    BY <1>1, <1>4, <1>5, <1>7, <1>9, <1>10, <1>11, <1>12 DEF LoadingInv, BuildInv

(* Every reachable state satisfies the invariant: at each point of a       *)
(* transaction it says which files have been read, how old what was read   *)
(* may be, and what the stored files and stamps say of the snapshot.       *)
THEOREM LoadingInvariant == LoadingSpec => []LoadingInv
  <1>1. LoadingInit => LoadingInv
    BY LoadingInvInit
  <1>2. LoadingInv /\ [LoadingNext]_loadingVars => LoadingInv'
    BY LoadingNextIsLoadingStep, LoadingInvStep DEF LoadingStep
  <1> QED
    BY <1>1, <1>2, PTL DEF LoadingSpec

(***************************************************************************)
(* What follows from it.                                                   *)
(***************************************************************************)

(* The types, and the bounds that the options check.                       *)
LEMMA InvImpliesLoadingTypeOK ==
  ASSUME LoadingInv
  PROVE  LoadingTypeOK
  <1>1. Len(given) \in Nat /\ Len(opts.configFiles) \in Nat
    BY GivenOptions DEF LoadingInv, BuildInv, BuildTypes, OptionTypes
  <1>2. build.next \in 1 .. Len(given) + 1
    BY DEF LoadingInv, BuildInv, BuildTypes
  <1>3. build.stage \in {"adopt", "options", "setup", "load", "refused"}
    BY DEF LoadingInv, BuildInv, BuildTypes
  <1>4. opts.debounce >= 0 /\ opts.eventBuffer >= 1
    BY DEF LoadingInv, BuildInv, BuildTypes, OptionTypes
  <1>5. viper = Nil \/ viper.file \in Files \cup {Nil}
    BY DEF LoadingInv, BuildInv, BuildTypes, Vipers
  <1>6. /\ read.layer \in 1 .. Len(opts.configFiles) + 1
        /\ read.stamp \in Versions
        /\ {read.merged, read.stamps, fileStamps} \subseteq Contents
        /\ read.files \cup configFiles \subseteq Files
    BY <1>1 DEF LoadingInv, ReadTypes, Versions
  <1>7. disk \in Contents /\ floor \in [Witnesses -> Contents]
    BY DEF LoadingInv, DiskGrows
  <1> QED
    BY <1>2, <1>3, <1>4, <1>5, <1>6, <1>7 DEF LoadingTypeOK

(* A snapshot is published by a load, so once every option was applied.    *)
LEMMA InvImpliesRequired ==
  ASSUME LoadingInv
  PROVE  RequiredFilesAreRead
  <1> SUFFICES ASSUME current # None
               PROVE  /\ \A f \in Files :
                           (\E i \in DOMAIN given : given[i] = WithConfigFile(f))
                             => current[f] # 0
                      /\ WithAllowMissingFile(TRUE) \in Range(given)
                           \/ current # Nothing
    BY DEF RequiredFilesAreRead
  <1>1. AppliedSoFar = Len(given)
    BY DEF LoadingInv, BuildInv, LoadComesLast, AppliedSoFar
  <1>2. DOMAIN given = 1 .. Len(given)
    BY GivenOptions DEF LoadingInv, BuildInv, BuildTypes
  <1>3. RequiredIn(current) /\ (opts.allowMissingFile \/ current # Nothing)
    BY DEF LoadingInv, StoredInv
  <1>4. ASSUME NEW f \in Files, NEW i \in DOMAIN given,
               given[i] = WithConfigFile(f)
        PROVE  current[f] # 0
    <2>1. [path |-> f, optional |-> FALSE] \in Range(opts.configFiles)
      BY <1>1, <1>2, <1>4 DEF LoadingInv, BuildInv, OptionsTaken
    <2>2. PICK j \in DOMAIN opts.configFiles :
                 opts.configFiles[j] = [path |-> f, optional |-> FALSE]
      BY <2>1 DEF Range
    <2> QED
      BY <1>3, <2>2 DEF RequiredIn
  <1>5. opts.allowMissingFile => WithAllowMissingFile(TRUE) \in Range(given)
    BY DEF LoadingInv, BuildInv, OptionsTaken
  <1> QED
    BY <1>3, <1>4, <1>5

(* Outside the gate no commit is storing anything.                         *)
LEMMA InvImpliesStored ==
  ASSUME LoadingInv
  PROVE  FilesBelongToSnapshot /\ StampsAreNotNewer
  <1>1. ~publishMu => \A p \in Processes : pc[p] # "count"
    BY DEF LoadingInv, TransactionInv, OneInGate, Gated, Committing
  <1> QED
    BY <1>1
    DEF LoadingInv, StoredInv, FilesBelongToSnapshot, StampsAreNotNewer

(* What a call published is not older than what was there when it began.   *)
LEMMA InvImpliesSeesWrites ==
  ASSUME LoadingInv
  PROVE  ReloadSeesEarlierWrites
  <1> SUFFICES ASSUME NEW c \in Witnesses, pc[c] = "emit",
                      outcome[c] = "published", NEW f \in Followed
               PROVE  change[c].current[f] >= floor[c][f]
    BY DEF ReloadSeesEarlierWrites
  <1>1. c \in Processes
    BY LoadingAssumption DEF Processes
  <1>2. NotOlder(change[c].current, c)
    BY <1>1 DEF LoadingInv, ReadingInv, ReadingOf
  <1>3. f \in Reached
    BY DEF Followed, Reached
  <1> QED
    BY <1>2, <1>3 DEF NotOlder

(* With a mistake among them the options are never all applied, so no setup *)
(* runs and nothing is read.                                               *)
LEMMA MistakesStep ==
  ASSUME LoadingInv, LoadingStep, \E i \in DOMAIN given : Mistaken(given[i])
  PROVE  UNCHANGED <<vars, viper>>
  <1>1. DOMAIN given = 1 .. Len(given)
    BY GivenOptions DEF LoadingInv, BuildInv, BuildTypes
  <1>2. build.stage \notin {"setup", "load"}
    <2> SUFFICES ASSUME build.stage \in {"setup", "load"} PROVE FALSE
      OBVIOUS
    <2>1. AppliedSoFar = Len(given)
      BY DEF AppliedSoFar
    <2>2. \A i \in 1 .. AppliedSoFar : ~Mistaken(given[i])
      BY DEF LoadingInv, BuildInv, OptionsTaken
    <2> QED
      BY <1>1, <2>1, <2>2
  <1>3. pc[Builder] = "read" /\ Builder \in Processes
    BY <1>2 DEF LoadingInv, BuildInv, LoadComesLast, Processes
  <1>4. CASE Prepare
    BY <1>2, <1>4 DEF Prepare, Adopt, ApplyOption, RunSetup
  <1>5. CASE DiskChanges
    BY <1>5 DEF DiskChanges, ChangeDisk, buildVars
  <1>6. CASE Elsewhere
    <2>1. pc'[Builder] = "read" /\ TransactionStep
      BY <1>3, <1>6 DEF Elsewhere
    <2>2. UNCHANGED vars
      BY <1>3, <2>1, NothingBeforeLoad DEF LoadingInv
    <2> QED
      BY <1>6, <2>2 DEF Elsewhere, buildVars
  <1>7. ASSUME NEW p \in Processes,
               ReadsMore(p) \/ Find(p) \/ EndsRead(p)
        PROVE  FALSE
    BY <1>2, <1>7
    DEF ReadsMore, Stat, SkipFile, ReadFile, ReadFound, Find, EndsRead,
        ReadFails, ReadDone, NotFound, StampFound, ReadsFile, Discovers, Reads
  <1>8. ASSUME NEW p \in Processes, StoreFiles(p) \/ Commit(p) PROVE FALSE
    <2>1. pc[p] = "count"
      BY <1>8 DEF StoreFiles, Commit, Count, End, Move
    <2> QED
      BY <1>2, <2>1, AtCount DEF LoadingInv
  <1> QED
    BY <1>4, <1>5, <1>6, <1>7, <1>8, LoadingStepIsOneOf DEF LoadingInv

(* Every variable holds what its Go counterpart can hold, and the bounds   *)
(* that the options check are those of the options in force.               *)
THEOREM LoadingTypes == LoadingSpec => []LoadingTypeOK
  <1>1. LoadingInv => LoadingTypeOK
    BY InvImpliesLoadingTypeOK
  <1> QED
    BY <1>1, LoadingInvariant, PTL

(* No snapshot is ever current that was not read from every required file, *)
(* nor one read from none unless missing files are allowed.                *)
THEOREM RequiredFilesAreAlwaysRead == LoadingSpec => []RequiredFilesAreRead
  <1>1. LoadingInv => RequiredFilesAreRead
    BY InvImpliesRequired
  <1> QED
    BY <1>1, LoadingInvariant, PTL

(* The files that are stored are those the current snapshot was read from. *)
THEOREM StoredFilesAreTheSnapshots == LoadingSpec => []FilesBelongToSnapshot
  <1>1. LoadingInv => FilesBelongToSnapshot
    BY InvImpliesStored
  <1> QED
    BY <1>1, LoadingInvariant, PTL

(* No named file is stamped with a version newer than what was read of it. *)
THEOREM NoChangeHidesBehindAStamp == LoadingSpec => []StampsAreNotNewer
  <1>1. LoadingInv => StampsAreNotNewer
    BY InvImpliesStored
  <1> QED
    BY <1>1, LoadingInvariant, PTL

(* What was written before Reload was called is in what it publishes.      *)
THEOREM WritesBeforeACallAreSeen == LoadingSpec => []ReloadSeesEarlierWrites
  <1>1. LoadingInv => ReloadSeesEarlierWrites
    BY InvImpliesSeesWrites
  <1> QED
    BY <1>1, LoadingInvariant, PTL

(* A constructor given a mistaken option leaves the engine and every part  *)
(* of the transaction as they were.                                        *)
THEOREM MistakenOptionsTouchNothing == LoadingSpec => MistakesTouchNothing
  <1>1. LoadingInv /\ [LoadingNext]_loadingVars =>
          [(\E i \in DOMAIN given : Mistaken(given[i]))
             => UNCHANGED <<vars, viper>>]_loadingVars
    BY LoadingNextIsLoadingStep, MistakesStep
  <1> QED
    BY <1>1, LoadingInvariant, PTL DEF LoadingSpec, MistakesTouchNothing

(* Overlapping callers hold changes that fit together, whichever files they *)
(* were read from and whether or not there is a validator.                 *)
THEOREM LoadedChangesAreChained == LoadingSpec => []ChangesChain
  <1>1. LoadingInv => ChangesChain
    BY AgreeingChangesChain DEF LoadingInv, TransactionInv
  <1> QED
    BY <1>1, LoadingInvariant, PTL

(* What FrozenByClose says of the snapshot, and with it of the files and   *)
(* stamps that Status reports.                                             *)
Freezes == Closed' /\ UNCHANGED <<current, generation, successes, storedVars>>

(* StoreFiles and Commit are taken by an open Config only.                 *)
LEMMA FreezesStep ==
  ASSUME LoadingInv, LoadingStep, Closed
  PROVE  Freezes
  <1>1. Closed' /\ UNCHANGED <<current, generation, successes>>
    <2>1. CASE [Next]_vars
      BY <2>1, FrozenStep DEF LoadingInv, TransactionInv
    <2>2. CASE \E p \in Processes : Unvalidated(p)
      BY <2>2 DEF Unvalidated, configVars, counters, lifecycleVars, Closed
    <2>3. CASE SlotMoves
      BY <2>3
      DEF SlotMoves, BeginWatch, BeginWatchOutcome, EndWatch, configVars,
          counters, Closed
    <2> QED
      BY <2>1, <2>2, <2>3, LoadingStepIsTransactionStep
      DEF LoadingInv, TransactionStep
  <1>2. ASSUME NEW p \in Processes, StoreFiles(p) \/ Commit(p) PROVE FALSE
    <2>1. pc[p] = "count"
      BY <1>2 DEF StoreFiles, Commit, Count, End, Move
    <2> QED
      BY <2>1
      DEF LoadingInv, TransactionInv, CommitsOnlyWhileOpen, Committing
  <1>3. ASSUME NEW p \in Processes,
               ReadsMore(p) \/ Find(p) \/ EndsRead(p)
        PROVE  UNCHANGED storedVars
    BY <1>3
    DEF ReadsMore, Stat, SkipFile, ReadFile, ReadFound, ReadsOn, Find, EndsRead,
        ReadFails, ReadDone, NotFound, StampFound, EndRead
  <1>4. Prepare \/ DiskChanges \/ Elsewhere => UNCHANGED storedVars
    BY DEF Prepare, DiskChanges, ChangeDisk, Elsewhere
  <1> QED
    BY <1>1, <1>2, <1>3, <1>4, LoadingStepIsOneOf DEF LoadingInv, Freezes

(* Once closing has begun, neither the snapshot nor its counters nor the   *)
(* files and stamps stored for it change, and it is never undone.          *)
THEOREM CloseFreezesFiles == LoadingSpec => [][Closed => Freezes]_loadingVars
  <1>1. LoadingInv /\ [LoadingNext]_loadingVars => [Closed => Freezes]_loadingVars
    BY LoadingNextIsLoadingStep, FreezesStep
  <1> QED
    BY <1>1, LoadingInvariant, PTL DEF LoadingSpec

=============================================================================
