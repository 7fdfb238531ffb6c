--------------------------- MODULE FollowingProofs ---------------------------
(***************************************************************************)
(* What a watch is for: that nothing written to the files it follows is    *)
(* missed, for every set of files that are all required, every set of      *)
(* directories and of watchers, any queue and any number of changes.       *)
(***************************************************************************)
EXTENDS WatchProofs

(***************************************************************************)
(* What a transaction reads when every file is required.                   *)
(***************************************************************************)

(* With the options, what is required stays what it is.                    *)
LEMMA OptionsStay ==
  ASSUME LoadingInv, LoadingStep, ~Prepare
  PROVE  opts' = opts /\ Complete' = Complete
  BY OptionsAreFixed DEF Complete, Required

(* Before the load nothing has been read, stored or published.             *)
LEMMA BeforeTheLoad ==
  ASSUME LoadingInv, Prepare
  PROVE  /\ read' = NotRead /\ current' = None
         /\ configFiles' = {} /\ fileStamps' = Nothing
         /\ disk' = disk /\ changes' = changes
         /\ pc' = pc /\ \A p \in Processes : pc[p] \in {"read", "idle"}
         /\ pc[Builder] = "read"
  <1>1. build.stage # "load" /\ UNCHANGED <<vars, given, diskVars, read, storedVars>>
    BY DEF Prepare, Adopt, ApplyOption, RunSetup
  <1>2. /\ pc[Builder] = "read" /\ read = NotRead /\ current = None
        /\ configFiles = {} /\ fileStamps = Nothing
    BY <1>1 DEF LoadingInv, BuildInv, LoadComesLast
  <1>3. \A p \in Processes : pc[p] \in {"read", "idle"}
    BY <1>2 DEF LoadingInv, TransactionInv, Construction, Processes
  <1> QED
    BY <1>1, <1>2, <1>3 DEF vars, callVars, configVars, diskVars, storedVars

(* Versions are numbers, so they can be compared.                          *)
LEMMA VersionsAreNumbers ==
  ASSUME LoadingInv, NEW f \in Files
  PROVE  /\ changes \in Nat /\ disk[f] \in Nat /\ disk[f] <= changes + 1
         /\ read.merged[f] \in Nat /\ read.stamps[f] \in Nat
         /\ fileStamps[f] \in Nat /\ engine[f] \in Nat
         /\ current # None => current[f] \in Nat
  <1>1. /\ MaxChanges \in Nat /\ Contents = [Files -> 0 .. MaxChanges + 1]
        /\ disk[f] \in 0 .. MaxChanges + 1
        /\ read.merged[f] \in 0 .. MaxChanges + 1
        /\ read.stamps[f] \in 0 .. MaxChanges + 1
    BY ContentsAreVersions DEF LoadingInv
  <1>2. fileStamps \in Contents /\ engine \in Contents
        /\ current \in Contents \cup {None} /\ changes \in 0 .. MaxChanges
        /\ disk[f] <= changes + 1
    BY DEF LoadingInv, ReadTypes, DiskGrows, TransactionInv, TypeOK, Snapshots
  <1> QED
    BY <1>1, <1>2

(* What reading on does to what has been read of the files.                *)
LEMMA MergedGrows ==
  ASSUME LoadingInv, Complete, NEW p \in Processes, ReadsMore(p)
  PROVE  /\ \A f \in Files :
              \/ read'.merged[f] = read.merged[f]
              \/ disk[f] # 0 /\ read'.merged[f] = disk[f]
         /\ pc[p] = "read"
         /\ UNCHANGED <<vars, buildVars, diskVars, storedVars>>
  <1>1. /\ pc[p] = "read" /\ build.stage = "load"
        /\ UNCHANGED <<vars, buildVars, diskVars, storedVars>>
    BY DEF ReadsMore, Stat, SkipFile, ReadFile, ReadFound, ReadsFile, Discovers,
           Reads, ReadsOn
  <1>2. /\ read \in [layer : Nat \ {0}, stamp : 0 .. MaxChanges + 1,
                     merged : Contents, stamps : Contents, files : SUBSET Files]
        /\ Contents = [Files -> 0 .. MaxChanges + 1]
    BY LoadingAssumption DEF LoadingInv, ReadTypes
  <1>3. Stat(p) \/ SkipFile(p) => read'.merged = read.merged
    BY <1>2 DEF Stat, SkipFile, ReadsOn
  <1>4. ASSUME ReadFile(p), NEW f \in Files
        PROVE  \/ read'.merged[f] = read.merged[f]
               \/ disk[f] # 0 /\ read'.merged[f] = disk[f]
    <2> DEFINE g == File.path
    <2>1. disk[g] # 0 /\ read' = [read EXCEPT !.merged[g] = disk[g],
                                              !.stamps[g] = read.stamp,
                                              !.files = @ \cup {g},
                                              !.layer = @ + 1,
                                              !.stamp = 0]
      BY <1>4 DEF ReadFile, ReadsOn
    <2> HIDE DEF g
    <2>2. read'.merged = [read.merged EXCEPT ![g] = disk[g]]
      BY <1>2, <2>1
    <2>3. read.merged \in [Files -> 0 .. MaxChanges + 1]
      BY <1>2
    <2> QED
      BY <2>1, <2>2, <2>3
  <1>5. ~ReadFound(p)
    BY DEF ReadFound, Discovers, Complete
  <1> QED
    BY <1>1, <1>3, <1>4, <1>5 DEF ReadsMore

(* A transaction that has come to the last file has read them all.         *)
LEMMA AllFilesAreRead ==
  ASSUME LoadingInv, Complete, NEW p \in Processes, ReadDone(p)
  PROVE  read.files = Files
  <1>1. /\ build.stage = "load" /\ pc[p] = "read"
        /\ read.layer > Len(opts.configFiles)
    BY DEF ReadDone, Reads
  <1>2. PartlyRead
    BY <1>1 DEF LoadingInv, ReadingInv, ReadingOf
  <1>3. /\ Len(opts.configFiles) \in Nat
        /\ DOMAIN opts.configFiles = 1 .. Len(opts.configFiles)
        /\ read.layer \in Nat
    BY <1>1, ReachedFiles DEF LoadingInv, BuildInv, BuildTypes, ReadTypes
  <1>4. ASSUME NEW f \in Files PROVE read.merged[f] # 0
    <2>1. PICK i \in DOMAIN opts.configFiles :
                 opts.configFiles[i] = [path |-> f, optional |-> FALSE]
      BY DEF Complete, Required
    <2>2. i \in 1 .. read.layer - 1
      BY <1>1, <1>3
    <2>3. opts.configFiles[i].path = f /\ ~opts.configFiles[i].optional
      BY <2>1
    <2> QED
      BY <1>2, <2>2, <2>3 DEF PartlyRead
  <1> QED
    BY <1>2, <1>4 DEF PartlyRead

(* A read ends with every file read, or is given up.                       *)
LEMMA ReadEnds ==
  ASSUME LoadingInv, Complete, NEW p \in Processes, EndsRead(p)
  PROVE  /\ ReadFails(p) \/ ReadDone(p)
         /\ read' = read \/ read' = NotRead
         /\ pc'[p] = "decode" => ReadDone(p) /\ read' = read
         /\ pc[p] = "read" /\ pc'[p] \in {"decode", "release", "report"}
         /\ \A q \in Processes \ {p} : pc'[q] = pc[q]
         /\ current' = current
         /\ UNCHANGED <<buildVars, diskVars, storedVars>>
  <1>1. ReadFails(p) \/ ReadDone(p)
    BY DEF EndsRead, NotFound, ReadFound, StampFound, Discovers, Complete
  <1>2. ReadIntoViper(p)
    BY <1>1 DEF ReadFails, ReadDone, EndRead
  <1>3. /\ pc[p] = "read" /\ pc'[p] \in {"decode", "release", "report"}
        /\ \A q \in Processes \ {p} : pc'[q] = pc[q]
        /\ current' = current
    BY <1>2 DEF ReadIntoViper, Move, End, AfterTransaction, LoadingInv,
                TransactionInv, TypeOK, Processes
  <1>4. ReadFails(p) => pc'[p] # "decode" /\ read' = NotRead
    BY DEF ReadFails, EndRead, Forget
  <1>5. ReadDone(p) => read' = read
    BY DEF ReadDone
  <1>6. UNCHANGED <<buildVars, diskVars, storedVars>>
    BY <1>1 DEF ReadFails, ReadDone, EndRead, buildVars
  <1> QED
    BY <1>1, <1>3, <1>4, <1>5, <1>6

(* A transaction that has read every file has them in the engine.          *)
LEMMA EngineIsMerged ==
  ASSUME LoadingInv, Complete, EveryFileIsRead, NEW p \in Processes,
         pc[p] \in HasRead, NEW f \in Files
  PROVE  /\ engine[f] = read.merged[f] /\ read.merged[f] # 0
         /\ read.stamps[f] <= read.merged[f]
  <1>1. read.files = Files /\ AllRead
    BY DEF EveryFileIsRead, HasRead, LoadingInv, ReadingInv, ReadingOf
  <1> QED
    BY <1>1 DEF AllRead, Complete

(***************************************************************************)
(* The versions that follow one another.                                   *)
(***************************************************************************)

(* What the steps that have nothing to do with files leave of the          *)
(* snapshot: it stays, or becomes what one transaction has read.           *)
LEMMA ElsewhereStores ==
  ASSUME LoadingInv, Elsewhere
  PROVE  /\ UNCHANGED <<buildVars, disk, changes, storedVars>>
         /\ read' = read \/ read' = NotRead
         /\ \/ current' = current
            \/ \E p \in Processes :
                 /\ pc[p] = "store" /\ pc'[p] = "count"
                 /\ current' = engine /\ engine \in Contents
         /\ \A q \in Processes : pc'[q] \in HasRead =>
              pc[q] \in HasRead /\ read' = read
  <1>1. \A q \in Processes : Quiet(q)
    BY QuietStep DEF Elsewhere, LoadingInv
  <1>2. \A p \in Processes : pc[p] = "store" => cand[p] = engine
    BY DEF LoadingInv, TransactionInv, EngineBelongsToTransaction, Gated,
           Committing
  <1>3. Builder \in Processes /\ engine \in Contents
    BY DEF Processes, LoadingInv, TransactionInv, TypeOK
  <1>4. ASSUME NEW q \in Processes, pc'[q] \in HasRead
        PROVE  pc[q] \in HasRead /\ read' = read
    <2>1. pc[q] \in HasRead
      BY <1>1, <1>4 DEF Quiet
    <2>2. ~ \E c \in Processes : pc[c] = "recheck"
      BY <2>1, OneTransaction DEF LoadingInv, HasRead, Gated, Committing
    <2> QED
      BY <2>1, <2>2 DEF Elsewhere
  <1> QED
    BY <1>1, <1>2, <1>3, <1>4 DEF Elsewhere, Quiet

(* A change makes a file newer than all that was read of it, reading takes *)
(* what the disk holds, and publishing what was read.                      *)
LEMMA VersionsGrowStep ==
  ASSUME LoadingInv, LoadingStep, Complete',
         Complete => VersionsGrow /\ EveryFileIsRead
  PROVE  VersionsGrow'
  <1>1. CASE Prepare
    BY <1>1, BeforeTheLoad, VersionsAreNumbers DEF VersionsGrow, NotRead, Nothing
  <1>2. ASSUME Complete, VersionsGrow, EveryFileIsRead,
               NEW f \in Files, DiskChanges
        PROVE  /\ read' = read /\ current' = current /\ fileStamps' = fileStamps
               /\ changes' = changes + 1
               /\ disk'[f] = disk[f] \/ disk'[f] = 0 \/ disk'[f] > changes + 1
               /\ disk'[f] \in Nat
    <2>1. /\ read' = read /\ current' = current /\ fileStamps' = fileStamps
          /\ changes' = changes + 1
      BY <1>2 DEF DiskChanges, ChangeDisk, vars, configVars, storedVars
    <2>2. DiskGrows' /\ (\/ disk'[f] = disk[f]
                         \/ disk'[f] = 0
                         \/ disk'[f] > changes + 1)
      BY <1>2, DiskGrowsStep DEF LoadingInv
    <2>3. disk'[f] \in Nat
      BY <2>2, LoadingAssumption DEF DiskGrows
    <2> QED
      BY <2>1, <2>2, <2>3
  <1>3. CASE DiskChanges /\ ~Prepare
    <2>1. Complete /\ VersionsGrow /\ EveryFileIsRead
      BY <1>3, OptionsStay
    <2> SUFFICES ASSUME NEW f \in Files
                 PROVE  /\ read'.merged[f] <= changes' + 1
                        /\ disk'[f] # 0 => read'.merged[f] <= disk'[f]
                        /\ current' = None => fileStamps'[f] = 0
                        /\ current' # None =>
                             /\ fileStamps'[f] <= current'[f]
                             /\ current'[f] <= changes' + 1
                             /\ disk'[f] # 0 => current'[f] <= disk'[f]
                             /\ read'.merged[f] # 0 => current'[f] <= read'.merged[f]
      BY DEF VersionsGrow
    <2>2. /\ read' = read /\ current' = current /\ fileStamps' = fileStamps
          /\ changes' = changes + 1
          /\ disk'[f] = disk[f] \/ disk'[f] = 0 \/ disk'[f] > changes + 1
          /\ disk'[f] \in Nat
      BY <1>2, <1>3, <2>1
    <2> QED
      BY <2>1, <2>2, VersionsAreNumbers DEF VersionsGrow
  <1>4. ASSUME NEW p \in Processes, ReadsMore(p), ~Prepare PROVE VersionsGrow'
    <2>1. Complete /\ VersionsGrow
      BY <1>4, OptionsStay
    <2>2. UNCHANGED <<vars, buildVars, diskVars, storedVars>>
      BY <1>4, <2>1, MergedGrows
    <2>3. /\ current' = current /\ fileStamps' = fileStamps
          /\ disk' = disk /\ changes' = changes
      BY <2>2 DEF vars, configVars, diskVars, storedVars
    <2>4. \A f \in Files :
            \/ read'.merged[f] = read.merged[f]
            \/ disk[f] # 0 /\ read'.merged[f] = disk[f]
      BY <1>4, <2>1, MergedGrows
    <2> SUFFICES ASSUME NEW f \in Files
                 PROVE  /\ read'.merged[f] <= changes + 1
                        /\ disk[f] # 0 => read'.merged[f] <= disk[f]
                        /\ current = None => fileStamps[f] = 0
                        /\ current # None =>
                             /\ fileStamps[f] <= current[f]
                             /\ current[f] <= changes + 1
                             /\ disk[f] # 0 => current[f] <= disk[f]
                             /\ read'.merged[f] # 0 => current[f] <= read'.merged[f]
      BY <2>3 DEF VersionsGrow
    <2>5. disk[f] \in Nat /\ disk[f] <= changes + 1
      BY VersionsAreNumbers
    <2> QED
      BY <2>1, <2>4, <2>5 DEF VersionsGrow
  <1>5. ASSUME NEW p \in Processes, EndsRead(p), ~Prepare PROVE VersionsGrow'
    <2>1. Complete /\ VersionsGrow
      BY <1>5, OptionsStay
    <2>2. /\ current' = current /\ fileStamps' = fileStamps
          /\ disk' = disk /\ changes' = changes
          /\ read' = read \/ read' = NotRead
      BY <1>5, <2>1, ReadEnds DEF diskVars, storedVars
    <2> QED
      BY <2>1, <2>2, VersionsAreNumbers DEF VersionsGrow, NotRead, Nothing
  <1>6. ASSUME NEW p \in Processes, StoreFiles(p), ~Prepare PROVE VersionsGrow'
    BY <1>6, OptionsStay DEF StoreFiles, VersionsGrow, vars, configVars, diskVars
  <1>7. ASSUME NEW p \in Processes, Commit(p), ~Prepare PROVE VersionsGrow'
    <2>1. Complete /\ VersionsGrow /\ EveryFileIsRead
      BY <1>7, OptionsStay
    <2>2. /\ pc[p] = "count" /\ current' = current
          /\ disk' = disk /\ changes' = changes /\ read' = NotRead
          /\ fileStamps' = IF read.files = {} THEN fileStamps ELSE read.stamps
      BY <1>7 DEF Commit, Count, End, Move, Forget, diskVars
    <2>3. current # None
      BY <2>2, AtCount, ReloadAssumption
    <2>4. ASSUME NEW f \in Files
          PROVE  fileStamps'[f] <= current[f]
      <3>1. read.files # {}
        BY <2>1, <2>2 DEF EveryFileIsRead, Gated, Committing
      <3>2. current = engine
        BY <2>2, AtCount
      <3> QED
        BY <2>1, <2>2, <3>1, <3>2, EngineIsMerged DEF HasRead, Gated, Committing
    <2> QED
      BY <2>1, <2>2, <2>3, <2>4, VersionsAreNumbers
      DEF VersionsGrow, NotRead, Nothing
  <1>8. CASE Elsewhere /\ ~Prepare
    <2>1. Complete /\ VersionsGrow /\ EveryFileIsRead
      BY <1>8, OptionsStay
    <2>2. /\ disk' = disk /\ changes' = changes /\ fileStamps' = fileStamps
          /\ read' = read \/ read' = NotRead
      BY <1>8, ElsewhereStores DEF storedVars
    <2>3. CASE current' = current
      BY <2>1, <2>2, <2>3, VersionsAreNumbers DEF VersionsGrow, NotRead, Nothing
    <2>4. ASSUME NEW p \in Processes, pc[p] = "store", current' = engine,
                 engine \in Contents
          PROVE  VersionsGrow'
      <3>1. current' # None
        BY <2>4, ReloadAssumption
      <3>2. ASSUME NEW f \in Files
            PROVE  /\ current'[f] = read.merged[f] /\ read.merged[f] # 0
                   /\ fileStamps[f] <= current'[f]
        <4>1. engine[f] = read.merged[f] /\ read.merged[f] # 0
          BY <2>1, <2>4, EngineIsMerged DEF HasRead, Gated, Committing
        <4>2. fileStamps[f] <= read.merged[f]
          <5>1. /\ current = None => fileStamps[f] = 0
                /\ current # None => fileStamps[f] <= current[f]
                                       /\ current[f] <= read.merged[f]
            BY <2>1, <4>1 DEF VersionsGrow
          <5>2. /\ fileStamps[f] \in Nat /\ read.merged[f] \in Nat
                /\ current # None => current[f] \in Nat
            BY VersionsAreNumbers
          <5> QED
            BY <5>1, <5>2
        <4> QED
          BY <2>4, <4>1, <4>2
      <3> QED
        BY <2>1, <2>2, <3>1, <3>2, VersionsAreNumbers
        DEF VersionsGrow, NotRead, Nothing
    <2> QED
      BY <1>8, <2>3, <2>4, ElsewhereStores
  <1>9. ASSUME NEW p \in Processes, Find(p), ~Prepare PROVE FALSE
    BY <1>9, OptionsStay DEF Find, Discovers, Complete
  <1> QED
    BY <1>1, <1>3, <1>4, <1>5, <1>6, <1>7, <1>8, <1>9, LoadingStepIsOneOf
    DEF LoadingInv

(* New returns only once its commit has ended.                             *)
LEMMA ReadyAfterCommit ==
  ASSUME LoadingInv, Elsewhere, pc'[Builder] \in {"ready", "done"}
  PROVE  pc[Builder] \in {"ready", "done"}
  <1> USE ReloadAssumption
      DEF LoadingInv, TransactionInv, TypeOK, Processes, Move, End,
          AfterTransaction, Elsewhere
  <1>1. ASSUME NEW p \in Processes, Transaction(p)
        PROVE  pc[Builder] \in {"ready", "done"}
    BY <1>1 DEF Transaction, ReadIntoViper, Unmarshal, Validate, Lock, Check,
                Advance, Store, Count, ReportFailure
  <1>2. ASSUME NEW c \in Callers, Call(c) \/ Cancel(c) \/ DoReload(c)
        PROVE  pc[Builder] \in {"ready", "done"}
    <2>1. Transaction(c) \/ pc'[Builder] = pc[Builder]
      BY <1>2 DEF Call, Cancel, DoReload, Attempt, Entry, Acquire, GiveUp,
                  Interrupted, Recheck, Release, Emit
    <2> QED
      BY <1>1, <2>1
  <1>3. CASE Build
    BY <1>3 DEF Build
  <1>4. ASSUME NEW k \in Closers, CallClose(k) \/ Close(k)
        PROVE  pc'[Builder] = pc[Builder]
    BY <1>4 DEF CallClose, Close, Freeze, LockToClose, StartClosing,
                AlreadyClosing, Signal, StopDispatcher, DropHandlers, Finish,
                callVars
  <1>5. ASSUME NEW p \in Processes, Unvalidated(p) PROVE pc[Builder] \in {"ready", "done"}
    BY <1>5 DEF Unvalidated
  <1>6. SlotMoves \/ UNCHANGED vars => pc' = pc
    BY DEF SlotMoves, vars, callVars
  <1> QED
    BY <1>1, <1>2, <1>3, <1>4, <1>5, <1>6 DEF TransactionStep, Next, New, Rest

(* Nothing gets past the read stage without every file.                    *)
LEMMA EveryFileIsReadStep ==
  ASSUME LoadingInv, LoadingStep, Complete', Complete => EveryFileIsRead
  PROVE  EveryFileIsRead'
  <1>1. CASE Prepare
    BY <1>1, BeforeTheLoad DEF EveryFileIsRead, Gated, Committing, Processes
  <1> SUFFICES ASSUME ~Prepare PROVE EveryFileIsRead'
    BY <1>1
  <1>2. Complete /\ EveryFileIsRead
    BY OptionsStay
  <1>3. /\ \A p \in Processes : pc[p] \in HasRead => read.files = Files
        /\ pc[Builder] \in {"ready", "done"} => configFiles = Files
    BY <1>2 DEF EveryFileIsRead, HasRead
  <1> SUFFICES /\ \A p \in Processes : pc'[p] \in HasRead => read'.files = Files
               /\ pc'[Builder] \in {"ready", "done"} => configFiles' = Files
    BY DEF EveryFileIsRead, HasRead
  <1>4. Builder \in Processes
    BY DEF Processes
  <1>5. CASE DiskChanges
    <2>1. pc' = pc /\ read' = read /\ configFiles' = configFiles
      BY <1>5 DEF DiskChanges, ChangeDisk, vars, callVars, storedVars
    <2> QED
      BY <1>3, <2>1
  <1>6. ASSUME NEW p \in Processes, ReadsMore(p)
        PROVE  /\ \A q \in Processes : pc'[q] \in HasRead => read'.files = Files
               /\ pc'[Builder] \in {"ready", "done"} => configFiles' = Files
    <2>1. pc[p] = "read" /\ pc' = pc /\ configFiles' = configFiles
      BY <1>2, <1>6, MergedGrows DEF vars, callVars, storedVars
    <2>2. \A q \in Processes : pc[q] \notin HasRead
      BY <2>1, OneTransaction DEF LoadingInv, HasRead, Gated, Committing
    <2> QED
      BY <1>3, <2>1, <2>2
  <1>7. ASSUME NEW p \in Processes, EndsRead(p)
        PROVE  /\ \A q \in Processes : pc'[q] \in HasRead => read'.files = Files
               /\ pc'[Builder] \in {"ready", "done"} => configFiles' = Files
    <2>1. /\ pc[p] = "read" /\ pc'[p] \in {"decode", "release", "report"}
          /\ pc'[p] = "decode" => ReadDone(p) /\ read' = read
          /\ \A q \in Processes \ {p} : pc'[q] = pc[q]
          /\ configFiles' = configFiles
      BY <1>2, <1>7, ReadEnds DEF storedVars
    <2>2. \A q \in Processes \ {p} : pc[q] \notin HasRead
      BY <2>1, OneTransaction DEF LoadingInv, HasRead, Gated, Committing
    <2>3. pc'[p] \in HasRead => read'.files = Files
      BY <1>2, <2>1, AllFilesAreRead DEF HasRead, Gated, Committing
    <2> QED
      BY <1>3, <1>4, <2>1, <2>2, <2>3
  <1>8. ASSUME NEW p \in Processes, StoreFiles(p)
        PROVE  /\ \A q \in Processes : pc'[q] \in HasRead => read'.files = Files
               /\ pc'[Builder] \in {"ready", "done"} => configFiles' = Files
    <2>1. /\ pc[p] = "count" /\ pc' = pc /\ read' = read
          /\ configFiles' = read.files
      BY <1>8 DEF StoreFiles, vars, callVars
    <2> QED
      BY <1>3, <2>1 DEF HasRead, Gated, Committing
  <1>9. ASSUME NEW p \in Processes, Commit(p)
        PROVE  /\ \A q \in Processes : pc'[q] \in HasRead => read'.files = Files
               /\ pc'[Builder] \in {"ready", "done"} => configFiles' = Files
    <2>1. /\ pc[p] = "count" /\ pc'[p] \in {"release", "ready"}
          /\ \A q \in Processes \ {p} : pc'[q] = pc[q]
          /\ read.files \in {{}, configFiles} /\ configFiles' = configFiles
      BY <1>9 DEF Commit, Count, End, Move, AfterTransaction, LoadingInv,
                  TransactionInv, TypeOK, Processes
    <2>2. \A q \in Processes \ {p} : pc[q] \notin HasRead
      BY <2>1, AtCount
    <2>3. read.files = Files
      BY <1>3, <2>1 DEF HasRead, Gated, Committing
    <2>4. configFiles = Files
      BY <2>1, <2>3 DEF LoadingInv, ReadTypes
    <2> QED
      BY <2>1, <2>2, <2>4 DEF HasRead, Gated, Committing
  <1>10. CASE Elsewhere
    <2>1. configFiles' = configFiles
      BY <1>10 DEF Elsewhere, storedVars
    <2> QED
      BY <1>3, <1>10, <2>1, ElsewhereStores, ReadyAfterCommit
  <1>11. ASSUME NEW p \in Processes, Find(p) PROVE FALSE
    BY <1>2, <1>11 DEF Find, Discovers, Complete
  <1> QED
    BY <1>5, <1>6, <1>7, <1>8, <1>9, <1>10, <1>11, LoadingStepIsOneOf
    DEF LoadingInv

(***************************************************************************)
(* The watch that follows.                                                 *)
(***************************************************************************)
Following == {"arm", "gap", "establish", "loop"}

(* A watch follows what NewWatcher was told of, and comes to its loop only *)
(* through the gap; a context that has ended stays so.                     *)
LEMMA WatchMoves ==
  ASSUME WatchInv, [WatchNext]_watchVars, NEW w \in Watchers
  PROVE  /\ watch[w].ended \subseteq watch'[w].ended
         /\ watch'[w].at \in Following =>
              \/ watch[w].at \in Following /\ watch'[w].files = watch[w].files
              \/ /\ watch[w].at = "claimed" /\ watch'[w].at = "arm"
                 /\ watch'[w].files = configFiles
                 /\ configFiles' = configFiles
                 /\ loop'.toArm = DirsOf(configFiles)
         /\ watch'[w].at \in {"establish", "loop"} =>
              \/ watch[w].at \in {"establish", "loop"}
              \/ CheckGap(w)
  <1> DEFINE Goal ==
        /\ watch[w].ended \subseteq watch'[w].ended
        /\ watch'[w].at \in Following =>
             \/ watch[w].at \in Following /\ watch'[w].files = watch[w].files
             \/ /\ watch[w].at = "claimed" /\ watch'[w].at = "arm"
                /\ watch'[w].files = configFiles
                /\ configFiles' = configFiles
                /\ loop'.toArm = DirsOf(configFiles)
        /\ watch'[w].at \in {"establish", "loop"} =>
             \/ watch[w].at \in {"establish", "loop"}
             \/ CheckGap(w)
  <1> SUFFICES Goal
    OBVIOUS
  <1>1. /\ watch \in [Watchers -> Watches]
        /\ loop \in [toArm : SUBSET Dirs, lost : SUBSET Dirs, retries : Nat]
    BY WatchBefore
  <1>2. CASE watch'[w] = watch[w]
    BY <1>2
  <1>3. ASSUME NEW v \in Watchers, v # w,
               Claim(v) \/ WatchStep(v) \/ CancelOnClose(v) \/ StopWatch(v)
        PROVE  watch'[w] = watch[w]
    BY <1>1, <1>3
    DEF Claim, WatchStep, NewWatcher, Arm, StartRun, CheckGap, Establish,
        TakeEvent, TakeError, Retry, Rewatch, LeaveLoop, Join, Leave,
        CancelOnClose, StopWatch, EndContext, MoveWatch, LeaveWatch
  <1>4. CASE Claim(w)
    BY <1>1, <1>4 DEF Claim, MoveWatch, LeaveWatch, Following, Watches
  <1>5. CASE NewWatcher(w)
    <2>1. configFiles' = configFiles /\ loop'.toArm = DirsOf(configFiles)
      BY <1>1, <1>5 DEF NewWatcher, loadingVars, storedVars
    <2>2. CASE LeaveWatch(w, "claimed", "end", "failed")
      BY <1>1, <2>2 DEF LeaveWatch, Following, Watches
    <2>3. CASE /\ watch[w].at = "claimed"
               /\ watch' = [watch EXCEPT ![w].at = "arm", ![w].files = configFiles]
      BY <1>1, <2>1, <2>3 DEF Following, Watches
    <2> QED
      BY <1>5, <2>2, <2>3 DEF NewWatcher
  <1>6. ASSUME NEW d \in Dirs, Arm(w, d) PROVE Goal
    <2>1. CASE LeaveWatch(w, "arm", "end", "failed")
      BY <1>1, <2>1 DEF LeaveWatch, Following, Watches
    <2> QED
      BY <1>2, <1>6, <2>1 DEF Arm
  <1>7. CASE StartRun(w)
    BY <1>1, <1>7 DEF StartRun, MoveWatch, Following, Watches
  <1>8. CASE CheckGap(w)
    <2>1. /\ watch[w].at = "gap" /\ watch' = [watch EXCEPT ![w].at = "establish"]
      BY <1>8 DEF CheckGap, MoveWatch
    <2> QED
      BY <1>1, <1>8, <2>1 DEF Following, Watches
  <1>9. CASE Establish(w)
    BY <1>1, <1>9 DEF Establish, MoveWatch, Following, Watches
  <1>10. CASE LeaveLoop(w)
    <2>1. PICK result : watch' = [watch EXCEPT ![w].at = "join", ![w].verdict = result]
      BY <1>10 DEF LeaveLoop, LeaveWatch
    <2> QED
      BY <1>1, <2>1 DEF Following, Watches
  <1>11. CASE Join(w) \/ Leave(w)
    BY <1>1, <1>11 DEF Join, Leave, MoveWatch, Following, Watches
  <1>12. CASE TakeEvent(w) \/ TakeError(w) \/ Retry(w)
    BY <1>2, <1>12 DEF TakeEvent, TakeError, Retry, Rewatch
  <1>13. CASE CancelOnClose(w) \/ StopWatch(w)
    <2>1. PICK who : watch' = [watch EXCEPT ![w].ended = @ \cup {who}]
      BY <1>13 DEF CancelOnClose, StopWatch, EndContext
    <2> QED
      BY <1>1, <2>1 DEF Following, Watches
  <1>14. CASE Environment
    BY <1>2, <1>14
    DEF Environment, ChangeFile, Swap, RemoveDir, CreateDir, workerVars
  <1>15. CASE \/ RunsBuilder
              \/ \E c \in Callers \ Watchers : Calls(c)
              \/ \E p \in Processes : Runs(p)
              \/ \E v \in Watchers : CancelReload(v)
              \/ \E k \in Closers : Shuts(k)
              \/ UNCHANGED watchVars
    BY <1>2, <1>15, MachineryRuns DEF Machinery, ownVars, workerVars
  <1>16. ASSUME NEW v \in Watchers, RunsDebouncer(v), ~CancelReload(v), ~Runs(v)
         PROVE  Goal
    BY <1>2, <1>16
    DEF RunsDebouncer, Debounce, TakeTrigger, Expire, ActionReturns, LeaveRun
  <1> HIDE DEF Goal
  <1>17. ASSUME NEW v \in Watchers,
                Claim(v) \/ WatchStep(v) \/ CancelOnClose(v) \/ StopWatch(v)
         PROVE  Goal
    <2>1. CASE v # w
      <3>1. watch'[w] = watch[w]
        BY <1>3, <1>17, <2>1
      <3> QED
        BY <1>2, <3>1
    <2>2. CASE v = w
      BY <1>4, <1>5, <1>6, <1>7, <1>8, <1>9, <1>10, <1>11, <1>12, <1>13, <1>17,
         <2>2 DEF WatchStep
    <2> QED
      BY <2>1, <2>2
  <1> QED
    BY <1>14, <1>15, <1>16, <1>17, WatchersCall
    DEF WatchNext, WatchRest, Processes

(* Every file of a Config whose files are all required is watched.         *)
LEMMA EveryFileIsWatchedStep ==
  ASSUME WatchInv, [WatchNext]_watchVars, Complete',
         Complete => EveryFileIsRead /\ EveryFileIsWatched
  PROVE  EveryFileIsWatched'
  <1> SUFFICES ASSUME NEW w \in Watchers, watch'[w].at \in Following
               PROVE  watch'[w].files = Files
    BY DEF EveryFileIsWatched, Following
  <1>1. Holds(w)
    BY WatchMoves DEF Following, Holds
  <1>2. pc[Builder] = "done"
    BY <1>1, WatchFollowsBuild
  <1>3. LoadingInv /\ LoadingStep
    BY WatchNextIsLoadingStep DEF WatchInv
  <1>4. ~Prepare
    BY <1>2, <1>3, BeforeTheLoad
  <1>5. Complete
    BY <1>3, <1>4, OptionsStay
  <1>6. configFiles = Files
    BY <1>2, <1>5 DEF EveryFileIsRead
  <1>7. watch[w].at \in Following => watch[w].files = Files
    BY <1>5 DEF EveryFileIsWatched, Following
  <1> QED
    BY <1>6, <1>7, WatchMoves

(* No transaction ends its caller's context.                               *)
LEMMA WorksCancelsNobody ==
  ASSUME NEW p \in Processes, Works(p)
  PROVE  cancelled' = cancelled
  <1>1. UNCHANGED vars \/ Transaction(p) \/ Otherwise(p)
    BY DEF Works, ReadNamed, ReadDiscovered, Stat, SkipFile, ReadFile, ReadFails,
           ReadDone, Find, NotFound, ReadFound, StampFound, ReadsOn, EndRead,
           StoreFiles, Commit, Transaction
  <1>2. CASE UNCHANGED vars
    BY <1>2 DEF vars, callVars
  <1>3. CASE Transaction(p)
    BY <1>3 DEF Transaction, ReadIntoViper, Unmarshal, Validate, Lock, Check,
                Advance, Store, Count, ReportFailure
  <1>4. CASE Unvalidated(p)
    BY <1>4 DEF Unvalidated
  <1>5. CASE Build
    BY <1>5 DEF Build
  <1>6. CASE DoReload(p) /\ ~Transaction(p)
    BY <1>6 DEF DoReload, Attempt, Entry, Acquire, GiveUp, Interrupted, Recheck,
                Release, Emit
  <1> QED
    BY <1>1, <1>2, <1>3, <1>4, <1>5, <1>6 DEF Otherwise, New

(* A watcher's call is cancelled only when its watch is.                   *)
LEMMA CallsAreWantedStep ==
  ASSUME WatchInv, [WatchNext]_watchVars, CallsAreWanted
  PROVE  CallsAreWanted'
  <1> SUFFICES ASSUME NEW w \in Watchers, w \in cancelled' PROVE CtxDone(w)'
    BY DEF CallsAreWanted
  <1>1. ASSUME cancelled' \subseteq cancelled PROVE CtxDone(w)'
    BY <1>1, WatchMoves DEF CallsAreWanted, CtxDone
  <1>2. ASSUME NEW v \in Watchers, CancelReload(v) PROVE CtxDone(w)'
    <2>1. cancelled' = cancelled \cup {v} /\ CtxDone(v)
      BY <1>2 DEF CancelReload, Cancel, Unaware
    <2> QED
      BY <2>1, WatchMoves DEF CallsAreWanted, CtxDone
  <1>3. CASE Environment \/ UNCHANGED watchVars
    BY <1>1, <1>3
    DEF Environment, ChangeFile, Write, Delete, Swap, RemoveDir, CreateDir,
        ChangeDisk, watchVars, loadingVars, vars, callVars
  <1>4. ASSUME NEW p \in Processes, Runs(p) PROVE CtxDone(w)'
    BY <1>1, <1>4, WorksCancelsNobody DEF Runs
  <1>5. CASE Prepare
    BY <1>1, <1>5 DEF Prepare, vars, callVars
  <1>6. ASSUME NEW c \in Callers, Call(c) PROVE CtxDone(w)'
    BY <1>1, <1>6 DEF Call
  <1>7. ASSUME NEW k \in Closers, Shuts(k) PROVE CtxDone(w)'
    <2>1. UNCHANGED callVars
      BY <1>7 DEF Shuts, Closes, CallClose, Close, Freeze, LockToClose,
                  StartClosing, AlreadyClosing, Signal, StopDispatcher,
                  DropHandlers, Finish
    <2> QED
      BY <1>1, <2>1 DEF callVars
  <1>8. ASSUME NEW v \in Watchers,
               Claim(v) \/ WatchStep(v) \/ CancelOnClose(v) \/ StopWatch(v)
        PROVE  CtxDone(w)'
    <2>1. cancelled' = cancelled
      BY <1>8
      DEF Claim, WatchStep, NewWatcher, Arm, StartRun, CheckGap, Establish,
          TakeEvent, TakeError, Retry, Rewatch, LeaveLoop, Join, Leave,
          CancelOnClose, StopWatch, EndContext, loadingVars, vars, callVars
    <2> QED
      BY <1>1, <2>1
  <1>9. ASSUME NEW v \in Watchers,
               TakeTrigger(v) \/ Expire(v) \/ ActionReturns(v) \/ LeaveRun(v)
        PROVE  CtxDone(w)'
    <2>1. Call(v) \/ UNCHANGED vars
      BY <1>9 DEF TakeTrigger, Expire, ActionReturns, LeaveRun, loadingVars
    <2> QED
      BY <1>1, <1>6, <2>1, WatchersCall DEF vars, callVars
  <1> QED
    BY <1>2, <1>3, <1>4, <1>5, <1>6, <1>7, <1>8, <1>9, WatchersCall
    DEF WatchNext, WatchRest, RunsBuilder, Calls, CallReload, RunsDebouncer,
        Debounce, Processes

(* What is closed stays so.                                                *)
LEMMA ClosedStays ==
  ASSUME WatchInv, [WatchNext]_watchVars, Closed
  PROVE  Closed'
  BY WatchNextIsLoadingStep, FreezesStep DEF WatchInv, Freezes

(* A directory is watched again only after the loop was told it had gone.  *)
LEMMA ForsakenStays ==
  ASSUME WatchInv, [WatchNext]_watchVars, NEW w \in Watchers, Forsaken(w),
         watch[w].at \in {"establish", "loop"},
         watch'[w].at \in {"establish", "loop"}
  PROVE  Forsaken(w)'
  <1>1. watch'[w].files = watch[w].files
    BY WatchMoves DEF Following
  <1>2. PICK d \in WatchedDirs(w) :
               /\ d \notin notify.armed \cup loop.lost
               /\ \A i \in DOMAIN notify.events :
                    notify.events[i] # Event("directory", d)
    BY DEF Forsaken
  <1> DEFINE Lost == /\ d \notin notify'.armed \cup loop'.lost
                     /\ \A i \in DOMAIN notify'.events :
                          notify'.events[i] # Event("directory", d)
  <1> SUFFICES Lost
    BY <1>1 DEF Forsaken, WatchedDirs
  <1>3. CASE notify' = notify /\ loop' = loop
    BY <1>2, <1>3
  <1>4. \A v \in Watchers \ {w} : watch[v].at \in {"idle", "returned"}
    BY DEF WatchInv, SlotIsHeld, Holds
  <1>5. /\ notify \in Notifications
        /\ loop \in [toArm : SUBSET Dirs, lost : SUBSET Dirs, retries : Nat]
        /\ watch \in [Watchers -> Watches]
    BY WatchBefore
  <1>6. notify.events \in Seq(Events)
    BY <1>5 DEF Notifications
  <1>7. CASE Environment
    <2>1. loop' = loop
      BY <1>7 DEF Environment, ChangeFile, Swap, RemoveDir, CreateDir, workerVars
    <2>2. ASSUME NEW e, NEW k \in {"file", "projected"}, NEW n \in Files \cup Dirs,
                 notify' = Observed(e, Event(k, n))
          PROVE  Lost
      <3>1. Event(k, n) \in Events /\ Event(k, n) # Event("directory", d)
        BY DEF Event, Events
      <3>2. CASE notify' = [notify EXCEPT !.events = Append(@, Event(k, n))]
        <4>1. /\ notify'.armed = notify.armed
              /\ notify'.events = Append(notify.events, Event(k, n))
          BY <1>5, <3>2 DEF Notifications
        <4>2. \A i \in DOMAIN notify'.events :
                \/ i \in DOMAIN notify.events /\ notify'.events[i] = notify.events[i]
                \/ notify'.events[i] = Event(k, n)
          BY <1>6, <3>1, <4>1
        <4> QED
          BY <1>2, <2>1, <3>1, <4>1, <4>2
      <3>3. CASE notify' = [notify EXCEPT !.overflowed = TRUE]
        <4>1. notify'.armed = notify.armed /\ notify'.events = notify.events
          BY <1>5, <3>3 DEF Notifications
        <4> QED
          BY <1>2, <2>1, <4>1
      <3> QED
        BY <1>3, <2>1, <2>2, <3>2, <3>3 DEF Observed
    <2>3. ASSUME NEW f \in Files, ChangeFile(f) PROVE Lost
      BY <2>2, <2>3 DEF ChangeFile
    <2>4. ASSUME NEW e \in Dirs, Swap(e) PROVE Lost
      BY <2>2, <2>4 DEF Swap
    <2>5. ASSUME NEW e \in Dirs, RemoveDir(e) PROVE Lost
      <3> DEFINE seen == Observed(e, Event("directory", e))
      <3>1. PICK deaf \in {seen.unheard, seen.unheard \cup {e}} :
              notify' = [seen EXCEPT !.armed = @ \ {e}, !.unheard = deaf]
        BY <2>5 DEF RemoveDir
      <3>2. Event("directory", e) \in Events
        BY DEF Event, Events
      <3>3. seen \in Notifications /\ seen.armed = notify.armed
        BY <1>5, <3>2, WatchBefore, ObservedType
      <3>4. \A i \in DOMAIN seen.events : seen.events[i] # Event("directory", d)
        <4>1. CASE e \notin notify.armed
          BY <1>2, <4>1 DEF Observed
        <4>2. CASE seen = [notify EXCEPT !.events = Append(@, Event("directory", e))]
                     /\ e \in notify.armed
          <5>1. e # d /\ Event("directory", e) # Event("directory", d)
            BY <1>2, <4>2 DEF Event
          <5>2. seen.events = Append(notify.events, Event("directory", e))
            BY <1>5, <4>2 DEF Notifications
          <5> HIDE DEF seen
          <5>3. \A i \in DOMAIN seen.events :
                  \/ i \in DOMAIN notify.events /\ seen.events[i] = notify.events[i]
                  \/ seen.events[i] = Event("directory", e)
            BY <1>6, <3>2, <5>2
          <5> QED
            BY <1>2, <5>1, <5>3
        <4>3. CASE seen = [notify EXCEPT !.overflowed = TRUE]
          <5>1. seen.events = notify.events
            BY <1>5, <4>3 DEF Notifications
          <5> QED
            BY <1>2, <5>1
        <4> QED
          BY <4>1, <4>2, <4>3 DEF Observed
      <3> HIDE DEF seen
      <3>5. /\ notify'.armed = notify.armed \ {e} /\ notify'.events = seen.events
        BY <3>1, <3>3 DEF Notifications
      <3> QED
        BY <1>2, <2>1, <3>4, <3>5
    <2>6. ASSUME NEW e \in Dirs, CreateDir(e) PROVE Lost
      BY <1>3, <2>1, <2>6 DEF CreateDir
    <2> QED
      BY <1>7, <2>3, <2>4, <2>5, <2>6 DEF Environment
  <1>8. CASE \/ RunsBuilder
             \/ \E c \in Callers \ Watchers : Calls(c)
             \/ \E p \in Processes : Runs(p)
             \/ \E v \in Watchers : CancelReload(v)
             \/ \E k \in Closers : Shuts(k)
             \/ UNCHANGED watchVars
    BY <1>3, <1>8, MachineryRuns DEF Machinery, ownVars, workerVars
  <1>9. ASSUME NEW v \in Watchers,
               \/ Claim(v) \/ CancelOnClose(v) \/ StopWatch(v) \/ Establish(v)
               \/ TakeError(v) \/ LeaveLoop(v) \/ Join(v) \/ StartRun(v)
               \/ CheckGap(v) \/ TakeTrigger(v) \/ Expire(v) \/ ActionReturns(v)
               \/ LeaveRun(v)
        PROVE  Lost
    <2>1. CASE TakeError(v)
      <3>1. loop' = loop /\ notify' = [notify EXCEPT !.overflowed = FALSE]
        BY <2>1 DEF TakeError
      <3>2. notify'.armed = notify.armed /\ notify'.events = notify.events
        BY <1>5, <3>1 DEF Notifications
      <3> QED
        BY <1>2, <3>1, <3>2
    <2>2. CASE ~TakeError(v)
      BY <1>3, <1>9, <2>2
      DEF Claim, CancelOnClose, StopWatch, EndContext, Establish, LeaveLoop,
          Join, StartRun, CheckGap, TakeTrigger, Expire, ActionReturns, LeaveRun
    <2> QED
      BY <2>1, <2>2
  <1>10. ASSUME NEW v \in Watchers,
                \/ NewWatcher(v) \/ (\E e \in Dirs : Arm(v, e)) \/ Leave(v)
         PROVE  FALSE
    <2>1. watch[v].at \in {"claimed", "arm", "end"}
      BY <1>10 DEF NewWatcher, Arm, Leave, MoveWatch, LeaveWatch
    <2> QED
      BY <1>4, <2>1
  <1>11. ASSUME NEW v \in Watchers, TakeEvent(v) PROVE Lost
    <2> DEFINE event == Head(notify.events)
    <2>1. /\ notify.events # <<>>
          /\ notify' = [notify EXCEPT !.events = Tail(@)]
          /\ loop' = IF RemovedDirectory(v, event)
                       THEN [loop EXCEPT !.lost = @ \cup {event.name}] ELSE loop
      BY <1>11 DEF TakeEvent
    <2>2. notify'.armed = notify.armed /\ notify'.events = Tail(notify.events)
      BY <1>5, <2>1 DEF Notifications
    <2>3. event = notify.events[1] /\ 1 \in DOMAIN notify.events /\ event \in Events
      BY <1>6, <2>1
    <2>4. \A i \in DOMAIN notify'.events :
            i + 1 \in DOMAIN notify.events /\ notify'.events[i] = notify.events[i + 1]
      BY <1>6, <2>1, <2>2
    <2>5. d \notin loop'.lost
      <3>1. CASE RemovedDirectory(v, event)
        <4>1. event = Event("directory", event.name)
          BY <2>3, <3>1 DEF RemovedDirectory, Event, Events
        <4>2. event.name # d
          BY <1>2, <2>3, <4>1
        <4>3. loop'.lost = loop.lost \cup {event.name}
          BY <1>5, <2>1, <3>1
        <4> QED
          BY <1>2, <4>2, <4>3
      <3>2. CASE ~RemovedDirectory(v, event)
        BY <1>2, <2>1, <3>2
      <3> QED
        BY <3>1, <3>2
    <2> QED
      BY <1>2, <2>2, <2>4, <2>5
  <1>12. ASSUME NEW v \in Watchers, Retry(v) PROVE Lost
    <2>1. /\ notify' = [notify EXCEPT !.armed = @ \cup (loop.lost \cap present)]
          /\ loop' = [loop EXCEPT
                        !.lost = @ \ present,
                        !.retries = IF loop.lost \subseteq present THEN @ ELSE @ + 1]
      BY <1>12 DEF Retry, Rewatch
    <2>2. /\ notify'.armed = notify.armed \cup (loop.lost \cap present)
          /\ notify'.events = notify.events /\ loop'.lost = loop.lost \ present
      BY <1>5, <2>1 DEF Notifications
    <2> QED
      BY <1>2, <2>2
  <1> HIDE DEF Lost
  <1> QED
    BY <1>7, <1>8, <1>9, <1>10, <1>11, <1>12, WatchersCall
    DEF WatchNext, WatchRest, WatchStep, RunsDebouncer, Debounce, Processes

(***************************************************************************)
(* What a watch has noticed.                                               *)
(***************************************************************************)

(* The alarm that is not yet a call, and what holds once none is raised.   *)
Told(w) ==
  \/ debounce[w].trigger = 1
  \/ debounce[w].expiry
  \/ notify.overflowed
  \/ loop.lost # {}
  \/ \E i \in DOMAIN notify.events : Relevant(w, notify.events[i])

Fresh == \A f \in Files : read.merged[f] \in {0, disk[f]}

Upheld(w) == Fresh /\ (current = disk \/ ~Readable \/ Reloading(w))

(* What the proofs need of a watch that follows the files.                 *)
LEMMA NoticedIs ==
  ASSUME NEW w \in Watchers
  PROVE  Alarmed(w) <=> Told(w) \/ pc[w] \in {"entry", "wait", "recheck"}
  BY DEF Alarmed, Told

(* A transaction that has read its files, none of which has changed since, *)
(* has in the engine what the disk holds.                                  *)
LEMMA EngineIsDisk ==
  ASSUME LoadingInv, Complete, EveryFileIsRead, Fresh, NEW p \in Processes,
         pc[p] \in HasRead
  PROVE  engine = disk
  <1>1. \A f \in Files : engine[f] = disk[f]
    BY EngineIsMerged DEF Fresh
  <1>2. /\ engine \in [Files -> 0 .. MaxChanges + 1]
        /\ disk \in [Files -> 0 .. MaxChanges + 1]
    BY LoadingAssumption DEF LoadingInv, DiskGrows, TransactionInv, TypeOK
  <1> QED
    BY <1>1, <1>2

(* What a step of a transaction does to what is read and published.        *)
LEMMA WorksFreshly ==
  ASSUME LoadingInv, Complete, EveryFileIsRead, NEW p \in Processes, Works(p)
  PROVE  /\ opts' = opts /\ disk' = disk
         /\ \A f \in Files : read'.merged[f] \in {read.merged[f], 0, disk[f]}
         /\ current' = current \/ (Fresh => current' = disk)
  <1>1. LoadingStep
    BY DEF LoadingStep
  <1>2. ~Prepare /\ ~DiskChanges
    <2>1. UNCHANGED <<build, changes>>
      BY DEF Works, ReadNamed, ReadDiscovered, Stat, SkipFile, ReadFile,
             ReadFails, ReadDone, Find, NotFound, ReadFound, StampFound, ReadsOn,
             EndRead, StoreFiles, Commit, Otherwise, buildVars, diskVars
    <2>2. Prepare => build' # build
      BY DEF LoadingInv, BuildInv, BuildTypes, Prepare, Adopt, ApplyOption,
             RunSetup, Proceed, Another
    <2>3. DiskChanges => changes' # changes
      BY LoadingAssumption DEF LoadingInv, DiskGrows, DiskChanges, ChangeDisk
    <2> QED
      BY <2>1, <2>2, <2>3
  <1>3. ASSUME NEW q \in Processes, ReadsMore(q)
        PROVE  /\ opts' = opts /\ disk' = disk /\ current' = current
               /\ \A f \in Files : read'.merged[f] \in {read.merged[f], 0, disk[f]}
    BY <1>3, MergedGrows DEF vars, configVars, buildVars, diskVars
  <1>4. ASSUME NEW q \in Processes, EndsRead(q)
        PROVE  /\ opts' = opts /\ disk' = disk /\ current' = current
               /\ \A f \in Files : read'.merged[f] \in {read.merged[f], 0, disk[f]}
    BY <1>4, ReadEnds DEF buildVars, diskVars, NotRead, Nothing
  <1>5. ASSUME NEW q \in Processes, StoreFiles(q) \/ Commit(q)
        PROVE  /\ opts' = opts /\ disk' = disk /\ current' = current
               /\ \A f \in Files : read'.merged[f] \in {read.merged[f], 0, disk[f]}
    <2>1. /\ opts' = opts /\ disk' = disk /\ current' = current
          /\ read' = read \/ read' = NotRead
      BY <1>5 DEF StoreFiles, Commit, Count, Forget, vars, configVars, buildVars,
                  diskVars
    <2> QED
      BY <2>1 DEF NotRead, Nothing
  <1>6. ASSUME Elsewhere
        PROVE  /\ opts' = opts /\ disk' = disk
               /\ \A f \in Files : read'.merged[f] \in {read.merged[f], 0, disk[f]}
               /\ current' = current \/ (Fresh => current' = disk)
    <2>1. /\ opts' = opts /\ disk' = disk
          /\ read' = read \/ read' = NotRead
      BY <1>6, ElsewhereStores DEF buildVars
    <2>2. \/ current' = current
          \/ \E q \in Processes : pc[q] \in HasRead /\ current' = engine
      BY <1>6, ElsewhereStores DEF HasRead, Gated, Committing
    <2>3. current' = current \/ (Fresh => current' = disk)
      BY <2>2, EngineIsDisk
    <2> QED
      BY <2>1, <2>3 DEF NotRead, Nothing
  <1>7. ASSUME NEW q \in Processes, Find(q) PROVE FALSE
    BY <1>7 DEF Find, Discovers, Complete
  <1> QED
    BY <1>1, <1>2, <1>3, <1>4, <1>5, <1>6, <1>7, LoadingStepIsOneOf
    DEF LoadingInv

(* Only what cannot be read, decoded or accepted keeps a reload from       *)
(* publishing what the disk holds.                                         *)
LEMMA ReloadPublishes ==
  ASSUME LoadingInv, Complete, EveryFileIsRead, Fresh, ~Closed,
         NEW w \in Watchers, Works(w), Reloading(w)
  PROVE  Reloading(w)' \/ ~Readable \/ current' = disk
  <1>1. w \in Processes /\ w # Builder /\ w \in Callers
    BY WatchersCall
  <1>2. pc \in [Processes -> CallerAt \cup BuilderAt]
    BY DEF LoadingInv, TransactionInv, TypeOK
  <1>3. Files = {} => disk = Nothing
    BY LoadingAssumption DEF LoadingInv, DiskGrows, Nothing
  <1>4. ASSUME pc[w] = "read" PROVE Reloading(w)' \/ ~Readable
    <2>1. ~Otherwise(w) /\ ~StoreFiles(w) /\ ~Commit(w)
      BY <1>4 DEF Otherwise, StoreFiles, Commit, Count, End, Move
    <2>2. ~Find(w)
      BY DEF Find, Discovers, Complete
    <2>3. CASE ReadsMore(w)
      BY <1>1, <1>4, <2>3, MergedGrows DEF Reloading, vars, callVars
    <2>4. CASE ReadFails(w)
      <3>1. /\ read.layer <= Len(opts.configFiles) /\ build.stage = "load"
            /\ read.layer \in Nat \ {0}
        BY <2>4 DEF ReadFails, ReadsFile, Reads, LoadingInv, ReadTypes
      <3>2. File.path \in Files
        BY <3>1, ReachedFiles DEF File, LoadingInv, BuildInv, BuildTypes
      <3>3. disk[File.path] = 0 \/ disk[File.path] \in Garbled
        BY <2>4 DEF ReadFails
      <3> QED
        BY <3>2, <3>3 DEF Readable, Complete
    <2>5. CASE ReadDone(w)
      <3>1. read.files = Files
        BY <1>1, <2>5, AllFilesAreRead
      <3>2. CASE Files = {}
        BY <1>3, <3>2 DEF Readable
      <3>3. CASE Files # {}
        <4>1. pc'[w] = "decode"
          BY <2>5, <3>1, <3>3 DEF ReadDone, EndRead
        <4> QED
          BY <4>1 DEF Reloading
      <3> QED
        BY <3>2, <3>3
    <2> QED
      BY <1>1, <2>1, <2>2, <2>3, <2>4, <2>5, ReadEnds
      DEF Works, ReadNamed, ReadDiscovered, ReadsMore, EndsRead
  <1>5. ASSUME pc[w] \in HasRead PROVE engine = disk
    BY <1>1, <1>5, EngineIsDisk
  <1>6. ASSUME pc[w] # "read" PROVE Otherwise(w)
    BY <1>6
    DEF Reloading, Works, ReadNamed, ReadDiscovered, Stat, SkipFile, ReadFile,
        ReadFails, ReadDone, Find, NotFound, ReadFound, StampFound, ReadsFile,
        Discovers, Reads, StoreFiles, Commit, Count, End, Move
  <1>7. ASSUME pc[w] = "decode" PROVE Reloading(w)' \/ ~Readable
    <2>1. Unmarshal(w)
      BY <1>1, <1>6, <1>7
      DEF Otherwise, DoReload, Attempt, Transaction, Entry, Acquire, GiveUp,
          Interrupted, Recheck, Release, Emit, ReadIntoViper, Validate, Lock,
          Check, Advance, Store, Count, ReportFailure, Move, End
    <2>2. CASE engine \in Decodable
      BY <1>1, <1>2, <2>1, <2>2 DEF Unmarshal, Move, Reloading
    <2>3. CASE engine \notin Decodable
      BY <1>5, <1>7, <2>3 DEF Readable, HasRead
    <2> QED
      BY <2>2, <2>3
  <1>8. ASSUME pc[w] = "validate" PROVE Reloading(w)' \/ ~Readable
    <2>1. CASE opts.validator = Nil
      <3>1. Unvalidated(w)
        BY <1>6, <1>8, <2>1 DEF Otherwise
      <3> QED
        BY <1>1, <1>2, <3>1 DEF Unvalidated, Move, Reloading
    <2>2. CASE opts.validator # Nil
      <3>1. Validate(w)
        BY <1>1, <1>6, <1>8, <2>2
        DEF Otherwise, DoReload, Attempt, Transaction, Entry, Acquire, GiveUp,
            Interrupted, Recheck, Release, Emit, ReadIntoViper, Unmarshal, Lock,
            Check, Advance, Store, Count, ReportFailure, Move, End
      <3>2. cand[w] = disk
        BY <1>1, <1>5, <1>8
        DEF HasRead, LoadingInv, TransactionInv, EngineBelongsToTransaction
      <3>3. CASE cand[w] \in Valid
        BY <1>1, <1>2, <3>1, <3>3 DEF Validate, Move, Reloading
      <3>4. CASE cand[w] \notin Valid
        BY <2>2, <3>2, <3>4 DEF Readable
      <3> QED
        BY <3>3, <3>4
    <2> QED
      BY <2>1, <2>2
  <1>9. ASSUME pc[w] \in {"lock", "check", "advance"} PROVE Reloading(w)'
    <2>1. Lock(w) \/ Check(w) \/ Advance(w)
      BY <1>1, <1>6, <1>9
      DEF Otherwise, DoReload, Attempt, Transaction, Entry, Acquire, GiveUp,
          Interrupted, Recheck, Release, Emit, ReadIntoViper, Unmarshal, Validate,
          Store, Count, ReportFailure, Move, End
    <2> QED
      BY <1>1, <1>2, <2>1 DEF Lock, Check, Advance, Move, Reloading
  <1>10. ASSUME pc[w] = "store" PROVE current' = disk
    <2>1. Store(w)
      BY <1>1, <1>6, <1>10
      DEF Otherwise, DoReload, Attempt, Transaction, Entry, Acquire, GiveUp,
          Interrupted, Recheck, Release, Emit, ReadIntoViper, Unmarshal, Validate,
          Lock, Check, Advance, Count, ReportFailure, Move, End
    <2>2. cand[w] = disk
      BY <1>1, <1>5, <1>10
      DEF HasRead, Gated, Committing, LoadingInv, TransactionInv,
          EngineBelongsToTransaction
    <2> QED
      BY <2>1, <2>2 DEF Store
  <1> QED
    BY <1>4, <1>7, <1>8, <1>9, <1>10 DEF Reloading

(* What a watch owes: it is told, its reload is to read, or all is well.   *)
Noticed(w) == Told(w) \/ pc[w] \in {"entry", "wait", "recheck"} \/ Upheld(w)

(* A Config all of whose files are required, and read and watched.         *)
FilesInv ==
  WatchInv /\ Complete /\ VersionsGrow /\ EveryFileIsRead /\ EveryFileIsWatched

(* A step that neither tells a watch anything nor touches its files.       *)
LEMMA NothingToNotice ==
  ASSUME NEW w \in Watchers, Noticed(w),
         notify' = notify, loop' = loop,
         debounce'[w].trigger = debounce[w].trigger,
         debounce'[w].expiry = debounce[w].expiry,
         watch'[w].files = watch[w].files,
         UNCHANGED <<disk, opts, read, current>>, pc'[w] = pc[w]
  PROVE  Noticed(w)'
  <1>1. Told(w)' = Told(w)
    BY DEF Told, Relevant, RemovedDirectory, WatchedDirs
  <1>2. Upheld(w)' = Upheld(w)
    BY DEF Upheld, Fresh, Readable, Required, Reloading
  <1> QED
    BY <1>1, <1>2 DEF Noticed

(* A trigger in the channel is news.                                       *)
LEMMA TriggerIsTold ==
  ASSUME WatchInv, NEW w \in Watchers, debounce' = Triggered(w)
  PROVE  Told(w)'
  <1>1. debounce \in [Watchers -> Debouncers]
    BY WatchBefore
  <1> QED
    BY <1>1 DEF Triggered, Told, Debouncers

(* What the operating system observes is added to what it has queued; of a *)
(* directory that is watched it is queued or reported lost.                *)
LEMMA ObservedGrows ==
  ASSUME notify \in Notifications, NEW d, NEW event \in Events
  PROVE  /\ \A i \in DOMAIN notify.events :
              /\ i \in DOMAIN Observed(d, event).events
              /\ Observed(d, event).events[i] = notify.events[i]
         /\ notify.overflowed => Observed(d, event).overflowed
         /\ d \in notify.armed =>
              \/ Observed(d, event).overflowed /\ Overflows(d)
              \/ \E i \in DOMAIN Observed(d, event).events :
                   Observed(d, event).events[i] = event
  <1>1. notify.events \in Seq(Events)
    BY DEF Notifications
  <1>2. CASE d \notin notify.armed
    BY <1>2 DEF Observed
  <1>3. CASE d \in notify.armed /\ Len(notify.events) < EventQueue
    <2>1. Observed(d, event) = [notify EXCEPT !.events = Append(@, event)]
      BY <1>3 DEF Observed
    <2>2. /\ Observed(d, event).events = Append(notify.events, event)
          /\ Observed(d, event).overflowed = notify.overflowed
      BY <2>1 DEF Notifications
    <2>3. /\ Append(notify.events, event)[Len(notify.events) + 1] = event
          /\ Len(notify.events) + 1 \in DOMAIN Append(notify.events, event)
          /\ \A i \in DOMAIN notify.events :
               /\ i \in DOMAIN Append(notify.events, event)
               /\ Append(notify.events, event)[i] = notify.events[i]
      BY <1>1
    <2> QED
      BY <2>2, <2>3
  <1>4. CASE d \in notify.armed /\ ~(Len(notify.events) < EventQueue)
    <2>1. Observed(d, event) = [notify EXCEPT !.overflowed = TRUE]
      BY <1>4 DEF Observed
    <2>2. Overflows(d)
      BY <1>1, <1>4, WatchAssumption DEF Overflows
    <2> QED
      BY <2>1, <2>2 DEF Notifications
  <1> QED
    BY <1>2, <1>3, <1>4

(* Whatever happens to a directory is observed with it, unless it comes    *)
(* back.                                                                   *)
LEMMA EnvironmentIsObserved ==
  ASSUME WatchInv, Environment
  PROVE  /\ UNCHANGED <<vars, opts, read, workerVars>>
         /\ \A i \in DOMAIN notify.events :
              i \in DOMAIN notify'.events /\ notify'.events[i] = notify.events[i]
         /\ notify.overflowed => notify'.overflowed
         /\ \E d \in Dirs :
              /\ \A f \in Files : DirOf[f] # d => disk'[f] = disk[f]
              /\ d \notin notify.armed
                 \/ notify'.overflowed
                 \/ \E i \in DOMAIN notify'.events :
                      \/ notify'.events[i].kind = "projected"
                      \/ notify'.events[i] = Event("directory", d)
                      \/ \E f \in Files : notify'.events[i] = Event("file", f)
  <1> DEFINE Seen(d) ==
        /\ \A i \in DOMAIN notify.events :
             i \in DOMAIN notify'.events /\ notify'.events[i] = notify.events[i]
        /\ notify.overflowed => notify'.overflowed
        /\ \A f \in Files : DirOf[f] # d => disk'[f] = disk[f]
        /\ d \notin notify.armed
           \/ notify'.overflowed
           \/ \E i \in DOMAIN notify'.events :
                \/ notify'.events[i].kind = "projected"
                \/ notify'.events[i] = Event("directory", d)
                \/ \E f \in Files : notify'.events[i] = Event("file", f)
  <1>1. /\ notify \in Notifications /\ notify.armed \subseteq present
        /\ Len(notify.events) <= EventQueue
    BY DEF WatchInv, WatchTypes, WatchTypeOK, Notifications
  <1>2. UNCHANGED <<vars, opts, read, workerVars>>
    BY DEF Environment, ChangeFile, Write, Delete, Swap, RemoveDir, CreateDir,
           ChangeDisk, buildVars
  <1>3. ASSUME NEW f \in Files, ChangeFile(f) PROVE \E d \in Dirs : Seen(d)
    <2>1. DirOf[f] \in Dirs
      BY WatchAssumption
    <2>2. Event("file", f) \in Events
      BY DEF Event, Events
    <2>3. \A g \in Files : g # f => disk'[g] = disk[g]
      BY <1>3 DEF ChangeFile, Write, Delete, ChangeDisk
    <2>4. notify' = Observed(DirOf[f], Event("file", f))
      BY <1>3 DEF ChangeFile
    <2>5. Seen(DirOf[f])
      BY <1>1, <2>2, <2>3, <2>4, ObservedGrows
    <2> QED
      BY <2>1, <2>5
  <1>4. ASSUME NEW d \in Dirs, Swap(d) PROVE Seen(d)
    <2>1. Event("projected", d) \in Events /\ Event("projected", d).kind = "projected"
      BY DEF Event, Events
    <2>2. \A g \in Files : DirOf[g] # d => disk'[g] = disk[g]
      BY <1>4 DEF Swap, ChangeDisk, In
    <2>3. notify' = Observed(d, Event("projected", d))
      BY <1>4 DEF Swap
    <2> QED
      BY <1>1, <2>1, <2>2, <2>3, ObservedGrows
  <1>5. ASSUME NEW d \in Dirs, RemoveDir(d) PROVE Seen(d)
    <2> DEFINE seen == Observed(d, Event("directory", d))
    <2>1. Event("directory", d) \in Events
      BY DEF Event, Events
    <2>2. \A g \in Files : DirOf[g] # d => disk'[g] = disk[g]
      BY <1>5 DEF RemoveDir, ChangeDisk, In
    <2>3. /\ \E deaf \in {seen.unheard, seen.unheard \cup {d}} :
               notify' = [seen EXCEPT !.armed = @ \ {d}, !.unheard = deaf]
          /\ seen \in Notifications
      BY <1>1, <1>5, <2>1, ObservedType DEF RemoveDir
    <2>4. notify'.events = seen.events /\ notify'.overflowed = seen.overflowed
      <3> HIDE DEF seen
      <3> QED
        BY <2>3 DEF Notifications
    <2> QED
      BY <1>1, <2>1, <2>2, <2>4, ObservedGrows
  <1>6. ASSUME NEW d \in Dirs, CreateDir(d) PROVE Seen(d)
    <2>1. notify' = notify /\ d \notin notify.armed
      BY <1>1, <1>6 DEF CreateDir
    <2>2. \A g \in Files : DirOf[g] # d => disk'[g] = disk[g]
      BY <1>6 DEF CreateDir, ChangeDisk, In
    <2> QED
      BY <2>1, <2>2
  <1>7. PICK d \in Dirs : Seen(d)
    BY <1>3, <1>4, <1>5, <1>6 DEF Environment
  <1> QED
    BY <1>2, <1>7

(* A change of a file that is followed is told, unless its directory is    *)
(* forsaken.                                                               *)
LEMMA EnvironmentIsNoticed ==
  ASSUME FilesInv, Environment, NEW w \in Watchers, Follows(w), Noticed(w)
  PROVE  Noticed(w)'
  <1>1. /\ UNCHANGED <<vars, opts, read, workerVars>>
        /\ \A i \in DOMAIN notify.events :
             i \in DOMAIN notify'.events /\ notify'.events[i] = notify.events[i]
        /\ notify.overflowed => notify'.overflowed
    BY EnvironmentIsObserved DEF FilesInv
  <1>2. /\ pc' = pc /\ current' = current /\ read' = read /\ opts' = opts
        /\ watch' = watch /\ loop' = loop /\ debounce' = debounce
    BY <1>1 DEF vars, callVars, configVars, workerVars
  <1>3. Told(w) => Told(w)'
    BY <1>1, <1>2 DEF Told, Relevant, RemovedDirectory, WatchedDirs
  <1>4. PICK d \in Dirs :
          /\ \A f \in Files : DirOf[f] # d => disk'[f] = disk[f]
          /\ d \notin notify.armed
             \/ notify'.overflowed
             \/ \E i \in DOMAIN notify'.events :
                  \/ notify'.events[i].kind = "projected"
                  \/ notify'.events[i] = Event("directory", d)
                  \/ \E f \in Files : notify'.events[i] = Event("file", f)
    BY EnvironmentIsObserved DEF FilesInv
  <1>5. watch[w].files = Files
    BY DEF FilesInv, EveryFileIsWatched, Follows
  <1>6. CASE d \in WatchedDirs(w)
    <2> SUFFICES Told(w)'
      BY DEF Noticed
    <2>1. \/ d \in notify.armed \/ loop.lost # {}
          \/ \E i \in DOMAIN notify.events :
               notify.events[i] = Event("directory", d)
      BY <1>6 DEF Follows, Forsaken
    <2>2. ASSUME NEW i \in DOMAIN notify'.events,
                 \/ notify'.events[i].kind = "projected"
                 \/ notify'.events[i] = Event("directory", d)
                 \/ \E f \in Files : notify'.events[i] = Event("file", f)
          PROVE  Told(w)'
      <3> DEFINE event == notify'.events[i]
      <3>1. CASE event.kind = "projected"
        BY <3>1 DEF Told, Relevant, RemovedDirectory, WatchedDirs, DirsOf
      <3>2. CASE event = Event("directory", d)
        <4>1. event.kind = "directory" /\ event.name \in WatchedDirs(w)
          BY <1>6, <3>2 DEF Event
        <4> QED
          BY <1>2, <4>1 DEF Told, Relevant, RemovedDirectory, WatchedDirs, DirsOf
      <3>3. ASSUME NEW f \in Files, event = Event("file", f) PROVE Told(w)'
        <4>1. event.kind = "file" /\ event.name \in watch[w].files
          BY <1>5, <3>3 DEF Event
        <4> QED
          BY <1>2, <4>1 DEF Told, Relevant, RemovedDirectory, WatchedDirs, DirsOf
      <3> QED
        BY <2>2, <3>1, <3>2, <3>3
    <2>3. CASE d \in notify.armed
      <3>1. CASE notify'.overflowed
        BY <3>1 DEF Told, Relevant, RemovedDirectory, WatchedDirs, DirsOf
      <3> QED
        BY <1>4, <2>2, <2>3, <3>1
    <2>4. CASE loop.lost # {}
      BY <1>2, <2>4 DEF Told, Relevant, RemovedDirectory, WatchedDirs, DirsOf
    <2>5. ASSUME NEW i \in DOMAIN notify.events,
                 notify.events[i] = Event("directory", d)
          PROVE  Told(w)'
      BY <1>1, <2>2, <2>5
    <2> QED
      BY <2>1, <2>3, <2>4, <2>5
  <1>7. CASE d \notin WatchedDirs(w)
    <2>1. \A f \in Files : disk'[f] = disk[f]
      BY <1>4, <1>5, <1>7 DEF WatchedDirs, DirsOf
    <2>2. disk \in Contents /\ disk' \in Contents
      <3>1. WatchInv'
        BY WatchInvStep DEF FilesInv, WatchNext
      <3> QED
        BY <3>1 DEF FilesInv, WatchInv, LoadingInv, DiskGrows
    <2>3. disk' = disk
      BY <2>1, <2>2, LoadingAssumption
    <2>4. Upheld(w)' = Upheld(w)
      BY <1>2, <2>3 DEF Upheld, Fresh, Readable, Required, Reloading
    <2> QED
      BY <1>2, <1>3, <2>4 DEF Noticed
  <1> QED
    BY <1>6, <1>7

(* A watch that finds no file changed since the load starts with the disk  *)
(* published: stamps, snapshots and files follow one another.              *)
LEMMA GapIsNoticed ==
  ASSUME FilesInv, NEW w \in Watchers, CheckGap(w)
  PROVE  Noticed(w)'
  <1>1. /\ opts' = opts /\ disk' = disk /\ read' = read /\ current' = current
        /\ pc' = pc
    BY DEF CheckGap, loadingVars, vars, callVars, configVars, buildVars, diskVars
  <1>2. CASE FilesChangedSinceLoad
    <2>1. debounce' = Triggered(w)
      BY <1>2 DEF CheckGap
    <2> QED
      BY <2>1, TriggerIsTold DEF FilesInv, Noticed
  <1>3. CASE ~FilesChangedSinceLoad
    <2>1. configFiles = Files
      <3>1. Holds(w)
        BY DEF CheckGap, MoveWatch, Holds
      <3> QED
        BY <3>1, WatchFollowsBuild DEF FilesInv, EveryFileIsRead
    <2>2. \A f \in Files : fileStamps[f] # 0 /\ fileStamps[f] = disk[f]
      BY <1>3, <2>1 DEF FilesChangedSinceLoad
    <2>3. disk \in Contents /\ (Files # {} => current \in Contents)
      BY <2>1 DEF FilesInv, WatchInv, LoadingInv, DiskGrows, StoredInv,
                  TransactionInv, TypeOK, Snapshots
    <2>4. ASSUME Files # {}, NEW f \in Files
          PROVE  current[f] = disk[f] /\ read.merged[f] \in {0, disk[f]}
      <3>1. /\ current # None
            /\ disk[f] \in Nat /\ fileStamps[f] \in Nat /\ current[f] \in Nat
            /\ read.merged[f] \in Nat
        BY <2>3, <2>4, VersionsAreNumbers, ReloadAssumption
        DEF FilesInv, WatchInv
      <3> QED
        BY <2>2, <3>1 DEF FilesInv, VersionsGrow
    <2>5. current = disk \/ ~Readable
      <3>1. CASE Files = {}
        BY <2>3, <3>1, LoadingAssumption DEF Readable, Nothing
      <3>2. CASE Files # {}
        BY <2>3, <2>4, <3>2, LoadingAssumption
      <3> QED
        BY <3>1, <3>2
    <2>6. Upheld(w)
      BY <2>4, <2>5 DEF Upheld, Fresh
    <2>7. Upheld(w)' = Upheld(w)
      BY <1>1 DEF Upheld, Fresh, Readable, Required, Reloading
    <2> QED
      BY <2>6, <2>7 DEF Noticed
  <1> QED
    BY <1>2, <1>3

(* What is freshly read stays fresh, and what is published stays so, while *)
(* a transaction runs.                                                     *)
LEMMA WorksUphold ==
  ASSUME FilesInv, NEW p \in Processes, Works(p), NEW w \in Watchers, Upheld(w),
         Reloading(w) => Reloading(w)' \/ ~Readable \/ current' = disk
  PROVE  Upheld(w)'
  <1>1. /\ opts' = opts /\ disk' = disk
        /\ \A f \in Files : read'.merged[f] \in {read.merged[f], 0, disk[f]}
        /\ current' = current \/ (Fresh => current' = disk)
    BY WorksFreshly DEF FilesInv, WatchInv
  <1>2. Fresh
    BY DEF Upheld
  <1>3. Fresh'
    BY <1>1, <1>2 DEF Fresh
  <1>4. Readable' = Readable
    BY <1>1 DEF Readable, Required
  <1> QED
    BY <1>1, <1>2, <1>3, <1>4 DEF Upheld

(* Somebody else's transaction may publish, but only what is on the disk.  *)
LEMMA OthersNotice ==
  ASSUME FilesInv, NEW p \in Processes, Runs(p), NEW w \in Watchers, p # w,
         Noticed(w)
  PROVE  Noticed(w)'
  <1>1. Works(p) /\ UNCHANGED ownVars
    BY DEF Runs
  <1>2. pc'[w] = pc[w]
    BY <1>1, WorksAlone, WatchersCall DEF FilesInv, WatchInv, LoadingInv
  <1>3. Told(w) => Told(w)'
    BY <1>1 DEF Told, Relevant, RemovedDirectory, WatchedDirs, ownVars, workerVars
  <1>4. Upheld(w) => Upheld(w)'
    BY <1>1, <1>2, WorksUphold DEF Reloading
  <1> QED
    BY <1>2, <1>3, <1>4 DEF Noticed

(* The call a watch makes is answered: it is neither cancelled nor closed, *)
(* and reads the files anew.                                               *)
LEMMA OwnCallNotices ==
  ASSUME FilesInv, CallsAreWanted, NEW w \in Watchers, Runs(w), Follows(w),
         Noticed(w)
  PROVE  Noticed(w)'
  <1>1. Works(w) /\ UNCHANGED ownVars
    BY DEF Runs
  <1>2. w \in Processes /\ w # Builder /\ w \in Callers
    BY WatchersCall
  <1>3. Told(w) => Told(w)'
    BY <1>1 DEF Told, Relevant, RemovedDirectory, WatchedDirs, ownVars, workerVars
  <1>4. ~Closed /\ ~done /\ w \notin cancelled
    BY DEF Follows, CallsAreWanted, FilesInv, WatchInv, EndsForAReason
  <1>5. pc \in [Processes -> CallerAt \cup BuilderAt]
    BY DEF FilesInv, WatchInv, LoadingInv, TransactionInv, TypeOK
  <1>6. ASSUME pc[w] \in {"entry", "wait", "recheck"} PROVE Noticed(w)'
    <2>1. Otherwise(w) /\ DoReload(w)
      BY <1>1, <1>2, <1>6
      DEF Works, ReadNamed, ReadDiscovered, Stat, SkipFile, ReadFile, ReadFails,
          ReadDone, Find, NotFound, ReadFound, StampFound, ReadsFile, Discovers,
          Reads, StoreFiles, Commit, Count, End, Move, Otherwise
    <2>2. Entry(w) \/ Acquire(w) \/ Recheck(w)
      BY <1>4, <1>6, <2>1
      DEF DoReload, Attempt, GiveUp, Interrupted, Transaction, ReadIntoViper,
          Unmarshal, Validate, Lock, Check, Advance, Store, Count, ReportFailure,
          Release, Emit, Move, End
    <2>3. CASE Entry(w)
      BY <1>2, <1>4, <1>5, <2>3 DEF Entry, EntryOutcome, Move, Noticed
    <2>4. CASE Acquire(w)
      BY <1>2, <1>5, <2>4 DEF Acquire, Move, Noticed
    <2>5. CASE Recheck(w)
      <3>1. pc'[w] = "read"
        BY <1>2, <1>4, <1>5, <2>5 DEF Recheck, Move
      <3>2. read' = NotRead
        BY <2>1, <3>1 DEF Otherwise, Forget
      <3>3. Fresh' /\ Reloading(w)'
        BY <3>1, <3>2 DEF Fresh, NotRead, Nothing, Reloading
      <3> QED
        BY <3>3 DEF Noticed, Upheld
    <2> QED
      BY <2>2, <2>3, <2>4, <2>5
  <1>7. ASSUME Upheld(w) PROVE Upheld(w)'
    <2>1. Reloading(w) => Reloading(w)' \/ ~Readable \/ current' = disk
      BY <1>1, <1>4, <1>7, ReloadPublishes DEF FilesInv, WatchInv, Upheld
    <2> QED
      BY <1>1, <1>2, <1>7, <2>1, WorksUphold
  <1> QED
    BY <1>3, <1>6, <1>7 DEF Noticed

(* The loop never takes news off the queue without passing it on.          *)
LEMMA LoopNotices ==
  ASSUME WatchInv, NEW w \in Watchers, TakeEvent(w) \/ TakeError(w) \/ Retry(w),
         Noticed(w)
  PROVE  Noticed(w)'
  <1>1. CASE debounce' = Triggered(w)
    BY <1>1, TriggerIsTold DEF Noticed
  <1>2. CASE TakeEvent(w) /\ ~Relevant(w, Head(notify.events))
    <2>1. /\ UNCHANGED loadingVars /\ watch' = watch /\ debounce' = debounce
          /\ notify.events # <<>> /\ notify' = [notify EXCEPT !.events = Tail(@)]
          /\ loop' = loop
      BY <1>2 DEF TakeEvent, Relevant
    <2>2. notify \in Notifications /\ notify.events \in Seq(Events)
      BY WatchBefore DEF Notifications
    <2>3. /\ notify'.events = Tail(notify.events)
          /\ notify'.overflowed = notify.overflowed
      BY <2>1, <2>2 DEF Notifications
    <2>4. ASSUME NEW i \in DOMAIN notify.events, Relevant(w, notify.events[i])
          PROVE  i - 1 \in DOMAIN notify'.events
                 /\ notify'.events[i - 1] = notify.events[i]
      <3>1. i # 1
        BY <1>2, <2>1, <2>2, <2>4
      <3> QED
        BY <2>1, <2>2, <2>3, <3>1
    <2>5. Told(w) => Told(w)'
      BY <2>1, <2>3, <2>4
      DEF Told, Relevant, RemovedDirectory, WatchedDirs, DirsOf
    <2>6. pc'[w] = pc[w] /\ Upheld(w)' = Upheld(w)
      BY <2>1 DEF loadingVars, vars, callVars, configVars, buildVars, diskVars,
                  Upheld, Fresh, Readable, Required, Reloading
    <2> QED
      BY <2>5, <2>6 DEF Noticed
  <1> QED
    BY <1>1, <1>2 DEF TakeEvent, TakeError, Retry

(* A trigger becomes a timer, and either of them a call.                   *)
LEMMA DebouncerNotices ==
  ASSUME WatchInv, NEW w \in Watchers,
         TakeTrigger(w) \/ Expire(w) \/ ActionReturns(w) \/ LeaveRun(w),
         ~CtxDone(w), Noticed(w)
  PROVE  Noticed(w)'
  <1>1. debounce \in [Watchers -> Debouncers] /\ w \in Processes
    BY WatchBefore, WatchersCall
  <1>2. ASSUME Call(w) PROVE Noticed(w)'
    <2>1. pc \in [Processes -> CallerAt \cup BuilderAt]
      BY DEF WatchInv, LoadingInv, TransactionInv, TypeOK
    <2>2. pc'[w] = "entry"
      BY <1>1, <1>2, <2>1 DEF Call, Move
    <2> QED
      BY <2>2 DEF Noticed
  <1>3. CASE TakeTrigger(w)
    <2>1. CASE opts.debounce > 0
      <3>1. debounce'[w].expiry
        BY <1>1, <1>3, <2>1 DEF TakeTrigger, Debouncers
      <3>2. Told(w)'
        BY <3>1 DEF Told, Relevant, RemovedDirectory, WatchedDirs, DirsOf
      <3> QED
        BY <3>2 DEF Noticed
    <2>2. CASE ~(opts.debounce > 0)
      BY <1>2, <1>3, <2>2 DEF TakeTrigger
    <2> QED
      BY <2>1, <2>2
  <1>4. CASE Expire(w)
    BY <1>2, <1>4 DEF Expire
  <1>5. CASE ActionReturns(w)
    <2>1. /\ UNCHANGED <<loadingVars, notify, watch, loop>>
          /\ debounce' = [debounce EXCEPT ![w].at = "select"]
      BY <1>5 DEF ActionReturns
    <2>2. /\ debounce'[w].trigger = debounce[w].trigger
          /\ debounce'[w].expiry = debounce[w].expiry
      BY <1>1, <2>1 DEF Debouncers
    <2>3. /\ UNCHANGED <<disk, opts, read, current>> /\ pc' = pc
      BY <2>1 DEF loadingVars, vars, callVars, configVars, buildVars, diskVars
    <2> QED
      BY <2>1, <2>2, <2>3, NothingToNotice
  <1>6. CASE LeaveRun(w)
    BY <1>6 DEF LeaveRun
  <1> QED
    BY <1>3, <1>4, <1>5, <1>6

(* Every step of a Config on which a watch goes on following.              *)
LEMMA EveryStepNotices ==
  ASSUME FilesInv, CallsAreWanted, [WatchNext]_watchVars,
         NEW w \in Watchers, Follows(w), Follows(w)', Noticed(w)
  PROVE  Noticed(w)'
  <1>1. /\ watch \in [Watchers -> Watches] /\ debounce \in [Watchers -> Debouncers]
        /\ Holds(w) /\ watch[w].at \in {"establish", "loop"}
    BY WatchBefore DEF FilesInv, Follows, Holds
  <1>2. \A v \in Watchers \ {w} : watch[v].at \in {"idle", "returned"}
    BY <1>1 DEF FilesInv, WatchInv, SlotIsHeld, Holds
  <1>3. \A v \in Watchers \ {w} : debounce[v].at \notin {"select", "acting"}
    BY <1>2, WatchBefore DEF FilesInv
  <1>4. ASSUME notify' = notify, loop' = loop, debounce' = debounce,
               watch'[w].files = watch[w].files,
               UNCHANGED <<disk, opts, read, current>>, pc'[w] = pc[w]
        PROVE  Noticed(w)'
    BY <1>4, NothingToNotice
  <1>5. CASE Environment
    BY <1>5, EnvironmentIsNoticed
  <1>6. CASE Prepare /\ UNCHANGED ownVars
    <2>1. pc[Builder] = "done" /\ LoadingInv
      BY <1>1, WatchFollowsBuild DEF FilesInv, WatchInv
    <2> QED
      BY <1>6, <2>1, BeforeTheLoad
  <1>7. ASSUME NEW p \in Processes, Runs(p) PROVE Noticed(w)'
    BY <1>7, OthersNotice, OwnCallNotices
  <1>8. ASSUME NEW c \in Callers \ Watchers, Calls(c) PROVE Noticed(w)'
    <2>1. UNCHANGED <<notify, loop, debounce, watch, disk, opts, read, current>>
      BY <1>8 DEF Calls, CallReload, Call, ownVars, workerVars, configVars, buildVars
    <2>2. pc'[w] = pc[w]
      BY <1>8, WatchersCall
      DEF Calls, CallReload, Call, Move, FilesInv, WatchInv, LoadingInv,
          TransactionInv, TypeOK, Processes
    <2> QED
      BY <1>4, <2>1, <2>2
  <1>9. ASSUME NEW v \in Watchers, CancelReload(v) PROVE Noticed(w)'
    BY <1>4, <1>9
    DEF CancelReload, Cancel, transactionVars, ownVars, workerVars, buildVars,
        diskVars, configVars
  <1>10. ASSUME NEW k \in Closers, Shuts(k) PROVE Noticed(w)'
    <2>1. UNCHANGED <<callVars, configVars>>
      BY <1>10 DEF Shuts, Closes, CallClose, Close, Freeze, LockToClose,
                   StartClosing, AlreadyClosing, Signal, StopDispatcher,
                   DropHandlers, Finish
    <2> QED
      BY <1>4, <1>10, <2>1
      DEF Shuts, Closes, callVars, configVars, ownVars, workerVars, buildVars,
          diskVars
  <1>11. ASSUME NEW v \in Watchers, v # w,
                Claim(v) \/ WatchStep(v) \/ CancelOnClose(v) \/ StopWatch(v)
         PROVE  Noticed(w)'
    <2>1. Claim(v)
      BY <1>2, <1>11 DEF WatchStep, CancelOnClose, StopWatch
    <2>2. watch'[w] = watch[w]
      BY <1>1, <1>11, <2>1 DEF Claim, MoveWatch, LeaveWatch
    <2> QED
      BY <1>4, <2>1, <2>2
      DEF Claim, callVars, configVars, transactionVars, buildVars, diskVars
  <1>12. CASE Claim(w) \/ WatchStep(w) \/ CancelOnClose(w) \/ StopWatch(w)
    <2>1. CASE TakeEvent(w) \/ TakeError(w) \/ Retry(w)
      BY <2>1, LoopNotices DEF FilesInv
    <2>2. CASE Establish(w)
      <3>1. watch'[w].files = watch[w].files
        BY <1>1, <2>2 DEF Establish, MoveWatch, Watches
      <3> QED
        BY <1>4, <2>2, <3>1
        DEF Establish, loadingVars, vars, callVars, configVars, buildVars, diskVars
    <2>3. CASE CancelOnClose(w) \/ StopWatch(w)
      <3> PICK who : watch' = [watch EXCEPT ![w].ended = @ \cup {who}]
        BY <2>3 DEF CancelOnClose, StopWatch, EndContext
      <3>1. CtxDone(w)'
        <4>1. watch'[w].ended = watch[w].ended \cup {who}
          BY <1>1 DEF Watches
        <4> QED
          BY <4>1 DEF CtxDone
      <3> QED
        BY <3>1 DEF Follows
    <2>4. CASE LeaveLoop(w)
      BY <2>4 DEF LeaveLoop, Follows
    <2>5. ~( \/ Claim(w) \/ NewWatcher(w) \/ (\E d \in Dirs : Arm(w, d))
             \/ StartRun(w) \/ CheckGap(w) \/ Join(w) \/ Leave(w))
      BY <1>1 DEF Claim, NewWatcher, Arm, StartRun, CheckGap, Join, Leave,
                  MoveWatch, LeaveWatch
    <2> QED
      BY <1>12, <2>1, <2>2, <2>3, <2>4, <2>5 DEF WatchStep
  <1>13. ASSUME NEW v \in Watchers, RunsDebouncer(v) PROVE Noticed(w)'
    <2>1. v = w
      BY <1>3, <1>13 DEF RunsDebouncer
    <2>2. ~CtxDone(w) /\ w \in Processes
      BY WatchersCall DEF Follows
    <2> QED
      BY <1>7, <1>9, <1>13, <2>1, <2>2, DebouncerNotices
      DEF RunsDebouncer, Debounce, FilesInv
  <1>14. CASE UNCHANGED watchVars
    BY <1>4, <1>14
    DEF watchVars, loadingVars, vars, callVars, configVars, ownVars, workerVars,
        buildVars, diskVars
  <1> QED
    BY <1>5, <1>6, <1>7, <1>8, <1>9, <1>10, <1>11, <1>12, <1>13, <1>14
    DEF WatchNext, WatchRest, RunsBuilder, Processes

(* What a watch has noticed, while it goes on and when it starts.          *)
LEMMA ChangesAreNoticedStep ==
  ASSUME FilesInv, CallsAreWanted, ChangesAreNoticed, [WatchNext]_watchVars
  PROVE  ChangesAreNoticed'
  <1>1. \A w \in Watchers : Noticed(w) <=>
          \/ Alarmed(w)
          \/ /\ \A f \in Files : read.merged[f] \in {0, disk[f]}
             /\ current = disk \/ ~Readable \/ Reloading(w)
    BY NoticedIs DEF Noticed, Upheld, Fresh
  <1>2. ASSUME NEW w \in Watchers
        PROVE  Noticed(w)' <=>
                 \/ Alarmed(w)'
                 \/ /\ \A f \in Files : read'.merged[f] \in {0, disk'[f]}
                    /\ current' = disk' \/ ~Readable' \/ Reloading(w)'
    BY DEF Noticed, Upheld, Fresh, Alarmed, Told, Relevant, RemovedDirectory,
           WatchedDirs, DirsOf
  <1> SUFFICES ASSUME NEW w \in Watchers, Follows(w)' PROVE Noticed(w)'
    BY <1>2 DEF ChangesAreNoticed
  <1>3. watch'[w].at \in {"establish", "loop"}
    BY DEF Follows
  <1>4. CASE CheckGap(w)
    BY <1>4, GapIsNoticed
  <1>5. CASE ~CheckGap(w)
    <2>1. watch[w].at \in {"establish", "loop"}
      BY <1>3, <1>5, WatchMoves DEF FilesInv
    <2>2. ~CtxDone(w)
      BY WatchMoves DEF FilesInv, Follows, CtxDone
    <2>3. ~Closed
      BY ClosedStays DEF FilesInv, Follows
    <2>4. ~Forsaken(w)
      BY <1>3, <2>1, ForsakenStays DEF FilesInv, Follows
    <2>5. Follows(w)
      BY <2>1, <2>2, <2>3, <2>4 DEF Follows
    <2> QED
      BY <1>1, <2>5, EveryStepNotices DEF ChangesAreNoticed
  <1> QED
    BY <1>4, <1>5

(***************************************************************************)
(* What becomes of the directories of a watch.                             *)
(***************************************************************************)
Queued(d) ==
  \E i \in DOMAIN notify.events : notify.events[i] = Event("directory", d)

(* A directory that goes is queued by name, or did not fit in the queue.   *)
LEMMA DirectoriesAreObserved ==
  ASSUME WatchInv, Environment, NEW d \in Dirs
  PROVE  /\ Queued(d) => Queued(d)'
         /\ d \in notify.armed \cup notify.unheard =>
              d \in notify'.armed \cup notify'.unheard \/ Queued(d)'
  <1>1. notify \in Notifications /\ Len(notify.events) <= EventQueue
    BY DEF WatchInv, WatchTypes, WatchTypeOK, Notifications
  <1>2. \A i \in DOMAIN notify.events :
          i \in DOMAIN notify'.events /\ notify'.events[i] = notify.events[i]
    BY EnvironmentIsObserved
  <1>3. Queued(d) => Queued(d)'
    BY <1>2 DEF Queued
  <1> SUFFICES ASSUME d \in notify.armed \cup notify.unheard
               PROVE  d \in notify'.armed \cup notify'.unheard \/ Queued(d)'
    BY <1>3
  <1>4. ASSUME NEW f \in Files, ChangeFile(f)
        PROVE  d \in notify'.armed \cup notify'.unheard
    <2>1. Event("file", f) \in Events
      BY DEF Event, Events
    <2> QED
      BY <1>1, <1>4, <2>1, ObservedType DEF ChangeFile
  <1>5. ASSUME NEW e \in Dirs, Swap(e)
        PROVE  d \in notify'.armed \cup notify'.unheard
    <2>1. Event("projected", e) \in Events
      BY DEF Event, Events
    <2> QED
      BY <1>1, <1>5, <2>1, ObservedType DEF Swap
  <1>6. ASSUME NEW e \in Dirs, RemoveDir(e)
        PROVE  d \in notify'.armed \cup notify'.unheard \/ Queued(d)'
    <2> DEFINE seen == Observed(e, Event("directory", e))
               deaf == IF Overflows(e) THEN seen.unheard \cup {e} ELSE seen.unheard
    <2>1. Event("directory", e) \in Events
      BY DEF Event, Events
    <2>2. /\ seen \in Notifications /\ seen.armed = notify.armed
          /\ seen.unheard = notify.unheard
      BY <1>1, <2>1, ObservedType
    <2>3. e \in notify.armed =>
            \/ Overflows(e)
            \/ \E i \in DOMAIN seen.events : seen.events[i] = Event("directory", e)
      BY <1>1, <2>1, ObservedGrows
    <2>4. notify' = [seen EXCEPT !.armed = @ \ {e}, !.unheard = deaf]
      BY <1>6 DEF RemoveDir
    <2>5. deaf \in {notify.unheard, notify.unheard \cup {e}}
          /\ (Overflows(e) => e \in deaf)
      BY <2>2
    <2> HIDE DEF seen, deaf
    <2>6. /\ notify'.armed = notify.armed \ {e} /\ notify'.unheard = deaf
          /\ notify'.events = seen.events
      BY <2>2, <2>4 DEF Notifications
    <2>7. CASE d = e /\ d \in notify.armed
      BY <2>3, <2>5, <2>6, <2>7 DEF Queued
    <2>8. CASE d # e \/ d \in notify.unheard
      BY <2>5, <2>6, <2>8
    <2> QED
      BY <2>7, <2>8
  <1>7. ASSUME NEW e \in Dirs, CreateDir(e)
        PROVE  d \in notify'.armed \cup notify'.unheard
    BY <1>7 DEF CreateDir
  <1> QED
    BY <1>4, <1>5, <1>6, <1>7 DEF Environment

(* The steps of a loop lose sight of no directory either.                  *)
LEMMA LoopKeepsDirectories ==
  ASSUME WatchInv, NEW w \in Watchers, NEW d \in WatchedDirs(w),
         TakeEvent(w) \/ TakeError(w) \/ Retry(w)
  PROVE  /\ d \in notify.armed \cup notify.unheard \cup loop.lost =>
              d \in notify'.armed \cup notify'.unheard \cup loop'.lost
         /\ Queued(d) => Queued(d)' \/ d \in loop'.lost
  <1>1. /\ notify \in Notifications
        /\ loop \in [toArm : SUBSET Dirs, lost : SUBSET Dirs, retries : Nat]
    BY WatchBefore
  <1>2. CASE TakeEvent(w)
    <2> DEFINE event == Head(notify.events)
    <2>1. /\ notify.events # <<>>
          /\ notify' = [notify EXCEPT !.events = Tail(@)]
          /\ loop' = IF RemovedDirectory(w, event)
                       THEN [loop EXCEPT !.lost = @ \cup {event.name}] ELSE loop
      BY <1>2 DEF TakeEvent
    <2>2. /\ notify'.armed = notify.armed /\ notify'.unheard = notify.unheard
          /\ notify'.events = Tail(notify.events)
      BY <1>1, <2>1 DEF Notifications
    <2>3. /\ RemovedDirectory(w, event) => loop'.lost = loop.lost \cup {event.name}
          /\ loop.lost \subseteq loop'.lost
      BY <1>1, <2>1
    <2>4. Queued(d) => Queued(d)' \/ d \in loop'.lost
      <3> SUFFICES ASSUME NEW i \in DOMAIN notify.events,
                          notify.events[i] = Event("directory", d)
                   PROVE  Queued(d)' \/ d \in loop'.lost
        BY DEF Queued
      <3>1. notify.events \in Seq(Events)
        BY <1>1 DEF Notifications
      <3>2. CASE i = 1
        <4>1. event = Event("directory", d)
          BY <3>1, <3>2
        <4>2. RemovedDirectory(w, event) /\ event.name = d
          BY <4>1 DEF RemovedDirectory, Event
        <4> QED
          BY <2>3, <4>2
      <3>3. CASE i # 1
        <4>1. /\ i - 1 \in DOMAIN notify'.events
              /\ notify'.events[i - 1] = notify.events[i]
          BY <2>1, <2>2, <3>1, <3>3
        <4> QED
          BY <4>1 DEF Queued
      <3> QED
        BY <3>2, <3>3
    <2> QED
      BY <2>2, <2>3, <2>4
  <1>3. CASE TakeError(w)
    <2>1. loop' = loop /\ notify' = [notify EXCEPT !.overflowed = FALSE]
      BY <1>3 DEF TakeError
    <2>2. /\ notify'.armed = notify.armed /\ notify'.unheard = notify.unheard
          /\ notify'.events = notify.events
      BY <1>1, <2>1 DEF Notifications
    <2> QED
      BY <2>1, <2>2 DEF Queued
  <1>4. CASE Retry(w)
    <2>1. /\ notify' = [notify EXCEPT !.armed = @ \cup (loop.lost \cap present)]
          /\ loop' = [loop EXCEPT
                        !.lost = @ \ present,
                        !.retries = IF loop.lost \subseteq present THEN @ ELSE @ + 1]
      BY <1>4 DEF Retry, Rewatch
    <2>2. /\ notify'.armed = notify.armed \cup (loop.lost \cap present)
          /\ notify'.unheard = notify.unheard /\ notify'.events = notify.events
          /\ loop'.lost = loop.lost \ present
      BY <1>1, <2>1 DEF Notifications
    <2> QED
      BY <2>2 DEF Queued
  <1> QED
    BY <1>2, <1>3, <1>4

(* From NewWatcher on each directory of a watch is accounted for.          *)
LEMMA DirectoriesAreKnownStep ==
  ASSUME WatchInv, DirectoriesAreKnown, [WatchNext]_watchVars
  PROVE  DirectoriesAreKnown'
  <1> DEFINE
        Known(w, d) ==
          \/ watch[w].at = "arm" /\ d \in loop.toArm
          \/ d \in notify.armed \cup notify.unheard \cup loop.lost
          \/ Queued(d)
  <1> SUFFICES ASSUME NEW w \in Watchers, watch'[w].at \in Following,
                      NEW d \in WatchedDirs(w)'
               PROVE  Known(w, d)'
    BY DEF DirectoriesAreKnown, Following, Queued
  <1>1. /\ watch \in [Watchers -> Watches] /\ notify \in Notifications
        /\ loop \in [toArm : SUBSET Dirs, lost : SUBSET Dirs, retries : Nat]
        /\ WatchedDirs(w) \subseteq Dirs
    BY WatchBefore
  <1>2. CASE watch[w].at = "claimed"
    BY <1>2, WatchMoves DEF Following, WatchedDirs
  <1>3. CASE watch[w].at # "claimed"
    <2>1. watch[w].at \in Following /\ watch'[w].files = watch[w].files
      BY <1>3, WatchMoves
    <2>2. d \in WatchedDirs(w) /\ d \in Dirs
      BY <1>1, <2>1 DEF WatchedDirs
    <2>3. Known(w, d)
      BY <2>1, <2>2 DEF DirectoriesAreKnown, Following, Queued
    <2>4. \A v \in Watchers \ {w} : watch[v].at \in {"idle", "returned"}
      BY <2>1 DEF WatchInv, SlotIsHeld, Holds, Following
    <2>5. ASSUME notify' = notify, loop' = loop,
                 watch'[w].at = watch[w].at \/ watch[w].at # "arm"
          PROVE  Known(w, d)'
      BY <2>3, <2>5 DEF Queued
    <2>6. CASE Environment
      <3>1. loop' = loop /\ watch' = watch
        BY <2>6 DEF Environment, ChangeFile, Swap, RemoveDir, CreateDir, workerVars
      <3> QED
        BY <2>2, <2>3, <2>6, <3>1, DirectoriesAreObserved
    <2>7. CASE \/ RunsBuilder
               \/ \E c \in Callers \ Watchers : Calls(c)
               \/ \E p \in Processes : Runs(p)
               \/ \E v \in Watchers : CancelReload(v)
               \/ \E k \in Closers : Shuts(k)
               \/ UNCHANGED watchVars
      BY <2>5, <2>7, MachineryRuns DEF Machinery, ownVars, workerVars
    <2>8. ASSUME NEW v \in Watchers,
                 \/ Claim(v) \/ CancelOnClose(v) \/ StopWatch(v)
                 \/ TakeTrigger(v) \/ Expire(v) \/ ActionReturns(v) \/ LeaveRun(v)
          PROVE  Known(w, d)'
      <3>1. notify' = notify /\ loop' = loop
        BY <2>8 DEF Claim, CancelOnClose, StopWatch, EndContext, TakeTrigger,
                    Expire, ActionReturns, LeaveRun
      <3>2. CASE Claim(v)
        <4>1. v # w
          BY <2>1, <3>2 DEF Claim, MoveWatch, LeaveWatch, Following
        <4>2. watch'[w] = watch[w]
          BY <1>1, <3>2, <4>1 DEF Claim, MoveWatch, LeaveWatch
        <4> QED
          BY <2>5, <3>1, <4>2
      <3>3. CASE CancelOnClose(v) \/ StopWatch(v)
        <4>1. PICK who : watch' = [watch EXCEPT ![v].ended = @ \cup {who}]
          BY <3>3 DEF CancelOnClose, StopWatch, EndContext
        <4>2. watch'[w].at = watch[w].at
          BY <1>1, <4>1 DEF Watches
        <4> QED
          BY <2>5, <3>1, <4>2
      <3>4. CASE ~Claim(v) /\ ~CancelOnClose(v) /\ ~StopWatch(v)
        <4>1. watch' = watch
          BY <2>8, <3>4 DEF TakeTrigger, Expire, ActionReturns, LeaveRun
        <4> QED
          BY <2>5, <3>1, <4>1
      <3> QED
        BY <3>2, <3>3, <3>4
    <2>9. ASSUME NEW v \in Watchers, WatchStep(v) PROVE Known(w, d)'
      <3>1. v = w
        BY <2>4, <2>9 DEF WatchStep
      <3>2. ASSUME NEW e \in Dirs, Arm(w, e) PROVE Known(w, d)'
        <4>1. watch[w].at = "arm" /\ e \in loop.toArm
              /\ loop' = [loop EXCEPT !.toArm = @ \ {e}]
          BY <3>2 DEF Arm
        <4>2. e \in present
          BY <1>1, <3>2 DEF Arm, LeaveWatch, Following, Watches
        <4>3. watch' = watch /\ notify' = [notify EXCEPT !.armed = @ \cup {e}]
          BY <3>2, <4>2 DEF Arm
        <4>4. /\ notify'.armed = notify.armed \cup {e}
              /\ notify'.unheard = notify.unheard /\ notify'.events = notify.events
              /\ loop'.toArm = loop.toArm \ {e} /\ loop'.lost = loop.lost
          BY <1>1, <4>1, <4>3 DEF Notifications
        <4> QED
          BY <2>3, <4>1, <4>3, <4>4 DEF Queued
      <3>3. CASE StartRun(w)
        <4>1. notify' = notify /\ loop' = loop /\ loop.toArm = {}
          BY <3>3 DEF StartRun
        <4> QED
          BY <2>3, <4>1 DEF Queued
      <3>4. CASE CheckGap(w) \/ Establish(w)
        <4>1. notify' = notify /\ loop' = loop /\ watch[w].at # "arm"
          BY <3>4 DEF CheckGap, Establish, MoveWatch
        <4> QED
          BY <2>5, <4>1
      <3>5. CASE TakeEvent(w) \/ TakeError(w) \/ Retry(w)
        <4>1. watch[w].at # "arm"
          BY <3>5 DEF TakeEvent, TakeError, Retry, Loops
        <4> QED
          BY <2>2, <2>3, <3>5, <4>1, LoopKeepsDirectories
      <3>6. ~(NewWatcher(w) \/ LeaveLoop(w) \/ Join(w) \/ Leave(w))
        BY <1>1, <2>1
        DEF NewWatcher, LeaveLoop, Join, Leave, MoveWatch, LeaveWatch, Following,
            Watches
      <3> QED
        BY <2>9, <3>1, <3>2, <3>3, <3>4, <3>5, <3>6 DEF WatchStep
    <2> HIDE DEF Known
    <2> QED
      BY <2>6, <2>7, <2>8, <2>9, WatchersCall
      DEF WatchNext, WatchRest, RunsDebouncer, Debounce, Processes
  <1> QED
    BY <1>2, <1>3

(***************************************************************************)
(* The invariant, and what follows from it.                                *)
(***************************************************************************)

(* Before the options are applied nothing is said of any file.             *)
LEMMA FollowInvInit ==
  ASSUME WatchInit
  PROVE  FollowInv
  <1>1. cancelled = {}
    BY DEF WatchInit, LoadingInit, Init
  <1>2. opts.configFiles = <<>>
    BY DEF WatchInit, LoadingInit, DefaultOptions
  <1>3. DirectoriesAreKnown
    BY DEF WatchInit, DirectoriesAreKnown
  <1> QED
    BY <1>1, <1>2, <1>3 DEF FollowInv, CallsAreWanted, Complete

(* Every step keeps it; the options are complete before anybody watches.   *)
LEMMA FollowInvStep ==
  ASSUME WatchInv, FollowInv, [WatchNext]_watchVars
  PROVE  FollowInv'
  <1>1. CallsAreWanted' /\ DirectoriesAreKnown'
    BY CallsAreWantedStep, DirectoriesAreKnownStep DEF FollowInv
  <1>2. LoadingInv /\ LoadingStep
    BY WatchNextIsLoadingStep DEF WatchInv
  <1> SUFFICES ASSUME Complete'
               PROVE  VersionsGrow' /\ EveryFileIsRead' /\ EveryFileIsWatched'
                        /\ ChangesAreNoticed'
    BY <1>1 DEF FollowInv
  <1>3. VersionsGrow' /\ EveryFileIsRead'
    BY <1>2, VersionsGrowStep, EveryFileIsReadStep DEF FollowInv
  <1>4. EveryFileIsWatched'
    BY EveryFileIsWatchedStep DEF FollowInv
  <1>5. ChangesAreNoticed'
    <2>1. CASE Complete
      BY <2>1, ChangesAreNoticedStep DEF FollowInv, FilesInv
    <2>2. CASE ~Complete
      <3>1. Prepare
        BY <1>2, <2>2, OptionsStay
      <3>2. pc[Builder] = "read"
        BY <1>2, <3>1, BeforeTheLoad
      <3>3. \A w \in Watchers : ~Holds(w)
        BY <3>2, WatchFollowsBuild
      <3>4. \A w \in Watchers : watch'[w].at \notin {"establish", "loop"}
        BY <3>3, WatchMoves DEF CheckGap, MoveWatch, Holds
      <3> QED
        BY <3>4 DEF ChangesAreNoticed, Follows
    <2> QED
      BY <2>1, <2>2
  <1> QED
    BY <1>3, <1>4, <1>5

(* A directory of a watch is forsaken only by the overflow that swallowed  *)
(* the event of its removal; and when every file is required, a watch with *)
(* none forsaken has published what is on the disk, or is about to read    *)
(* it, or has just begun to, in every reachable state: whatever the order  *)
(* of events, triggers, timers, reads and writes.                          *)
THEOREM FilesAreFollowedClosely == WatchSpec => []FollowInv
  <1>1. WatchInit => WatchInv /\ FollowInv
    BY WatchInvInit, FollowInvInit
  <1>2. WatchInv /\ FollowInv /\ [WatchNext]_watchVars => WatchInv' /\ FollowInv'
    BY WatchInvStep, FollowInvStep
  <1> QED
    BY <1>1, <1>2, PTL DEF WatchSpec

(* A watch that has nothing left to do owes nothing to its files.          *)
LEMMA NoticedImpliesNotMissed ==
  ASSUME WatchInv, FollowInv, Required = Files
  PROVE  NothingIsMissed
  <1> SUFFICES ASSUME NEW w \in Watchers, AtRest(w), ~Deaf(w), Readable
               PROVE  current = disk
    BY DEF NothingIsMissed
  <1>1. pc[w] = "idle"
    BY DEF AtRest, WatchInv, DebouncerIsJoined
  <1>2. ~Forsaken(w)
    BY DEF AtRest, Loops, FollowInv, DirectoriesAreKnown, Deaf, Forsaken
  <1>3. Follows(w) /\ ~Alarmed(w) /\ ~Reloading(w)
    BY <1>1, <1>2 DEF AtRest, Loops, Follows, Alarmed, Reloading
  <1>4. CASE opts.configFiles = <<>>
    <2>1. Files = {}
      BY <1>4 DEF Required
    <2>2. disk = Nothing
      BY <2>1, LoadingAssumption
      DEF WatchInv, LoadingInv, DiskGrows, Nothing
    <2> QED
      BY <2>2 DEF Readable
  <1>5. CASE opts.configFiles # <<>>
    BY <1>3, <1>5 DEF FollowInv, Complete, ChangesAreNoticed
  <1> QED
    BY <1>4, <1>5

(* An established watch of files that are all required, once it has dealt  *)
(* with everything it was told, has published what they hold, unless the   *)
(* news that a directory had gone did not fit in the queue: no change is   *)
(* missed before the watch, while it starts, between stat and read, during *)
(* a reload, or in an overflow.                                            *)
THEOREM RequiredFilesAreNeverMissed ==
  WatchSpec => [](Required = Files => NothingIsMissed)
  <1>1. WatchInv /\ FollowInv => (Required = Files => NothingIsMissed)
    BY NoticedImpliesNotMissed
  <1> QED
    BY <1>1, WatchInvariant, FilesAreFollowedClosely, PTL

=============================================================================
