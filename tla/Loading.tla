------------------------------ MODULE Loading ------------------------------
(***************************************************************************)
(* Constructing a Config from its options (constructor.go) and reading its *)
(* files (the read stage of reload.go): Reload composed with a file system *)
(* that changes at any moment.                                             *)
(*                                                                         *)
(* A configuration is a function from files to the version that was read,  *)
(* 0 for a file that was not.  Every write makes a fresh version, so a     *)
(* file's stamp is its version.  Where Reload has one step for reading,    *)
(* the stats and reads are here; the last of them is the step of Reload.   *)
(* Its Count is likewise preceded by the store of the file list.           *)
(***************************************************************************)
EXTENDS Reload, Options, Functions

CONSTANTS
  Files,       \* the files there may be
  Given,       \* the option lists a constructor may be called with
  Adopted,     \* the Viper instances it may be called with
  Garbled,     \* the versions that cannot be read or do not parse
  Witnesses,   \* the callers whose calls the history floor follows
  MaxChanges   \* bound: how often the file system changes

Vipers == [search : Seq(Files), file : Files \cup {Nil}]
Setups == [search : Seq(Files), file : Files \cup {Nil}, fails : BOOLEAN]

ASSUME LoadingAssumption ==
  /\ Witnesses \subseteq Callers
  /\ MaxChanges \in Nat
  /\ Contents = [Files -> 0 .. MaxChanges + 1]
  /\ Nil \notin Files
  /\ Adopted \subseteq {Nil} \cup Vipers
  /\ \A list \in Given :
       /\ list \in Seq(Range(list))
       /\ \A i \in DOMAIN list : IsOption(list[i], Files, Setups)
  /\ DefaultDebounce \in Nat
  /\ DefaultEventBuffer \in Nat \ {0}

VARIABLES
  given,        \* the options the constructor was called with
  build,        \* where it is before the load, and its next option or setup
  opts,         \* c.opts
  viper,        \* how the engine finds a file: search paths, and the one it has
  disk,         \* the version of each file, 0 when it is absent
  changes,      \* changes so far, for MaxChanges
  floor,        \* the oldest each file has been since a call began: a history
  read,         \* the readResult of the transaction under way, and its progress
  configFiles,  \* c.configFiles, without its order
  fileStamps    \* c.fileStamps, 0 for a file without one

buildVars == <<given, build, opts, viper>>
diskVars == <<disk, changes, floor>>
storedVars == <<configFiles, fileStamps>>
loadingVars == <<vars, buildVars, diskVars, read, storedVars>>

Nothing == [f \in Files |-> 0]

NotRead ==
  [layer |-> 1, stamp |-> 0, merged |-> Nothing, stamps |-> Nothing,
   files |-> {}]

LoadingInit ==
  /\ Init
  /\ engine = Nothing
  /\ given \in Given
  /\ build = [stage |-> "adopt", next |-> 1]
  /\ opts = DefaultOptions
  /\ viper \in Adopted
  /\ disk \in [Files -> {0, 1}]
  /\ changes = 0
  /\ floor = [c \in Witnesses |-> Nothing]
  /\ read = NotRead
  /\ configFiles = {}
  /\ fileStamps = Nothing

(***************************************************************************)
(* The file system, which anybody may change.                              *)
(***************************************************************************)
ChangeDisk(changed, version) ==
  /\ changes < MaxChanges
  /\ changes' = changes + 1
  /\ disk' = [f \in Files |-> IF f \in changed THEN version ELSE disk[f]]
  /\ floor' = [c \in Witnesses |->
                 [f \in Files |-> IF disk'[f] = 0 THEN 0 ELSE floor[c][f]]]
  /\ UNCHANGED <<vars, buildVars, read, storedVars>>

(* Writing a file in place, renaming another over it, or touching its mode. *)
Write(f) == ChangeDisk({f}, changes + 2)

Delete(f) == disk[f] # 0 /\ ChangeDisk({f}, 0)

(***************************************************************************)
(* The constructors, up to the initial load.                               *)
(***************************************************************************)
FreshViper == [search |-> <<>>, file |-> Nil]

Proceed(stage) == build' = [stage |-> stage, next |-> 1]

Another == build' = [build EXCEPT !.next = @ + 1]

Adopt ==
  /\ build.stage = "adopt"
  /\ Proceed(IF viper = Nil THEN "refused" ELSE "options")
  /\ UNCHANGED <<opts, viper>>

(* What a setup function does to the engine: it adds search paths and may  *)
(* name a file.                                                            *)
SetUp(fn) ==
  viper' = [search |-> viper.search \o fn.search,
            file |-> IF fn.file = Nil THEN viper.file ELSE fn.file]

\* Mutant: WithViperSetup runs its function when it is applied.
ApplyOptionAtOnce ==
  /\ build.stage = "options"
  /\ IF build.next > Len(given) THEN Proceed("load") /\ UNCHANGED <<opts, viper>>
     ELSE IF Mistaken(given[build.next])
       THEN Proceed("refused") /\ UNCHANGED <<opts, viper>>
       ELSE /\ opts' = Applied(opts, given[build.next])
            /\ Another
            /\ IF given[build.next].field = "viperSetup"
                 THEN SetUp(given[build.next].value[1]) ELSE UNCHANGED viper

ApplyOption ==
  /\ build.stage = "options"
  /\ IF build.next > Len(given) THEN Proceed("setup") /\ UNCHANGED opts
     ELSE IF Mistaken(given[build.next])
       THEN Proceed("refused") /\ UNCHANGED opts
       ELSE opts' = Applied(opts, given[build.next]) /\ Another
  /\ UNCHANGED viper

RunSetup ==
  /\ build.stage = "setup"
  /\ IF build.next > Len(opts.viperSetup) THEN Proceed("load") /\ UNCHANGED viper
     ELSE /\ SetUp(opts.viperSetup[build.next])
          /\ IF opts.viperSetup[build.next].fails THEN Proceed("refused")
                                                  ELSE Another
  /\ UNCHANGED opts

Prepare ==
  /\ Adopt \/ ApplyOption \/ RunSetup
  /\ UNCHANGED <<vars, given, diskVars, read, storedVars>>

(***************************************************************************)
(* The read stage, of the initial load and of every reload.                *)
(***************************************************************************)
Reads(p) == pc[p] = "read" /\ build.stage = "load"

\* Mutant: a transaction begins with what the one before it read.
ForgetNothing == UNCHANGED read

(* What one transaction reads is gone when the next one starts.            *)
Forget == read' = NotRead

EndRead(p, to) ==
  /\ ReadIntoViper(p)
  /\ (pc'[p] = "decode") = (to = "decode")
  /\ engine' = IF read.files = {} THEN engine ELSE read.merged
  /\ UNCHANGED <<given, build, opts, diskVars, storedVars>>

\* Mutant: a missing file is tolerated whatever has been published.
MayBeMissingAlways == opts.allowMissingFile

MayBeMissing == opts.allowMissingFile /\ configFiles = {}

ReadsOn(to) ==
  read' = to /\ UNCHANGED <<vars, buildVars, diskVars, storedVars>>

(* Named files are stamped and read one after the other, while they go on  *)
(* changing; the first that is read replaces what the engine held.         *)
File == opts.configFiles[read.layer]

ReadsFile(p) == Reads(p) /\ read.layer <= Len(opts.configFiles)

Stat(p) ==
  /\ ReadsFile(p)
  /\ read.stamp = 0
  /\ disk[File.path] # 0
  /\ ReadsOn([read EXCEPT !.stamp = disk[File.path]])

SkipFile(p) ==
  /\ ReadsFile(p)
  /\ read.stamp = 0
  /\ disk[File.path] = 0
  /\ File.optional
  /\ ReadsOn([read EXCEPT !.layer = @ + 1])

\* Mutant: the stamp is taken once the file has been read.
ReadFileFirst(p) ==
  /\ ReadsFile(p)
  /\ read.stamp # 0
  /\ disk[File.path] \notin Garbled \cup {0}
  /\ IF read.merged[File.path] = 0
       THEN ReadsOn([read EXCEPT !.merged[File.path] = disk[File.path]])
       ELSE ReadsOn([read EXCEPT !.stamps[File.path] = disk[File.path],
                                 !.files = @ \cup {File.path},
                                 !.layer = @ + 1,
                                 !.stamp = 0])

(* ReadInConfig or MergeInConfig: what is read may be newer than the stamp. *)
ReadFile(p) ==
  /\ ReadsFile(p)
  /\ read.stamp # 0
  /\ disk[File.path] \notin Garbled \cup {0}
  /\ ReadsOn([read EXCEPT !.merged[File.path] = disk[File.path],
                          !.stamps[File.path] = read.stamp,
                          !.files = @ \cup {File.path},
                          !.layer = @ + 1,
                          !.stamp = 0])

(* A file is missing, or gone again since its stat, or cannot be read.     *)
ReadFails(p) ==
  /\ ReadsFile(p)
  /\ \/ disk[File.path] = 0 /\ (read.stamp # 0 \/ ~File.optional)
     \/ disk[File.path] \in Garbled
  /\ EndRead(p, "fail")
  /\ Forget
  /\ UNCHANGED viper

(* When no file exists, the engine keeps what it held.                     *)
ReadDone(p) ==
  /\ Reads(p)
  /\ opts.configFiles # <<>>
  /\ read.layer > Len(opts.configFiles)
  /\ EndRead(p, IF read.files # {} \/ MayBeMissing THEN "decode" ELSE "fail")
  /\ UNCHANGED <<read, viper>>

(* With no file named, Viper looks for one, and never again once it found  *)
(* it.                                                                     *)
Discovers(p) == Reads(p) /\ opts.configFiles = <<>> /\ read.files = {}

Missing(i) == disk[viper.search[i]] = 0

Find(p) ==
  /\ Discovers(p)
  /\ viper.file = Nil
  /\ \E i \in DOMAIN viper.search :
       /\ ~Missing(i)
       /\ \A j \in 1 .. i - 1 : Missing(j)
       /\ viper' = [viper EXCEPT !.file = viper.search[i]]
  /\ UNCHANGED <<vars, given, build, opts, diskVars, read, storedVars>>

NotFound(p) ==
  /\ Discovers(p)
  /\ IF viper.file = Nil THEN \A i \in DOMAIN viper.search : Missing(i)
                         ELSE disk[viper.file] = 0
  /\ EndRead(p, IF MayBeMissing THEN "decode" ELSE "fail")
  /\ UNCHANGED <<read, viper>>

(* What ReadInConfig has read it has found: ConfigFileUsed is not empty.    *)
ReadFound(p) ==
  /\ Discovers(p)
  /\ viper.file # Nil
  /\ disk[viper.file] # 0
  /\ IF disk[viper.file] \in Garbled
       THEN EndRead(p, "fail") /\ UNCHANGED <<read, viper>>
       ELSE ReadsOn([read EXCEPT !.merged[viper.file] = disk[viper.file],
                                 !.files = {viper.file}])

(* The stamp comes after the read; without one the file counts as read.    *)
StampFound(p) ==
  /\ Reads(p)
  /\ opts.configFiles = <<>>
  /\ read.files # {}
  /\ read' = [read EXCEPT !.stamps[viper.file] = disk[viper.file]]
  /\ EndRead(p, "decode")
  /\ UNCHANGED viper

ReadNamed(p) ==
  \/ Stat(p)
  \/ SkipFile(p)
  \/ ReadFile(p)
  \/ ReadFails(p)
  \/ ReadDone(p)

ReadDiscovered(p) ==
  \/ Find(p)
  \/ NotFound(p)
  \/ ReadFound(p)
  \/ StampFound(p)

(***************************************************************************)
(* commit stores what was read with the snapshot it belongs to: the files, *)
(* then their stamps.  The counter stored before both, which nothing here  *)
(* reads, is joined to the second.                                         *)
(***************************************************************************)
StoreFiles(p) ==
  /\ pc[p] = "count"
  /\ read.files \notin {{}, configFiles}
  /\ configFiles' = read.files
  /\ UNCHANGED <<vars, buildVars, diskVars, read, fileStamps>>

Commit(p) ==
  /\ Count(p)
  /\ read.files \in {{}, configFiles}
  /\ fileStamps' = IF read.files = {} THEN fileStamps ELSE read.stamps
  /\ Forget
  /\ UNCHANGED <<buildVars, diskVars, configFiles>>

FilesChangedSinceLoad ==
  \E f \in configFiles : fileStamps[f] = 0 \/ fileStamps[f] # disk[f]

(***************************************************************************)
(* The specification.                                                      *)
(***************************************************************************)

(* Without a validator a candidate that decodes is accepted.               *)
Unvalidated(p) ==
  /\ opts.validator = Nil
  /\ Move(p, "validate", "lock")
  /\ UNCHANGED <<cand, change, outcome, cancelled, calls, cpc, configVars,
                 lockVars, lifecycleVars>>

(* The steps of Reload that have nothing to do with files.                 *)
Otherwise(p) ==
  /\ pc[p] \notin {"read", "count"}
  /\ IF pc[p] = "validate" /\ opts.validator = Nil THEN Unvalidated(p)
     ELSE IF p = Builder THEN New ELSE DoReload(p)
  /\ IF pc'[p] = "read" THEN Forget ELSE UNCHANGED read
  /\ UNCHANGED <<buildVars, diskVars, storedVars>>

Works(p) ==
  \/ ReadNamed(p)
  \/ ReadDiscovered(p)
  \/ StoreFiles(p)
  \/ Commit(p)
  \/ Otherwise(p)

(* Each caller calls once.                                                 *)
CallReload(c) ==
  /\ outcome[c] = "none"
  /\ Call(c)
  /\ floor' = [x \in Witnesses |-> IF x = c THEN disk ELSE floor[x]]
  /\ UNCHANGED <<buildVars, disk, changes, read, storedVars>>

Closes(k) ==
  /\ CallClose(k) \/ Close(k)
  /\ UNCHANGED <<buildVars, diskVars, read, storedVars>>

LoadingQuiescent == Quiescent \/ build.stage = "refused"

LoadingRest == LoadingQuiescent /\ UNCHANGED loadingVars

LoadingNext ==
  \/ Prepare
  \/ \E f \in Files : Write(f) \/ Delete(f)
  \/ \E p \in Processes : Works(p)
  \/ \E c \in Callers : CallReload(c)
  \/ \E k \in Closers : Closes(k)
  \/ LoadingRest

LoadingSpec == LoadingInit /\ [][LoadingNext]_loadingVars

(***************************************************************************)
(* Properties.                                                             *)
(***************************************************************************)
Versions == 0 .. MaxChanges + 1

(* Every variable holds what its Go counterpart can hold; the constructors *)
(* leave the bounds of the delay and of the queue as the options check them. *)
LoadingTypeOK ==
  /\ build.stage \in {"adopt", "options", "setup", "load", "refused"}
  /\ build.next \in 1 .. Len(given) + 1
  /\ opts.debounce >= 0 /\ opts.eventBuffer >= 1
  /\ viper = Nil \/ viper.file \in Files \cup {Nil}
  /\ disk \in Contents
  /\ read.layer \in 1 .. Len(opts.configFiles) + 1
  /\ read.stamp \in Versions
  /\ {read.merged, read.stamps, fileStamps} \subseteq Contents
  /\ read.files \cup configFiles \subseteq Files
  /\ floor \in [Witnesses -> Contents]

(* A constructor that refuses a mistaken option, wherever in its list, has *)
(* left the engine it was given as it was, read nothing and started        *)
(* nothing.                                                                *)
MistakesTouchNothing ==
  [][(\E i \in DOMAIN given : Mistaken(given[i]))
       => UNCHANGED <<vars, viper>>]_loadingVars

(* Every snapshot that is ever current was read from each file that was    *)
(* named as required, and, unless missing files are allowed, from some     *)
(* file at all: a file that goes away never demotes a running service.     *)
RequiredFilesAreRead ==
  current # None =>
    /\ \A f \in Files :
         (\E i \in DOMAIN given : given[i] = WithConfigFile(f)) => current[f] # 0
    /\ WithAllowMissingFile(TRUE) \in Range(given) \/ current # Nothing

(* Once a snapshot was read from files, the files that Status and Watch    *)
(* are told of are those that the current snapshot was read from.          *)
FilesBelongToSnapshot ==
  (~publishMu /\ configFiles # {}) =>
    configFiles = {f \in Files : current[f] # 0}

(* What every named file of a published snapshot is stamped with is no     *)
(* newer than what was read from it, so no change hides behind its stamp.  *)
StampsAreNotNewer ==
  (~publishMu /\ opts.configFiles # <<>>) =>
    \A f \in configFiles : fileStamps[f] <= current[f]

Named == {opts.configFiles[i].path : i \in DOMAIN opts.configFiles}

Followed == IF opts.configFiles # <<>> THEN Named ELSE {viper.file} \ {Nil}

(* A reload that succeeds has published each file at least as new as it    *)
(* was when Reload was called, whatever the transactions it waited for had *)
(* read: what a caller wrote before the call is in the snapshot.           *)
ReloadSeesEarlierWrites ==
  \A c \in Witnesses :
    (pc[c] = "emit" /\ outcome[c] = "published") =>
      \A f \in Followed : change[c].current[f] >= floor[c][f]

(* What the docs say of a reload that finds no file: while no snapshot was *)
(* read from a file, none holds anything of one.                           *)
NothingIsLeftOver ==
  (current # None /\ configFiles = {} /\ ~publishMu) => current = Nothing

(***************************************************************************)
(* The inductive invariant the proofs use.                                 *)
(***************************************************************************)

(* What the proofs need of Reload; its other parts depend on a validator.  *)
TransactionInv ==
  /\ TypeOK
  /\ Construction
  /\ Serialised
  /\ OneInGate
  /\ CommitsOnlyWhileOpen
  /\ EngineBelongsToTransaction
  /\ ChangesAgree

FileOptions == [path : Files, optional : BOOLEAN]

OptionTypes ==
  /\ opts = [configFiles |-> opts.configFiles,
             allowMissingFile |-> opts.allowMissingFile,
             validator |-> opts.validator,
             debounce |-> opts.debounce,
             eventBuffer |-> opts.eventBuffer,
             logger |-> opts.logger,
             decodeOptions |-> opts.decodeOptions,
             viperSetup |-> opts.viperSetup]
  /\ opts.configFiles \in Seq(FileOptions)
  /\ opts.allowMissingFile \in BOOLEAN
  /\ opts.debounce \in Nat
  /\ opts.eventBuffer \in Nat \ {0}
  /\ opts.viperSetup \in Seq(Setups)

(* How many of the given options have been applied.                        *)
AppliedSoFar ==
  CASE build.stage \in {"setup", "load"} -> Len(given)
    [] build.stage \in {"adopt", "options"} -> build.next - 1
    [] OTHER -> 0

BuildTypes ==
  /\ given \in Given
  /\ build \in [stage : {"adopt", "options", "setup", "load", "refused"},
                next : 1 .. Len(given) + 1]
  /\ build.stage = "adopt" => build.next = 1
  /\ build.stage = "setup" => build.next <= Len(opts.viperSetup) + 1
  /\ \/ viper \in Vipers
     \/ viper = Nil /\ build.stage \in {"adopt", "refused"}
  /\ OptionTypes

(* The options applied so far were right, and have set the fields they     *)
(* name.                                                                   *)
OptionsTaken ==
  /\ build.stage # "refused" => Len(opts.viperSetup) <= AppliedSoFar
  /\ \A i \in 1 .. AppliedSoFar :
       /\ ~Mistaken(given[i])
       /\ \A f \in Files : given[i] = WithConfigFile(f) =>
            [path |-> f, optional |-> FALSE] \in Range(opts.configFiles)
  /\ opts.allowMissingFile => WithAllowMissingFile(TRUE) \in Range(given)

(* Until they all are, and the setups have run, nothing is read.           *)
LoadComesLast ==
  build.stage # "load" =>
    /\ pc[Builder] = "read"
    /\ read = NotRead
    /\ current = None
    /\ configFiles = {}
    /\ fileStamps = Nothing

BuildInv == BuildTypes /\ OptionsTaken /\ LoadComesLast

(* Versions grow, and no file is older than a call saw it.                 *)
DiskGrows ==
  /\ disk \in Contents
  /\ changes \in 0 .. MaxChanges
  /\ \A f \in Files : disk[f] <= changes + 1
  /\ read.stamp <= changes + 1
  /\ floor \in [Witnesses -> Contents]
  /\ \A c \in Witnesses : \A f \in Files : floor[c][f] <= disk[f]

ReadTypes ==
  /\ read \in [layer : Nat \ {0}, stamp : 0 .. MaxChanges + 1,
               merged : Contents, stamps : Contents, files : SUBSET Files]
  /\ read.layer <= Len(opts.configFiles) + 1
  /\ read.stamp # 0 => read.layer <= Len(opts.configFiles)
  /\ configFiles \subseteq Files
  /\ fileStamps \in Contents

RequiredIn(contents) ==
  \A i \in DOMAIN opts.configFiles :
    ~opts.configFiles[i].optional => contents[opts.configFiles[i].path] # 0

(* A transaction that has read part of its files.                          *)
PartlyRead ==
  /\ read.files = {f \in Files : read.merged[f] # 0}
  /\ \A i \in 1 .. read.layer - 1 :
       ~opts.configFiles[i].optional
         => read.merged[opts.configFiles[i].path] # 0
  /\ opts.configFiles # <<>> =>
       \A f \in Files : read.stamps[f] <= read.merged[f]
  /\ read.stamp # 0 =>
       disk[File.path] = 0 \/ read.stamp <= disk[File.path]
  /\ (opts.configFiles = <<>> /\ read.files # {}) =>
       viper.file # Nil /\ read.files = {viper.file}

(* What has been read is no older than the call.                           *)
ReadSince(c) ==
  /\ \A i \in 1 .. read.layer - 1 :
       LET f == opts.configFiles[i].path IN read.merged[f] >= floor[c][f]
  /\ (opts.configFiles = <<>> /\ read.files # {}) =>
       read.merged[viper.file] >= floor[c][viper.file]

(* A transaction that has read its files and not yet committed.            *)
AllRead ==
  /\ read.files = {f \in Files : read.merged[f] # 0}
  /\ read.files # {} => engine = read.merged
  /\ read.files = {} => configFiles = {}
  /\ RequiredIn(engine)
  /\ opts.allowMissingFile \/ engine # Nothing
  /\ opts.configFiles # <<>> =>
       \A f \in Files : read.stamps[f] <= read.merged[f]

(* The files a transaction may have read: those it follows, and those that *)
(* an engine that has found none looks for.                                *)
Reached ==
  IF opts.configFiles = <<>> /\ viper.file = Nil THEN Range(viper.search)
                                                 ELSE Followed

NotOlder(contents, c) == \A f \in Reached : contents[f] >= floor[c][f]

ReadingOf(p) ==
  /\ pc[p] = "read" /\ build.stage = "load" =>
       PartlyRead /\ (p \in Witnesses => ReadSince(p))
  /\ pc[p] \in {"decode", "validate", "lock"} \cup Gated =>
       AllRead /\ (p \in Witnesses => NotOlder(engine, p))
  /\ (p \in Witnesses /\ pc[p] \in {"release", "report", "emit"}
       /\ outcome[p] = "published")
       => change[p].current \in Contents /\ NotOlder(change[p].current, p)

ReadingInv == \A p \in Processes : ReadingOf(p)

(* What the files and stamps that are stored say of the current snapshot,  *)
(* while no commit is between storing it and storing them.                 *)
StoredInv ==
  /\ current # None =>
       RequiredIn(current) /\ (opts.allowMissingFile \/ current # Nothing)
  /\ configFiles # {} => current # None
  /\ (configFiles # {} /\ \A p \in Processes : pc[p] # "count") =>
       /\ configFiles = {f \in Files : current[f] # 0}
       /\ opts.configFiles # <<>> =>
            \A f \in configFiles : fileStamps[f] <= current[f]

LoadingInv ==
  /\ TransactionInv
  /\ BuildInv
  /\ DiskGrows
  /\ ReadTypes
  /\ ReadingInv
  /\ StoredInv

(***************************************************************************)
(* What is published, with a validator and without.                        *)
(***************************************************************************)

(* What the options in force let through.                                  *)
Accepted ==
  IF opts.validator = Nil THEN Contents \cap Decodable ELSE Acceptable

(* Whether Reload's Valid is what the options in force let through, once   *)
(* they are all applied.                                                   *)
Judges ==
  build.stage = "load" => Accepted = Acceptable

(* Current hands out nothing but what the options in force let through, and *)
(* never nil once the Config exists: with a validator or without, whatever *)
(* the files become between their reads and the publication.               *)
OnlyAcceptedIsLoaded ==
  /\ current \in Accepted \cup {None}
  /\ state # "initializing" => current # None

(* What a reader of Current sees of a Config, whatever its options say of  *)
(* a validator: a register that takes configurations that decode.          *)
Decoded == INSTANCE Publication
  WITH Acceptable <- Contents \cap Decodable,
       generation <- Published, open <- ~Closed

(* What CandidatesPassed says of Reload, by the options in force.          *)
PassedStages ==
  /\ \A p \in Processes :
       /\ pc[p] = "validate" => cand[p] \in Contents \cap Decodable
       /\ pc[p] \in {"lock"} \cup Gated => cand[p] \in Accepted
  /\ current \in Accepted \cup {None}

(* LoadingInv, with what has been published and what is about to be.       *)
PublishingInv ==
  /\ LoadingInv
  /\ Counted
  /\ PassedStages

=============================================================================
