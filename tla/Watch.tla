-------------------------------- MODULE Watch --------------------------------
(***************************************************************************)
(* Following the files (watch.go, internal/debounce): Loading composed     *)
(* with directories, with the operating system's watcher, and with calls   *)
(* of Watch.                                                               *)
(*                                                                         *)
(* A call of Watch is one goroutine running the watch loop and one running *)
(* the debouncer, which is a caller of Reload; both bear the name of the   *)
(* watcher.  The steps of Loading that change a file are taken here        *)
(* together with the event that the change makes.                          *)
(***************************************************************************)
EXTENDS Loading

CONSTANTS
  Dirs,          \* the directories that hold the files
  DirOf,         \* the directory of each file
  Watchers,      \* goroutines that call Watch, once each
  EventQueue,    \* bound: how many events the operating system queues
  MaxRemovals,   \* bound: how often a directory is removed
  MaxRetries     \* bound: how many retries find the directory still gone

ASSUME WatchAssumption ==
  /\ DirOf \in [Files -> Dirs]
  /\ Watchers \subseteq Callers \ Witnesses
  /\ {EventQueue, MaxRemovals, MaxRetries} \subseteq Nat

VARIABLES
  present,   \* the directories that exist
  removals,  \* removals so far, for MaxRemovals
  notify,    \* the watcher: what it watches, its Events, an overflow in Errors;
             \* and, for the properties, the removals it could not tell of
  watch,     \* each call of Watch: where it is, what it returned, the files it
             \* follows, and who has ended its context
  loop,      \* the active loop: directories still to add, those it has lost,
             \* its retries for MaxRetries
  watching,  \* c.watching
  debounce   \* each debouncer: the trigger its channel holds, where it is, and
             \* whether its timer runs

dirVars == <<present, removals>>
workerVars == <<watch, loop, watching, debounce>>
ownVars == <<dirVars, notify, workerVars>>
transactionVars == <<buildVars, diskVars, read, storedVars>>
watchVars == <<loadingVars, ownVars>>

In(d) == {f \in Files : DirOf[f] = d}

Unwatched ==
  [armed |-> {}, events |-> <<>>, overflowed |-> FALSE, unheard |-> {}]

WatchInit ==
  /\ LoadingInit
  /\ present = Dirs
  /\ removals = 0
  /\ notify = Unwatched
  /\ watch = [w \in Watchers |->
                [at |-> "idle", verdict |-> "none", files |-> {}, ended |-> {}]]
  /\ loop = [toArm |-> {}, lost |-> {}, retries |-> 0]
  /\ watching = FALSE
  /\ debounce = [w \in Watchers |->
                   [trigger |-> 0, at |-> "none", expiry |-> FALSE]]

(***************************************************************************)
(* The file system and the events it makes.  An event that finds the queue *)
(* full is lost and an overflow reported.                                  *)
(***************************************************************************)
Event(kind, name) == [kind |-> kind, name |-> name]

Observed(d, event) ==
  IF d \notin notify.armed THEN notify
  ELSE IF Len(notify.events) < EventQueue
    THEN [notify EXCEPT !.events = Append(@, event)]
    ELSE [notify EXCEPT !.overflowed = TRUE]

ChangeFile(f) ==
  /\ \/ DirOf[f] \in present /\ Write(f)
     \/ Delete(f)
  /\ notify' = Observed(DirOf[f], Event("file", f))
  /\ UNCHANGED <<dirVars, workerVars>>

(* A projected volume swaps all its files at once, and no event names one. *)
Swap(d) ==
  /\ d \in present
  /\ ChangeDisk(In(d), changes + 2)
  /\ notify' = Observed(d, Event("projected", d))
  /\ UNCHANGED <<dirVars, workerVars>>

Overflows(d) == d \in notify.armed /\ Len(notify.events) >= EventQueue

(* The directory goes with its files, and the watch on it is gone.         *)
RemoveDir(d) ==
  /\ d \in present
  /\ removals < MaxRemovals
  /\ removals' = removals + 1
  /\ present' = present \ {d}
  /\ ChangeDisk(In(d), 0)
  /\ notify' = [Observed(d, Event("directory", d)) EXCEPT
                  !.armed = @ \ {d},
                  !.unheard = IF Overflows(d) THEN @ \cup {d} ELSE @]
  /\ UNCHANGED workerVars

CreateDir(d) ==
  /\ d \notin present
  /\ present' = present \cup {d}
  /\ ChangeDisk(In(d), changes + 2)
  /\ UNCHANGED <<removals, notify, workerVars>>

Environment ==
  \/ \E f \in Files : ChangeFile(f)
  \/ \E d \in Dirs : Swap(d) \/ RemoveDir(d) \/ CreateDir(d)

(***************************************************************************)
(* The debouncer.  When several cases of a select are ready Go takes any.  *)
(***************************************************************************)
CtxDone(w) == watch[w].ended # {}

(* A call sees at once that its context is done.  That of a watcher's call *)
(* is the watcher's; the others' never is.                                 *)
Unaware(p) == p \in Watchers /\ CtxDone(p) /\ p \notin cancelled

CancelReload(w) ==
  /\ Unaware(w)
  /\ Cancel(w)
  /\ UNCHANGED <<transactionVars, ownVars>>

\* Mutant: the channel holds every trigger.
TriggeredUncoalesced(w) == [debounce EXCEPT ![w].trigger = @ + 1]

(* The channel holds one trigger, which stands for any number of them.     *)
Triggered(w) == [debounce EXCEPT ![w].trigger = 1]

Selects(w) == debounce[w].at = "select"

(* A further trigger starts the delay again; without a delay the action    *)
(* runs at once.                                                           *)
TakeTrigger(w) ==
  /\ Selects(w)
  /\ debounce[w].trigger = 1
  /\ IF opts.debounce > 0
       THEN /\ debounce' = [debounce EXCEPT ![w].trigger = 0, ![w].expiry = TRUE]
            /\ UNCHANGED vars
       ELSE /\ debounce' = [debounce EXCEPT ![w].trigger = 0, ![w].at = "acting"]
            /\ Call(w)
  /\ UNCHANGED <<transactionVars, dirVars, notify, watch, loop, watching>>

Expire(w) ==
  /\ Selects(w)
  /\ debounce[w].expiry
  /\ debounce' = [debounce EXCEPT ![w].expiry = FALSE, ![w].at = "acting"]
  /\ Call(w)
  /\ UNCHANGED <<transactionVars, dirVars, notify, watch, loop, watching>>

\* Mutant: what was triggered during the action is taken to be covered by it.
ActionReturnsDrained(w) ==
  /\ debounce[w].at = "acting"
  /\ pc[w] = "idle"
  /\ debounce' = [debounce EXCEPT ![w].at = "select", ![w].trigger = 0]
  /\ UNCHANGED <<loadingVars, dirVars, notify, watch, loop, watching>>

ActionReturns(w) ==
  /\ debounce[w].at = "acting"
  /\ pc[w] = "idle"
  /\ debounce' = [debounce EXCEPT ![w].at = "select"]
  /\ UNCHANGED <<loadingVars, dirVars, notify, watch, loop, watching>>

LeaveRun(w) ==
  /\ CtxDone(w)
  /\ Selects(w)
  /\ debounce' = [debounce EXCEPT ![w].at = "exited", ![w].expiry = FALSE]
  /\ UNCHANGED <<loadingVars, dirVars, notify, watch, loop, watching>>

Debounce(w) ==
  \/ CancelReload(w)
  \/ TakeTrigger(w)
  \/ Expire(w)
  \/ ActionReturns(w)
  \/ LeaveRun(w)

(***************************************************************************)
(* Watch, up to its loop.                                                  *)
(***************************************************************************)
MoveWatch(w, from, to) ==
  /\ watch[w].at = from
  /\ watch' = [watch EXCEPT ![w].at = to]

LeaveWatch(w, from, to, result) ==
  /\ watch[w].at = from
  /\ watch' = [watch EXCEPT ![w].at = to, ![w].verdict = result]

DirsOf(followed) == {DirOf[f] : f \in followed}

WatchedDirs(w) == DirsOf(watch[w].files)

NotGranted == [busy |-> "busy", closed |-> "closed"]

Claim(w) ==
  /\ pc[Builder] = "done"
  /\ BeginWatch
  /\ IF BeginWatchOutcome = "ok"
       THEN MoveWatch(w, "idle", "claimed")
       ELSE LeaveWatch(w, "idle", "returned", NotGranted[BeginWatchOutcome])
  /\ UNCHANGED <<callVars, cpc, configVars, lockVars, transactionVars, dirVars,
                 notify, loop, watching, debounce>>

(* With no file there is nothing to watch; and the operating system may    *)
(* refuse a new watcher.                                                   *)
NewWatcher(w) ==
  /\ \/ /\ configFiles # {}
        /\ watch[w].at = "claimed"
        /\ watch' = [watch EXCEPT ![w].at = "arm", ![w].files = configFiles]
     \/ LeaveWatch(w, "claimed", "end", "failed")
  /\ loop' = [loop EXCEPT !.toArm = DirsOf(configFiles), !.lost = {}]
  /\ UNCHANGED <<loadingVars, dirVars, notify, watching, debounce>>

Arm(w, d) ==
  /\ watch[w].at = "arm"
  /\ d \in loop.toArm
  /\ loop' = [loop EXCEPT !.toArm = @ \ {d}]
  /\ IF d \in present
       THEN notify' = [notify EXCEPT !.armed = @ \cup {d}] /\ UNCHANGED watch
       ELSE LeaveWatch(w, "arm", "end", "failed") /\ UNCHANGED notify
  /\ UNCHANGED <<loadingVars, dirVars, watching, debounce>>

StartRun(w) ==
  /\ loop.toArm = {}
  /\ MoveWatch(w, "arm", "gap")
  /\ debounce' = [debounce EXCEPT ![w].at = "select"]
  /\ UNCHANGED <<loadingVars, dirVars, notify, loop, watching>>

EndContext(w, who) ==
  /\ watch' = [watch EXCEPT ![w].ended = @ \cup {who}]
  /\ UNCHANGED <<loadingVars, dirVars, notify, loop, watching, debounce>>

\* Mutant: nothing links the closing of the Config to the watch.
CancelOnCloseUnlinked(w) ==
  /\ watch[w].at \in {"gap", "establish", "loop"}
  /\ watch[w].ended = {"caller"}
  /\ EndContext(w, "close")

(* The goroutine of cancelOnClose, from StartRun on.                       *)
CancelOnClose(w) ==
  /\ watch[w].at \in {"gap", "establish", "loop"}
  /\ done
  /\ ~CtxDone(w)
  /\ EndContext(w, "close")

(* The caller of Watch cancels it.                                         *)
StopWatch(w) ==
  /\ watch[w].at \in {"claimed", "arm", "gap", "establish", "loop"}
  /\ "caller" \notin watch[w].ended
  /\ EndContext(w, "caller")

CheckGap(w) ==
  /\ MoveWatch(w, "gap", "establish")
  /\ debounce' = IF FilesChangedSinceLoad THEN Triggered(w) ELSE debounce
  /\ UNCHANGED <<loadingVars, dirVars, notify, loop, watching>>

Establish(w) ==
  /\ MoveWatch(w, "establish", "loop")
  /\ watching' = TRUE
  /\ UNCHANGED <<loadingVars, dirVars, notify, loop, debounce>>

(***************************************************************************)
(* The watch loop.                                                         *)
(***************************************************************************)
Loops(w) == watch[w].at = "loop"

RemovedDirectory(w, event) ==
  event.kind = "directory" /\ event.name \in WatchedDirs(w)

Relevant(w, event) ==
  \/ event.kind = "file" /\ event.name \in watch[w].files
  \/ event.kind = "projected"
  \/ RemovedDirectory(w, event)

\* Mutant: a directory that has gone is not looked for.
TakeEventForgetting(w) ==
  /\ Loops(w)
  /\ notify.events # <<>>
  /\ debounce' = IF Relevant(w, Head(notify.events)) THEN Triggered(w) ELSE debounce
  /\ notify' = [notify EXCEPT !.events = Tail(@)]
  /\ UNCHANGED <<loadingVars, dirVars, watch, loop, watching>>

(* That the event stream is closed cannot be seen here: only the deferred  *)
(* watcher.Close closes it.  So too in TakeError.                          *)
TakeEvent(w) ==
  /\ Loops(w)
  /\ notify.events # <<>>
  /\ LET event == Head(notify.events)
     IN  /\ debounce' = IF Relevant(w, event) THEN Triggered(w) ELSE debounce
         /\ loop' = IF RemovedDirectory(w, event)
                      THEN [loop EXCEPT !.lost = @ \cup {event.name}] ELSE loop
  /\ notify' = [notify EXCEPT !.events = Tail(@)]
  /\ UNCHANGED <<loadingVars, dirVars, watch, watching>>

(* emitWatchError is emitError: Delivery says what happens in it.          *)
TakeError(w) ==
  /\ Loops(w)
  /\ notify.overflowed
  /\ notify' = [notify EXCEPT !.overflowed = FALSE]
  /\ debounce' = Triggered(w)
  /\ UNCHANGED <<loadingVars, dirVars, watch, loop, watching>>

(* The retry timer runs while a directory is lost.                         *)
Rewatch ==
  /\ loop.lost # {}
  /\ loop.retries < MaxRetries \/ loop.lost \subseteq present
  /\ notify' = [notify EXCEPT !.armed = @ \cup (loop.lost \cap present)]
  /\ loop' = [loop EXCEPT
                !.lost = @ \ present,
                !.retries = IF loop.lost \subseteq present THEN @ ELSE @ + 1]
  /\ UNCHANGED <<loadingVars, dirVars, watch, watching>>

\* Mutant: a directory that is back is watched, and the loop waits for events.
RetryQuietly(w) == Loops(w) /\ Rewatch /\ UNCHANGED debounce

(* Whatever happened meanwhile was missed, so every retry reloads.         *)
Retry(w) == Loops(w) /\ Rewatch /\ debounce' = Triggered(w)

LeaveLoop(w) ==
  /\ CtxDone(w)
  /\ LeaveWatch(w, "loop", "join", IF Closed THEN "closed" ELSE "cancelled")
  /\ UNCHANGED <<loadingVars, dirVars, notify, loop, watching, debounce>>

\* Mutant: Watch returns without waiting for its debouncer.
JoinNobody(w) ==
  /\ MoveWatch(w, "join", "end")
  /\ watching' = FALSE
  /\ UNCHANGED <<loadingVars, dirVars, notify, loop, debounce>>

(* workers.Wait, then the first of the deferred calls.                     *)
Join(w) ==
  /\ debounce[w].at = "exited"
  /\ MoveWatch(w, "join", "end")
  /\ watching' = FALSE
  /\ UNCHANGED <<loadingVars, dirVars, notify, loop, debounce>>

(* The deferred watcher.Close, which nobody else can see, and EndWatch.    *)
Leave(w) ==
  /\ MoveWatch(w, "end", "returned")
  /\ EndWatch
  /\ notify' = Unwatched
  /\ UNCHANGED <<callVars, cpc, configVars, lockVars, transactionVars, dirVars,
                 loop, watching, debounce>>

WatchStep(w) ==
  /\ watch[w].at \notin {"idle", "returned"}
  /\ \/ NewWatcher(w)
     \/ \E d \in Dirs : Arm(w, d)
     \/ StartRun(w)
     \/ CheckGap(w)
     \/ Establish(w)
     \/ TakeEvent(w)
     \/ TakeError(w)
     \/ Retry(w)
     \/ LeaveLoop(w)
     \/ Join(w)
     \/ Leave(w)

(***************************************************************************)
(* The specification.                                                      *)
(***************************************************************************)
Runs(p) ==
  /\ pc[p] \notin {"idle", "done"}
  /\ pc[p] \in {"entry", "wait"} => ~Unaware(p)
  /\ Works(p)
  /\ UNCHANGED ownVars

(* The goroutine that runs a debouncer also makes its calls of Reload.      *)
RunsDebouncer(w) ==
  debounce[w].at \in {"select", "acting"} /\ (Debounce(w) \/ Runs(w))

RunsBuilder == (Prepare /\ UNCHANGED ownVars) \/ Runs(Builder)

(* The callers that are no watcher's debouncer.                            *)
Calls(c) == CallReload(c) /\ UNCHANGED ownVars

Shuts(k) == Closes(k) /\ UNCHANGED ownVars

WatchQuiescent ==
  /\ LoadingQuiescent
  /\ \A w \in Watchers :
       /\ debounce[w].trigger = 0 \/ debounce[w].at \notin {"select", "acting"}
       /\ \/ watch[w].at \in {"idle", "returned"}
          \/ Loops(w) /\ notify.events = <<>> /\ ~CtxDone(w)

WatchRest == WatchQuiescent /\ UNCHANGED watchVars

WatchNext ==
  \/ Environment
  \/ RunsBuilder
  \/ \E c \in Callers \ Watchers : Calls(c) \/ Runs(c)
  \/ \E w \in Watchers :
       \/ Claim(w)
       \/ WatchStep(w)
       \/ CancelOnClose(w)
       \/ StopWatch(w)
       \/ RunsDebouncer(w)
  \/ \E k \in Closers : Shuts(k)
  \/ WatchRest

WatchSpec == WatchInit /\ [][WatchNext]_watchVars

(* Goroutines run and timers fire.  Nothing makes anybody call Watch,      *)
(* Reload or Close, cancel a watch, or change a file.                      *)
WatchFairness ==
  /\ WF_watchVars(RunsBuilder)
  /\ \A c \in Callers \ Watchers : WF_watchVars(Runs(c))
  /\ \A w \in Watchers :
       /\ WF_watchVars(WatchStep(w))
       /\ WF_watchVars(CancelOnClose(w))
       /\ WF_watchVars(RunsDebouncer(w))
  /\ \A k \in Closers : WF_watchVars(cpc[k] # "idle" /\ Shuts(k))

FairWatchSpec == WatchSpec /\ WatchFairness

(***************************************************************************)
(* Properties.                                                             *)
(***************************************************************************)

(* Every variable holds what its Go counterpart can hold: the trigger is a *)
(* channel of one, whatever the event rate.                                *)
WatchTypeOK ==
  /\ present \subseteq Dirs
  /\ notify.armed \subseteq present
  /\ Len(notify.events) <= EventQueue
  /\ watch \in [Watchers ->
       [at : {"idle", "claimed", "arm", "gap", "establish", "loop", "join",
              "end", "returned"},
        verdict : {"none", "busy", "closed", "cancelled", "failed"},
        files : SUBSET Files,
        ended : SUBSET {"caller", "close"}]]
  /\ loop.toArm \cup loop.lost \subseteq Dirs
  /\ watching \in BOOLEAN
  /\ debounce \in [Watchers ->
       [trigger : {0, 1}, at : {"none", "select", "acting", "exited"},
        expiry : BOOLEAN]]

(* From claiming the slot until the last reload it caused has returned, a  *)
(* watch is alone: a new one is refused while an old one's debouncer lives. *)
Active(w) ==
  \/ watch[w].at \notin {"idle", "returned"}
  \/ debounce[w].at \in {"select", "acting"}
  \/ pc[w] # "idle"

OneWatchAtATime ==
  \A v, w \in Watchers : (Active(v) /\ Active(w)) => v = w

Required == {f \in Files : \E i \in DOMAIN opts.configFiles :
               opts.configFiles[i] = [path |-> f, optional |-> FALSE]}

(* What an acceptable disk would be read as is what it holds.              *)
Readable ==
  /\ disk # Nothing
  /\ disk \in Decodable
  /\ \A f \in Required : disk[f] # 0
  /\ \A f \in Files : disk[f] \notin Garbled
  /\ opts.validator = Nil \/ disk \in Valid

(* A watch in its loop has dealt with everything it was told.              *)
AtRest(w) ==
  /\ Loops(w)
  /\ ~CtxDone(w)
  /\ ~Closed
  /\ notify.events = <<>>
  /\ ~notify.overflowed
  /\ loop.lost = {}
  /\ debounce[w] = [trigger |-> 0, at |-> "select", expiry |-> FALSE]

(* The event that told of a removed directory was lost to an overflow: the *)
(* loop has no reason to watch the directory again.                        *)
Deaf(w) == WatchedDirs(w) \cap notify.unheard # {}

(* An established watch that has nothing left to do has published what the *)
(* files hold: nothing written before it, while it started, between the    *)
(* stats and reads of a reload, while a reload ran, while a directory was  *)
(* gone, or into a full queue has been missed, unless what did not fit in  *)
(* the queue was the news that a directory had gone.                       *)
NothingIsMissed ==
  \A w \in Watchers : (AtRest(w) /\ ~Deaf(w) /\ Readable) => current = disk

(* A watch that its caller did not cancel, but Close did, says so: the     *)
(* lifecycle reads closed before its channel does.                         *)
ClosedWatchSaysSo ==
  \A w \in Watchers :
    watch[w].verdict = "cancelled" => "caller" \in watch[w].ended

(* While a watch goes on the files, once they rest, are published: through *)
(* overflows, and a directory that disappears and comes back, unless the   *)
(* one event that would have told of its removal is lost.                  *)
FilesAreFollowed ==
  \A w \in Watchers :
    <>[](Loops(w) /\ ~CtxDone(w) /\ ~Closed /\ present = Dirs /\ ~Deaf(w))
      => <>[](Readable => current = disk)

(* Watch returns once it is cancelled, or the Config closed.               *)
WatchReturns ==
  \A w \in Watchers :
    (Loops(w) /\ (CtxDone(w) \/ Closed)) ~> watch[w].at = "returned"

(***************************************************************************)
(* The inductive invariant the proofs use.                                 *)
(***************************************************************************)
Events == [kind : {"file", "projected", "directory"}, name : Files \cup Dirs]

WatchTypes ==
  /\ WatchTypeOK
  /\ removals \in Nat
  /\ notify \in [armed : SUBSET Dirs, events : Seq(Events),
                 overflowed : BOOLEAN, unheard : SUBSET Dirs]
  /\ loop \in [toArm : SUBSET Dirs, lost : SUBSET Dirs, retries : Nat]

Holds(w) == watch[w].at \notin {"idle", "returned"}

(* One watch holds the slot, and the machine knows as long as it is open.  *)
SlotIsHeld ==
  /\ \A w \in Watchers : Holds(w) => state = "watching" \/ Closed
  /\ \A v, w \in Watchers : (Holds(v) /\ Holds(w)) => v = w

(* A debouncer runs between its start and its join, and only while it acts *)
(* is its call of Reload under way.                                        *)
DebouncerIsJoined ==
  \A w \in Watchers :
    /\ watch[w].at \in {"idle", "claimed", "arm"} => debounce[w].at = "none"
    /\ watch[w].at \in {"gap", "establish", "loop", "join"} =>
         debounce[w].at # "none"
    /\ watch[w].at \in {"end", "returned"} =>
         debounce[w].at \in {"none", "exited"}
    /\ pc[w] # "idle" => debounce[w].at = "acting"

(* Only closing ends a watch's context unless its caller does.             *)
EndsForAReason ==
  /\ done => Closed
  /\ \A w \in Watchers : "close" \in watch[w].ended => Closed
  /\ ClosedWatchSaysSo

WatchInv ==
  /\ LoadingInv
  /\ WatchTypes
  /\ SlotIsHeld
  /\ DebouncerIsJoined
  /\ EndsForAReason

(***************************************************************************)
(* The inductive invariant of a watch that follows every file.             *)
(***************************************************************************)
Complete == Required = Files /\ opts.configFiles # <<>>

(* What is stamped, published, read and on the disk follow one another.    *)
VersionsGrow ==
  \A f \in Files :
    /\ read.merged[f] <= changes + 1
    /\ disk[f] # 0 => read.merged[f] <= disk[f]
    /\ current = None => fileStamps[f] = 0
    /\ current # None =>
         /\ fileStamps[f] <= current[f]
         /\ current[f] <= changes + 1
         /\ disk[f] # 0 => current[f] <= disk[f]
         /\ read.merged[f] # 0 => current[f] <= read.merged[f]

(* Every file is read before anything is published, and stored with it.    *)
EveryFileIsRead ==
  /\ \A p \in Processes :
       pc[p] \in {"decode", "validate", "lock"} \cup Gated => read.files = Files
  /\ pc[Builder] \in {"ready", "done"} => configFiles = Files

(* A watch follows every file that the load has read.                      *)
EveryFileIsWatched ==
  \A w \in Watchers :
    watch[w].at \in {"arm", "gap", "establish", "loop"} =>
      watch[w].files = Files

(* A reload is to come, and will read the files anew.                      *)
Alarmed(w) ==
  \/ debounce[w].trigger = 1
  \/ debounce[w].expiry
  \/ pc[w] \in {"entry", "wait", "recheck"}
  \/ notify.overflowed
  \/ loop.lost # {}
  \/ \E i \in DOMAIN notify.events : Relevant(w, notify.events[i])

Reloading(w) ==
  pc[w] \in {"read", "decode", "validate", "lock", "check", "advance", "store"}

(* A directory that nothing will make the loop look at.                    *)
Forsaken(w) ==
  \E d \in WatchedDirs(w) :
    /\ d \notin notify.armed \cup loop.lost
    /\ \A i \in DOMAIN notify.events : notify.events[i] # Event("directory", d)

Follows(w) ==
  /\ watch[w].at \in {"establish", "loop"}
  /\ ~CtxDone(w) /\ ~Closed
  /\ ~Forsaken(w)

(* While none is to come, what has been read of a file is what it holds,   *)
(* and the disk is published, or being published, or cannot be.            *)
ChangesAreNoticed ==
  \A w \in Watchers : Follows(w) =>
    \/ Alarmed(w)
    \/ /\ \A f \in Files : read.merged[f] \in {0, disk[f]}
       /\ current = disk \/ ~Readable \/ Reloading(w)

(* Each directory of a watch is watched, is to be, is known to be lost, or *)
(* has gone in an event that is to be taken or that did not fit.           *)
DirectoriesAreKnown ==
  \A w \in Watchers : \A d \in WatchedDirs(w) :
    \/ watch[w].at \notin {"arm", "gap", "establish", "loop"}
    \/ watch[w].at = "arm" /\ d \in loop.toArm
    \/ d \in notify.armed \cup loop.lost \cup notify.unheard
    \/ \E i \in DOMAIN notify.events : notify.events[i] = Event("directory", d)

(* The context of a watcher's call is the watch's.                         *)
CallsAreWanted == \A w \in Watchers : w \in cancelled => CtxDone(w)

FollowInv ==
  /\ CallsAreWanted
  /\ DirectoriesAreKnown
  /\ Complete =>
       /\ VersionsGrow
       /\ EveryFileIsRead
       /\ EveryFileIsWatched
       /\ ChangesAreNoticed
=============================================================================
