----------------------------- MODULE WatchProofs -----------------------------
(***************************************************************************)
(* Theorems about Watch for every set of files and directories, every set  *)
(* of watchers, any queue and any number of changes.  A step of Watch is   *)
(* one of those LoadingProofs is about, so what it proves of a snapshot    *)
(* holds under a watch that reloads again and again.                       *)
(***************************************************************************)
EXTENDS Watch, LoadingProofs

(***************************************************************************)
(* The steps of Watch as steps of Loading.                                 *)
(***************************************************************************)

(* Only a constructed Config has a watch.                                  *)
LEMMA WatchFollowsBuild ==
  ASSUME WatchInv, NEW w \in Watchers, Holds(w)
  PROVE  pc[Builder] = "done"
  BY DEF WatchInv, LoadingInv, TransactionInv, Construction, SlotIsHeld, Closed

(* Watchers are callers, and no history follows them.                      *)
LEMMA WatchersCall ==
  /\ Watchers \subseteq Callers
  /\ Watchers \subseteq Processes
  /\ Watchers \cap Witnesses = {}
  /\ Builder \notin Watchers
  BY WatchAssumption, ReloadAssumption DEF Processes

(* A debouncer's call of Reload is a call like any other.                  *)
LEMMA WatcherCalls ==
  ASSUME WatchInv, NEW w \in Watchers, Call(w), UNCHANGED transactionVars
  PROVE  Calling
  <1>1. floor \in [Witnesses -> Contents]
    BY DEF WatchInv, LoadingInv, DiskGrows
  <1>2. floor = [x \in Witnesses |-> IF x = w THEN disk ELSE floor[x]]
    BY <1>1, WatchersCall
  <1> QED
    BY <1>2, WatchersCall DEF Calling, transactionVars, diskVars

(* Every step is one that LoadingProofs is about.                          *)
LEMMA WatchNextIsLoadingStep ==
  ASSUME WatchInv, [WatchNext]_watchVars
  PROVE  LoadingStep
  <1>1. CASE Environment
    <2>1. \A f \in Files : {f} \in SUBSET Files
      OBVIOUS
    <2>2. \A d \in Dirs : In(d) \in SUBSET Files
      BY DEF In
    <2>3. DiskChanges
      BY <1>1, <2>1, <2>2
      DEF Environment, ChangeFile, Write, Delete, Swap, RemoveDir, CreateDir,
          DiskChanges
    <2> QED
      BY <2>3 DEF LoadingStep
  <1>2. CASE RunsBuilder
    BY <1>2 DEF RunsBuilder, Runs, LoadingStep, Processes
  <1>3. ASSUME NEW c \in Callers, Calls(c) \/ Runs(c) PROVE LoadingStep
    BY <1>3 DEF Calls, CallReload, Calling, Runs, LoadingStep, Processes
  <1>4. ASSUME NEW w \in Watchers, Claim(w) PROVE LoadingStep
    BY <1>4 DEF Claim, SlotMoves, LoadingStep, fileVars, transactionVars
  <1>5. ASSUME NEW w \in Watchers, WatchStep(w) PROVE LoadingStep
    <2>1. CASE Leave(w)
      BY <1>5, <2>1, WatchFollowsBuild
      DEF WatchStep, Holds, Leave, SlotMoves, LoadingStep, fileVars,
          transactionVars
    <2>2. CASE ~Leave(w)
      BY <1>5, <2>2
      DEF WatchStep, NewWatcher, Arm, StartRun, CheckGap, Establish, TakeEvent,
          TakeError, Retry, Rewatch, LeaveLoop, Join, LoadingStep
    <2> QED
      BY <2>1, <2>2
  <1>6. ASSUME NEW w \in Watchers, CancelOnClose(w) \/ StopWatch(w)
        PROVE  LoadingStep
    BY <1>6 DEF CancelOnClose, StopWatch, EndContext, LoadingStep
  <1>7. ASSUME NEW w \in Watchers, RunsDebouncer(w) PROVE LoadingStep
    <2>1. CASE Runs(w)
      BY <1>3, <2>1, WatchersCall
    <2>2. CASE CancelReload(w)
      BY <2>2, WatchersCall DEF CancelReload, LoadingStep, fileVars, transactionVars
    <2>3. CASE TakeTrigger(w) \/ Expire(w)
      <3>1. CASE Call(w)
        BY <2>3, <3>1, WatcherCalls DEF TakeTrigger, Expire, LoadingStep
      <3>2. CASE UNCHANGED vars
        BY <2>3, <3>2
        DEF TakeTrigger, Expire, LoadingStep, loadingVars, transactionVars
      <3> QED
        BY <2>3, <3>1, <3>2 DEF TakeTrigger, Expire
    <2>4. CASE ActionReturns(w) \/ LeaveRun(w)
      BY <2>4 DEF ActionReturns, LeaveRun, LoadingStep
    <2> QED
      BY <1>7, <2>1, <2>2, <2>3, <2>4 DEF RunsDebouncer, Debounce
  <1>8. ASSUME NEW k \in Closers, Shuts(k) PROVE LoadingStep
    BY <1>8 DEF Shuts, LoadingStep
  <1>9. CASE UNCHANGED watchVars
    BY <1>9 DEF watchVars, LoadingStep
  <1> QED
    BY <1>1, <1>2, <1>3, <1>4, <1>5, <1>6, <1>7, <1>8, <1>9
    DEF WatchNext, WatchRest

(***************************************************************************)
(* What the machinery of a Config does to a watch.                         *)
(***************************************************************************)

(* Nobody's call begins, the Config stays closed, and a step of the slot   *)
(* is none of theirs.                                                      *)
Machinery ==
  /\ UNCHANGED ownVars
  /\ \A w \in Watchers : pc[w] = "idle" => pc'[w] = "idle"
  /\ Closed => Closed'
  /\ state' = state \/ Closed' \/ state = "initializing"
  /\ done' => done \/ Closed'

(* A step of a transaction is of one goroutine, and moves the machine only *)
(* when New returns.                                                       *)
LEMMA WorksAlone ==
  ASSUME TransactionInv, NEW p \in Processes, Works(p)
  PROVE  /\ \A q \in Processes \ {p} : pc'[q] = pc[q]
         /\ done' = done
         /\ state' = state \/ (state = "initializing" /\ state' = "ready")
  <1> USE DEF TransactionInv, TypeOK, Processes, Move, End, lifecycleVars
  <1>1. CASE UNCHANGED vars
    BY <1>1 DEF vars, callVars
  <1>2. CASE Transaction(p)
    BY <1>2 DEF Transaction, ReadIntoViper, Unmarshal, Validate, Lock, Check,
                Advance, Store, Count, ReportFailure
  <1>3. CASE Unvalidated(p)
    BY <1>3 DEF Unvalidated
  <1>4. CASE p = Builder /\ Build
    BY <1>4 DEF Build, Ready
  <1>5. CASE p \in Callers /\ DoReload(p) /\ ~Transaction(p)
    BY <1>5 DEF DoReload, Attempt, Entry, Acquire, GiveUp, Interrupted, Recheck,
                Release, Emit
  <1>6. UNCHANGED vars \/ Transaction(p) \/ Otherwise(p)
    BY DEF Works, ReadNamed, ReadDiscovered, Stat, SkipFile, ReadFile, ReadFails,
           ReadDone, Find, NotFound, ReadFound, StampFound, ReadsOn, EndRead,
           StoreFiles, Commit, Transaction
  <1> QED
    BY <1>1, <1>2, <1>3, <1>4, <1>5, <1>6 DEF Otherwise, New, DoReload, Attempt

(* Closing neither runs a call nor opens what was closed.                  *)
LEMMA ClosesForGood ==
  ASSUME TransactionInv, NEW k \in Closers, Closes(k)
  PROVE  /\ pc' = pc
         /\ Closed => Closed'
         /\ state' = state \/ Closed'
         /\ done' => done \/ Closed'
  BY DEF TransactionInv, CommitsOnlyWhileOpen, Closes, CallClose, Close, Freeze,
         LockToClose, StartClosing, AlreadyClosing, Signal, StopDispatcher,
         DropHandlers, Finish, MoveCloser, BeginClose, SignalDone, FinishClose,
         Closed, callVars, lifecycleVars

(* Everything that is not a step of a watch or of its debouncer.           *)
LEMMA MachineryRuns ==
  ASSUME WatchInv,
         \/ RunsBuilder
         \/ \E c \in Callers \ Watchers : Calls(c)
         \/ \E p \in Processes : Runs(p)
         \/ \E w \in Watchers : CancelReload(w)
         \/ \E k \in Closers : Shuts(k)
         \/ UNCHANGED watchVars
  PROVE  Machinery
  <1>1. TransactionInv
    BY DEF WatchInv, LoadingInv
  <1>2. CASE Prepare /\ UNCHANGED ownVars
    BY <1>2 DEF Prepare, vars, callVars, lifecycleVars, Machinery, Closed
  <1>3. ASSUME NEW p \in Processes, Runs(p) PROVE Machinery
    BY <1>1, <1>3, WorksAlone, WatchersCall DEF Runs, Machinery, Closed
  <1>4. ASSUME NEW c \in Callers \ Watchers, Calls(c) PROVE Machinery
    BY <1>1, <1>4, WatchersCall
    DEF Calls, CallReload, Call, Move, TransactionInv, TypeOK, Processes,
        lifecycleVars, Machinery, Closed
  <1>5. ASSUME NEW w \in Watchers, CancelReload(w) PROVE Machinery
    BY <1>5 DEF CancelReload, Cancel, lifecycleVars, Machinery, Closed
  <1>6. ASSUME NEW k \in Closers, Shuts(k) PROVE Machinery
    BY <1>1, <1>6, ClosesForGood DEF Shuts, Machinery
  <1>7. CASE UNCHANGED watchVars
    BY <1>7 DEF watchVars, loadingVars, vars, callVars, lifecycleVars, Machinery,
                Closed
  <1> QED
    BY <1>2, <1>3, <1>4, <1>5, <1>6, <1>7 DEF RunsBuilder, Processes

(* None of it disturbs a watch.                                            *)
LEMMA MachineryKeeps ==
  ASSUME WatchInv, Machinery
  PROVE  WatchTypes' /\ SlotIsHeld' /\ DebouncerIsJoined' /\ EndsForAReason'
  <1>1. /\ present' = present /\ removals' = removals /\ notify' = notify
        /\ watch' = watch /\ loop' = loop /\ watching' = watching
        /\ debounce' = debounce
    BY DEF Machinery, ownVars, dirVars, workerVars
  <1>2. WatchTypes'
    BY <1>1 DEF WatchInv, WatchTypes, WatchTypeOK
  <1>3. SlotIsHeld'
    BY <1>1 DEF WatchInv, SlotIsHeld, Holds, Machinery, Closed
  <1>4. DebouncerIsJoined'
    BY <1>1 DEF WatchInv, DebouncerIsJoined, Machinery
  <1>5. EndsForAReason'
    BY <1>1 DEF WatchInv, EndsForAReason, ClosedWatchSaysSo, Machinery
  <1> QED
    BY <1>2, <1>3, <1>4, <1>5

(***************************************************************************)
(* The file system and the watcher.                                        *)
(***************************************************************************)
Notifications ==
  [armed : SUBSET Dirs, events : Seq(Events), overflowed : BOOLEAN,
   unheard : SUBSET Dirs]

(* An event is queued, reported lost, or of a directory nobody watches.    *)
LEMMA ObservedType ==
  ASSUME notify \in Notifications, Len(notify.events) <= EventQueue,
         NEW d, NEW event \in Events
  PROVE  /\ Observed(d, event) \in Notifications
         /\ Observed(d, event).armed = notify.armed
         /\ Observed(d, event).unheard = notify.unheard
         /\ Len(Observed(d, event).events) <= EventQueue
  <1>1. /\ notify = [armed |-> notify.armed, events |-> notify.events,
                     overflowed |-> notify.overflowed,
                     unheard |-> notify.unheard]
        /\ notify.armed \in SUBSET Dirs
        /\ notify.unheard \in SUBSET Dirs
        /\ notify.events \in Seq(Events)
        /\ notify.overflowed \in BOOLEAN
    BY DEF Notifications
  <1>2. CASE d \notin notify.armed
    BY <1>2 DEF Observed
  <1>3. CASE d \in notify.armed /\ Len(notify.events) < EventQueue
    <2> DEFINE more == Append(notify.events, event)
    <2>1. Observed(d, event) = [notify EXCEPT !.events = more]
      BY <1>1, <1>3 DEF Observed
    <2>2. more \in Seq(Events) /\ Len(more) = Len(notify.events) + 1
      BY <1>1
    <2>3. EventQueue \in Nat /\ Len(notify.events) \in Nat
      BY <1>1, WatchAssumption
    <2> HIDE DEF more
    <2>4. Observed(d, event) = [armed |-> notify.armed, events |-> more,
                                overflowed |-> notify.overflowed,
                                unheard |-> notify.unheard]
      BY <1>1, <2>1
    <2> QED
      BY <1>1, <1>3, <2>2, <2>3, <2>4 DEF Notifications
  <1>4. CASE d \in notify.armed /\ ~(Len(notify.events) < EventQueue)
    <2>1. Observed(d, event) = [armed |-> notify.armed, events |-> notify.events,
                                overflowed |-> TRUE,
                                unheard |-> notify.unheard]
      BY <1>1, <1>4 DEF Observed
    <2> QED
      BY <1>1, <2>1 DEF Notifications
  <1> QED
    BY <1>2, <1>3, <1>4

(* The disk changes, and what is there to watch; no goroutine takes part.  *)
LEMMA EnvironmentKeeps ==
  ASSUME WatchInv, Environment
  PROVE  WatchTypes' /\ SlotIsHeld' /\ DebouncerIsJoined' /\ EndsForAReason'
  <1>1. UNCHANGED <<vars, workerVars>>
    BY DEF Environment, ChangeFile, Write, Delete, Swap, RemoveDir, CreateDir,
           ChangeDisk
  <1>2. /\ pc' = pc /\ state' = state /\ done' = done
        /\ watch' = watch /\ loop' = loop /\ watching' = watching
        /\ debounce' = debounce
    BY <1>1 DEF vars, callVars, lifecycleVars, workerVars
  <1>3. SlotIsHeld' /\ DebouncerIsJoined' /\ EndsForAReason'
    BY <1>2 DEF WatchInv, SlotIsHeld, Holds, DebouncerIsJoined, EndsForAReason,
                ClosedWatchSaysSo, Closed
  <1>4. /\ notify \in Notifications /\ Len(notify.events) <= EventQueue
        /\ notify.armed \subseteq present /\ present \subseteq Dirs
        /\ removals \in Nat
    BY DEF WatchInv, WatchTypes, WatchTypeOK, Notifications
  <1>5. /\ notify' \in Notifications /\ Len(notify'.events) <= EventQueue
        /\ notify'.armed \subseteq present' /\ present' \subseteq Dirs
        /\ removals' \in Nat
    <2>1. ASSUME NEW f \in Files, ChangeFile(f)
          PROVE  /\ notify' \in Notifications
                 /\ Len(notify'.events) <= EventQueue
                 /\ notify'.armed \subseteq present' /\ present' \subseteq Dirs
                 /\ removals' \in Nat
      <3>1. Event("file", f) \in Events
        BY DEF Event, Events
      <3> QED
        BY <1>4, <2>1, <3>1, ObservedType DEF ChangeFile, dirVars
    <2>2. ASSUME NEW d \in Dirs, Swap(d)
          PROVE  /\ notify' \in Notifications
                 /\ Len(notify'.events) <= EventQueue
                 /\ notify'.armed \subseteq present' /\ present' \subseteq Dirs
                 /\ removals' \in Nat
      <3>1. Event("projected", d) \in Events
        BY DEF Event, Events
      <3> QED
        BY <1>4, <2>2, <3>1, ObservedType DEF Swap, dirVars
    <2>3. ASSUME NEW d \in Dirs, RemoveDir(d)
          PROVE  /\ notify' \in Notifications
                 /\ Len(notify'.events) <= EventQueue
                 /\ notify'.armed \subseteq present' /\ present' \subseteq Dirs
                 /\ removals' \in Nat
      <3> DEFINE seen == Observed(d, Event("directory", d))
      <3>1. Event("directory", d) \in Events
        BY DEF Event, Events
      <3>2. /\ seen \in Notifications /\ seen.armed = notify.armed
            /\ Len(seen.events) <= EventQueue
        BY <1>4, <3>1, ObservedType
      <3>3. PICK deaf \in {seen.unheard, seen.unheard \cup {d}} :
              notify' = [seen EXCEPT !.armed = @ \ {d}, !.unheard = deaf]
        BY <2>3 DEF RemoveDir
      <3> HIDE DEF seen
      <3>4. /\ notify' \in Notifications /\ notify'.armed = notify.armed \ {d}
            /\ notify'.events = seen.events
        BY <3>2, <3>3 DEF Notifications
      <3>5. present' = present \ {d} /\ removals' = removals + 1
        BY <2>3 DEF RemoveDir
      <3> QED
        BY <1>4, <3>2, <3>4, <3>5
    <2>4. ASSUME NEW d \in Dirs, CreateDir(d)
          PROVE  /\ notify' \in Notifications
                 /\ Len(notify'.events) <= EventQueue
                 /\ notify'.armed \subseteq present' /\ present' \subseteq Dirs
                 /\ removals' \in Nat
      BY <1>4, <2>4 DEF CreateDir
    <2> QED
      BY <2>1, <2>2, <2>3, <2>4 DEF Environment
  <1>6. WatchTypes'
    BY <1>2, <1>5 DEF WatchInv, WatchTypes, WatchTypeOK, Notifications
  <1> QED
    BY <1>3, <1>6

(***************************************************************************)
(* The watches.                                                            *)
(***************************************************************************)

At == {"idle", "claimed", "arm", "gap", "establish", "loop", "join", "end",
       "returned"}
Verdicts == {"none", "busy", "closed", "cancelled", "failed"}
Watches == [at : At, verdict : Verdicts, files : SUBSET Files,
            ended : SUBSET {"caller", "close"}]
Debouncers == [trigger : {0, 1}, at : {"none", "select", "acting", "exited"},
               expiry : BOOLEAN]

(* The records of the watches and of their debouncers.                     *)
LEMMA WatchesAreTyped ==
  ASSUME WatchInv
  PROVE  /\ watch \in [Watchers -> Watches]
         /\ debounce \in [Watchers -> Debouncers]
  BY DEF WatchInv, WatchTypes, WatchTypeOK, Watches, At, Verdicts, Debouncers

(* What is left to show of a step of one watch.                            *)
LEMMA OneWatchSteps ==
  ASSUME WatchInv, NEW w \in Watchers,
         UNCHANGED <<present, removals>>,
         notify' = notify \/
           /\ notify' \in Notifications
           /\ Len(notify'.events) <= EventQueue
           /\ notify'.armed \subseteq present,
         loop' \in [toArm : SUBSET Dirs, lost : SUBSET Dirs, retries : Nat],
         watching' \in BOOLEAN,
         watch' \in [Watchers -> Watches], debounce' \in [Watchers -> Debouncers],
         \A v \in Watchers \ {w} :
           pc'[v] = pc[v] /\ watch'[v] = watch[v] /\ debounce'[v] = debounce[v],
         Closed' = Closed, done' = done,
         watch'[w].at \notin {"idle", "returned"} =>
           /\ state' = "watching" \/ Closed
           /\ Holds(w) \/ \A v \in Watchers : ~Holds(v),
         state' = state \/ \A v \in Watchers \ {w} : ~Holds(v),
         watch'[w].at \in {"idle", "claimed", "arm"} => debounce'[w].at = "none",
         watch'[w].at \in {"gap", "establish", "loop", "join"} =>
           debounce'[w].at # "none",
         watch'[w].at \in {"end", "returned"} =>
           debounce'[w].at \in {"none", "exited"},
         pc'[w] # "idle" => debounce'[w].at = "acting",
         "close" \in watch'[w].ended => Closed,
         watch'[w].verdict = "cancelled" => "caller" \in watch'[w].ended
  PROVE  WatchTypes' /\ SlotIsHeld' /\ DebouncerIsJoined' /\ EndsForAReason'
  <1>1. WatchTypes'
    <2>1. /\ notify' \in Notifications
          /\ Len(notify'.events) <= EventQueue
          /\ notify'.armed \subseteq present'
      BY DEF WatchInv, WatchTypes, WatchTypeOK, Notifications
    <2>2. present' \subseteq Dirs /\ removals' \in Nat
      BY DEF WatchInv, WatchTypes, WatchTypeOK
    <2>3. loop'.toArm \cup loop'.lost \subseteq Dirs
      OBVIOUS
    <2> QED
      BY <2>1, <2>2, <2>3
      DEF WatchTypes, WatchTypeOK, Notifications, Watches, At, Verdicts,
          Debouncers
  <1>2. SlotIsHeld'
    <2>1. /\ \A v \in Watchers \ {w} : Holds(v)' => Holds(v)
          /\ Holds(w)' => watch'[w].at \notin {"idle", "returned"}
      BY DEF Holds
    <2>2. \A v \in Watchers : Holds(v)' => state' = "watching" \/ Closed'
      BY <2>1 DEF WatchInv, SlotIsHeld
    <2>3. \A u, v \in Watchers : (Holds(u)' /\ Holds(v)') => u = v
      BY <2>1 DEF WatchInv, SlotIsHeld
    <2> QED
      BY <2>2, <2>3 DEF SlotIsHeld, Holds
  <1>3. DebouncerIsJoined'
    BY DEF WatchInv, DebouncerIsJoined
  <1>4. EndsForAReason'
    BY DEF WatchInv, EndsForAReason, ClosedWatchSaysSo
  <1> QED
    BY <1>1, <1>2, <1>3, <1>4

(* A watch that goes from one point of its code to the next.               *)
LEMMA MoveWatchSteps ==
  ASSUME WatchInv, NEW w \in Watchers, NEW from, NEW to \in At,
         MoveWatch(w, from, to)
  PROVE  /\ watch' \in [Watchers -> Watches]
         /\ \A v \in Watchers \ {w} : watch'[v] = watch[v]
         /\ watch[w].at = from /\ watch'[w].at = to
         /\ watch'[w].verdict = watch[w].verdict
         /\ watch'[w].files = watch[w].files
         /\ watch'[w].ended = watch[w].ended
  BY WatchesAreTyped DEF MoveWatch, Watches

(* One that leaves with a verdict.                                         *)
LEMMA LeaveWatchSteps ==
  ASSUME WatchInv, NEW w \in Watchers, NEW from, NEW to \in At,
         NEW result \in Verdicts, LeaveWatch(w, from, to, result)
  PROVE  /\ watch' \in [Watchers -> Watches]
         /\ \A v \in Watchers \ {w} : watch'[v] = watch[v]
         /\ watch[w].at = from /\ watch'[w].at = to
         /\ watch'[w].verdict = result
         /\ watch'[w].files = watch[w].files
         /\ watch'[w].ended = watch[w].ended
  BY WatchesAreTyped DEF LeaveWatch, Watches

(* A trigger is put into the channel, and nothing else happens.            *)
LEMMA TriggeredSteps ==
  ASSUME WatchInv, NEW w \in Watchers
  PROVE  /\ Triggered(w) \in [Watchers -> Debouncers]
         /\ \A v \in Watchers \ {w} : Triggered(w)[v] = debounce[v]
         /\ Triggered(w)[w].at = debounce[w].at
  <1> DEFINE mine == [debounce[w] EXCEPT !.trigger = 1]
  <1>1. debounce \in [Watchers -> Debouncers] /\ debounce[w] \in Debouncers
    BY WatchesAreTyped
  <1>2. mine \in Debouncers /\ mine.at = debounce[w].at
    BY <1>1 DEF Debouncers
  <1>3. Triggered(w) = [debounce EXCEPT ![w] = mine]
    BY <1>1 DEF Triggered
  <1> HIDE DEF mine
  <1> QED
    BY <1>1, <1>2, <1>3

(* What is known of a watch before its step.                               *)
LEMMA WatchBefore ==
  ASSUME WatchInv, NEW w \in Watchers
  PROVE  /\ watch \in [Watchers -> Watches] /\ watch[w] \in Watches
         /\ debounce \in [Watchers -> Debouncers] /\ debounce[w] \in Debouncers
         /\ notify \in Notifications /\ Len(notify.events) <= EventQueue
         /\ notify.armed \subseteq present /\ present \subseteq Dirs
         /\ loop \in [toArm : SUBSET Dirs, lost : SUBSET Dirs, retries : Nat]
         /\ watching \in BOOLEAN
         /\ WatchedDirs(w) \subseteq Dirs
         /\ DirsOf(configFiles) \subseteq Dirs /\ configFiles \subseteq Files
         /\ Holds(w) => state = "watching" \/ Closed
         /\ watch[w].at \in {"idle", "claimed", "arm"} => debounce[w].at = "none"
         /\ watch[w].at \in {"gap", "establish", "loop", "join"} =>
              debounce[w].at # "none"
         /\ watch[w].at \in {"end", "returned"} =>
              debounce[w].at \in {"none", "exited"}
         /\ pc[w] # "idle" => debounce[w].at = "acting"
         /\ "close" \in watch[w].ended => Closed
         /\ watch[w].verdict = "cancelled" => "caller" \in watch[w].ended
         /\ done => Closed
  <1>1. watch[w].files \subseteq Files /\ configFiles \subseteq Files
    BY WatchesAreTyped DEF Watches, WatchInv, LoadingInv, ReadTypes
  <1>2. WatchedDirs(w) \subseteq Dirs /\ DirsOf(configFiles) \subseteq Dirs
    BY <1>1, WatchAssumption DEF WatchedDirs, DirsOf
  <1> QED
    BY <1>1, <1>2, WatchesAreTyped
    DEF WatchInv, WatchTypes, WatchTypeOK, Notifications, SlotIsHeld,
        DebouncerIsJoined, EndsForAReason, ClosedWatchSaysSo

(* Claiming the slot: only one that is free is claimed.                    *)
LEMMA ClaimKeeps ==
  ASSUME WatchInv, NEW w \in Watchers, Claim(w)
  PROVE  WatchTypes' /\ SlotIsHeld' /\ DebouncerIsJoined' /\ EndsForAReason'
  <1>1. /\ pc' = pc /\ done' = done /\ notify' = notify /\ loop' = loop
        /\ watching' = watching /\ debounce' = debounce
        /\ present' = present /\ removals' = removals
        /\ BeginWatch /\ watch[w].at = "idle"
    BY DEF Claim, callVars, dirVars, BeginWatch, MoveWatch, LeaveWatch
  <1>2. CASE BeginWatchOutcome = "ok"
    <2>1. state = "ready" /\ state' = "watching" /\ Closed' = Closed
      BY <1>1, <1>2 DEF BeginWatchOutcome, BeginWatch, Closed
    <2>2. MoveWatch(w, "idle", "claimed")
      BY <1>2 DEF Claim
    <2>3. \A v \in Watchers : ~Holds(v)
      BY <2>1 DEF WatchInv, SlotIsHeld, Closed
    <2> QED
      BY <1>1, <2>1, <2>2, <2>3, MoveWatchSteps, WatchBefore, OneWatchSteps DEF At
  <1>3. CASE BeginWatchOutcome # "ok"
    <2>1. BeginWatchOutcome \in {"busy", "closed"}
      BY <1>3 DEF BeginWatchOutcome
    <2>2. NotGranted[BeginWatchOutcome] \in {"busy", "closed"}
      BY <2>1 DEF NotGranted
    <2>3. LeaveWatch(w, "idle", "returned", NotGranted[BeginWatchOutcome])
      BY <1>3 DEF Claim
    <2>4. state' = state /\ Closed' = Closed
      BY <1>1, <1>3 DEF BeginWatch, Closed
    <2>5. /\ watch' \in [Watchers -> Watches]
          /\ \A v \in Watchers \ {w} : watch'[v] = watch[v]
          /\ watch'[w].at = "returned"
          /\ watch'[w].verdict \in {"busy", "closed"}
          /\ watch'[w].ended = watch[w].ended
      BY <2>2, <2>3, LeaveWatchSteps DEF At, Verdicts
    <2> QED
      BY <1>1, <2>4, <2>5, WatchBefore, OneWatchSteps
  <1> QED
    BY <1>2, <1>3

(* Starting: the watcher, its directories, the debouncer, the gap.         *)
LEMMA StartKeeps ==
  ASSUME WatchInv, NEW w \in Watchers,
         \/ NewWatcher(w) \/ (\E d \in Dirs : Arm(w, d)) \/ StartRun(w)
         \/ CheckGap(w) \/ Establish(w)
  PROVE  WatchTypes' /\ SlotIsHeld' /\ DebouncerIsJoined' /\ EndsForAReason'
  <1>1. /\ pc' = pc /\ done' = done /\ state' = state /\ Closed' = Closed
        /\ present' = present /\ removals' = removals
    BY DEF NewWatcher, Arm, StartRun, CheckGap, Establish, loadingVars, vars,
           callVars, lifecycleVars, dirVars, Closed
  <1>2. CASE NewWatcher(w)
    <2>1. /\ notify' = notify /\ watching' = watching /\ debounce' = debounce
          /\ loop' = [loop EXCEPT !.toArm = DirsOf(configFiles), !.lost = {}]
      BY <1>2 DEF NewWatcher
    <2>2. loop' \in [toArm : SUBSET Dirs, lost : SUBSET Dirs, retries : Nat]
      BY <2>1, WatchBefore
    <2>3. /\ watch' \in [Watchers -> Watches]
          /\ \A v \in Watchers \ {w} : watch'[v] = watch[v]
          /\ watch[w].at = "claimed" /\ watch'[w].at \in {"arm", "end"}
          /\ watch'[w].ended = watch[w].ended
          /\ watch'[w].verdict \in {watch[w].verdict, "failed"}
      <3>1. CASE LeaveWatch(w, "claimed", "end", "failed")
        BY <3>1, LeaveWatchSteps DEF At, Verdicts
      <3>2. CASE /\ watch[w].at = "claimed"
                 /\ watch' = [watch EXCEPT ![w].at = "arm", ![w].files = configFiles]
        <4> DEFINE mine == [watch[w] EXCEPT !.at = "arm", !.files = configFiles]
        <4>1. watch[w] \in Watches /\ configFiles \in SUBSET Files
          BY WatchBefore
        <4>2. /\ mine \in Watches /\ mine.at = "arm"
              /\ mine.ended = watch[w].ended /\ mine.verdict = watch[w].verdict
          BY <4>1 DEF Watches, At
        <4>3. watch \in [Watchers -> Watches] /\ watch' = [watch EXCEPT ![w] = mine]
          BY <3>2, WatchBefore
        <4> HIDE DEF mine
        <4> QED
          BY <3>2, <4>2, <4>3
      <3> QED
        BY <1>2, <3>1, <3>2 DEF NewWatcher
    <2> QED
      BY <1>1, <2>1, <2>2, <2>3, WatchBefore, OneWatchSteps DEF Holds
  <1>3. ASSUME NEW d \in Dirs, Arm(w, d)
        PROVE  WatchTypes' /\ SlotIsHeld' /\ DebouncerIsJoined' /\ EndsForAReason'
    <2>1. /\ watching' = watching /\ debounce' = debounce
          /\ loop' = [loop EXCEPT !.toArm = @ \ {d}] /\ watch[w].at = "arm"
      BY <1>3 DEF Arm
    <2>2. loop' \in [toArm : SUBSET Dirs, lost : SUBSET Dirs, retries : Nat]
      BY <2>1, WatchBefore
    <2>3. CASE d \in present
      <3>1. watch' = watch /\ notify' = [notify EXCEPT !.armed = @ \cup {d}]
        BY <1>3, <2>3 DEF Arm
      <3>2. /\ notify' \in Notifications /\ Len(notify'.events) <= EventQueue
            /\ notify'.armed \subseteq present
        BY <2>3, <3>1, WatchBefore DEF Notifications
      <3> QED
        BY <1>1, <2>1, <2>2, <3>1, <3>2, WatchBefore, OneWatchSteps DEF Holds
    <2>4. CASE d \notin present
      <3>1. LeaveWatch(w, "arm", "end", "failed") /\ notify' = notify
        BY <1>3, <2>4 DEF Arm
      <3> QED
        BY <1>1, <2>1, <2>2, <3>1, LeaveWatchSteps, WatchBefore, OneWatchSteps
        DEF At, Verdicts, Holds
    <2> QED
      BY <2>3, <2>4
  <1>4. CASE StartRun(w)
    <2>1. /\ notify' = notify /\ watching' = watching /\ loop' = loop
          /\ MoveWatch(w, "arm", "gap")
          /\ debounce' = [debounce EXCEPT ![w].at = "select"]
      BY <1>4 DEF StartRun
    <2>2. /\ debounce' \in [Watchers -> Debouncers]
          /\ \A v \in Watchers \ {w} : debounce'[v] = debounce[v]
          /\ debounce'[w].at = "select"
      BY <2>1, WatchBefore DEF Debouncers
    <2>3. pc[w] = "idle"
      BY <2>1, WatchBefore DEF MoveWatch
    <2> QED
      BY <1>1, <2>1, <2>2, <2>3, MoveWatchSteps, WatchBefore, OneWatchSteps
      DEF At, Holds
  <1>5. CASE CheckGap(w)
    <2>1. /\ notify' = notify /\ watching' = watching /\ loop' = loop
          /\ MoveWatch(w, "gap", "establish")
          /\ debounce' = debounce \/ debounce' = Triggered(w)
      BY <1>5 DEF CheckGap
    <2>2. /\ debounce' \in [Watchers -> Debouncers]
          /\ \A v \in Watchers \ {w} : debounce'[v] = debounce[v]
          /\ debounce'[w].at = debounce[w].at
      BY <2>1, WatchBefore, TriggeredSteps
    <2> QED
      BY <1>1, <2>1, <2>2, MoveWatchSteps, WatchBefore, OneWatchSteps
      DEF At, Holds
  <1>6. CASE Establish(w)
    <2>1. /\ notify' = notify /\ watching' = TRUE /\ loop' = loop
          /\ MoveWatch(w, "establish", "loop") /\ debounce' = debounce
      BY <1>6 DEF Establish
    <2> QED
      BY <1>1, <2>1, MoveWatchSteps, WatchBefore, OneWatchSteps
      DEF At, Holds
  <1> QED
    BY <1>2, <1>3, <1>4, <1>5, <1>6

(* A context that ends, and for what reason.                               *)
LEMMA EndContextKeeps ==
  ASSUME WatchInv, NEW w \in Watchers, CancelOnClose(w) \/ StopWatch(w)
  PROVE  WatchTypes' /\ SlotIsHeld' /\ DebouncerIsJoined' /\ EndsForAReason'
  <1>1. /\ pc' = pc /\ done' = done /\ state' = state /\ Closed' = Closed
        /\ present' = present /\ removals' = removals /\ notify' = notify
        /\ loop' = loop /\ watching' = watching /\ debounce' = debounce
    BY DEF CancelOnClose, StopWatch, EndContext, loadingVars, vars, callVars,
           lifecycleVars, dirVars, Closed
  <1>2. PICK who \in {"caller", "close"} :
          /\ watch' = [watch EXCEPT ![w].ended = @ \cup {who}]
          /\ who = "close" => done
    BY DEF CancelOnClose, StopWatch, EndContext
  <1> DEFINE mine == [watch[w] EXCEPT !.ended = watch[w].ended \cup {who}]
  <1>3. watch \in [Watchers -> Watches] /\ watch[w] \in Watches
    BY WatchesAreTyped
  <1>4. /\ mine \in Watches /\ mine.at = watch[w].at
        /\ mine.verdict = watch[w].verdict
        /\ mine.ended = watch[w].ended \cup {who}
    BY <1>3 DEF Watches
  <1>5. watch' = [watch EXCEPT ![w] = mine]
    BY <1>2, <1>3
  <1> HIDE DEF mine
  <1>6. /\ watch' \in [Watchers -> Watches] /\ watch'[w] = mine
        /\ \A v \in Watchers \ {w} : watch'[v] = watch[v]
    BY <1>3, <1>4, <1>5
  <1>7. /\ "close" \in watch'[w].ended => Closed
        /\ watch'[w].verdict = "cancelled" => "caller" \in watch'[w].ended
    BY <1>2, <1>4, <1>6, WatchBefore
  <1> QED
    BY <1>1, <1>4, <1>6, <1>7, WatchBefore, OneWatchSteps DEF Holds

(* The loop, which takes events and errors and looks for lost directories. *)
LEMMA LoopKeeps ==
  ASSUME WatchInv, NEW w \in Watchers,
         TakeEvent(w) \/ TakeError(w) \/ Retry(w) \/ LeaveLoop(w)
  PROVE  WatchTypes' /\ SlotIsHeld' /\ DebouncerIsJoined' /\ EndsForAReason'
  <1>1. /\ pc' = pc /\ done' = done /\ state' = state /\ Closed' = Closed
        /\ present' = present /\ removals' = removals /\ watching' = watching
        /\ watch[w].at = "loop"
    BY DEF TakeEvent, TakeError, Retry, Rewatch, LeaveLoop, LeaveWatch, Loops,
           loadingVars, vars, callVars, lifecycleVars, dirVars, Closed
  <1>2. /\ notify \in Notifications /\ Len(notify.events) <= EventQueue
        /\ notify.armed \subseteq present /\ present \subseteq Dirs
        /\ loop \in [toArm : SUBSET Dirs, lost : SUBSET Dirs, retries : Nat]
    BY WatchBefore
  <1>3. ASSUME debounce' = debounce \/ debounce' = Triggered(w), watch' = watch,
               loop' \in [toArm : SUBSET Dirs, lost : SUBSET Dirs, retries : Nat],
               /\ notify' \in Notifications
               /\ Len(notify'.events) <= EventQueue
               /\ notify'.armed \subseteq present
        PROVE  WatchTypes' /\ SlotIsHeld' /\ DebouncerIsJoined' /\ EndsForAReason'
    <2>1. /\ debounce' \in [Watchers -> Debouncers]
          /\ \A v \in Watchers \ {w} : debounce'[v] = debounce[v]
          /\ debounce'[w].at = debounce[w].at
      BY <1>3, WatchBefore, TriggeredSteps
    <2> QED
      BY <1>1, <1>3, <2>1, WatchBefore, OneWatchSteps DEF Holds
  <1>4. CASE TakeEvent(w)
    <2> DEFINE event == Head(notify.events)
    <2>1. /\ debounce' = debounce \/ debounce' = Triggered(w)
          /\ watch' = watch
          /\ loop' = IF RemovedDirectory(w, event)
                       THEN [loop EXCEPT !.lost = @ \cup {event.name}] ELSE loop
          /\ notify.events # <<>>
          /\ notify' = [notify EXCEPT !.events = Tail(@)]
      BY <1>4 DEF TakeEvent
    <2>2. RemovedDirectory(w, event) => event.name \in Dirs
      BY WatchBefore DEF RemovedDirectory
    <2> HIDE DEF event
    <2>3. loop' \in [toArm : SUBSET Dirs, lost : SUBSET Dirs, retries : Nat]
      <3>1. CASE RemovedDirectory(w, event)
        BY <1>2, <2>1, <2>2, <3>1
      <3>2. CASE ~RemovedDirectory(w, event)
        BY <1>2, <2>1, <3>2
      <3> QED
        BY <3>1, <3>2
    <2> DEFINE rest == Tail(notify.events)
    <2>4. rest \in Seq(Events) /\ Len(rest) <= EventQueue
      <3>1. notify.events \in Seq(Events) /\ EventQueue \in Nat
        BY <1>2, WatchAssumption DEF Notifications
      <3>2. rest \in Seq(Events) /\ Len(rest) = Len(notify.events) - 1
        BY <2>1, <3>1
      <3> QED
        BY <1>2, <3>1, <3>2
    <2>5. notify' = [notify EXCEPT !.events = rest]
      BY <2>1
    <2> HIDE DEF rest
    <2>6. /\ notify' \in Notifications /\ notify'.events = rest
          /\ notify'.armed = notify.armed
      BY <1>2, <2>4, <2>5 DEF Notifications
    <2> QED
      BY <1>2, <1>3, <2>1, <2>3, <2>4, <2>6
  <1>5. CASE TakeError(w)
    <2>1. /\ debounce' = Triggered(w) /\ watch' = watch /\ loop' = loop
          /\ notify' = [notify EXCEPT !.overflowed = FALSE]
      BY <1>5 DEF TakeError
    <2>2. /\ notify' \in Notifications /\ notify'.events = notify.events
          /\ notify'.armed = notify.armed
      BY <1>2, <2>1 DEF Notifications
    <2> QED
      BY <1>2, <1>3, <2>1, <2>2
  <1>6. CASE Retry(w)
    <2>1. /\ debounce' = Triggered(w) /\ watch' = watch
          /\ notify' = [notify EXCEPT !.armed = notify.armed \cup (loop.lost \cap present)]
          /\ loop' = [loop EXCEPT
                        !.lost = loop.lost \ present,
                        !.retries = IF loop.lost \subseteq present
                                      THEN loop.retries ELSE loop.retries + 1]
      BY <1>6 DEF Retry, Rewatch
    <2>2. loop' \in [toArm : SUBSET Dirs, lost : SUBSET Dirs, retries : Nat]
      <3> DEFINE n == IF loop.lost \subseteq present THEN loop.retries
                                                    ELSE loop.retries + 1
      <3>1. n \in Nat
        BY <1>2
      <3>2. loop' = [loop EXCEPT !.lost = loop.lost \ present, !.retries = n]
        BY <2>1
      <3> HIDE DEF n
      <3> QED
        BY <1>2, <3>1, <3>2
    <2>3. /\ notify' \in Notifications /\ notify'.events = notify.events
          /\ notify'.armed \subseteq present
      BY <1>2, <2>1 DEF Notifications
    <2> QED
      BY <1>2, <1>3, <2>1, <2>2, <2>3
  <1>7. CASE LeaveLoop(w)
    <2> PICK verdict \in Verdicts :
               /\ verdict = "cancelled" => ~Closed
               /\ LeaveWatch(w, "loop", "join", verdict)
      BY <1>7 DEF LeaveLoop, Verdicts
    <2>1. CtxDone(w) /\ notify' = notify /\ loop' = loop /\ debounce' = debounce
      BY <1>7 DEF LeaveLoop
    <2>2. /\ watch' \in [Watchers -> Watches]
          /\ \A v \in Watchers \ {w} : watch'[v] = watch[v]
          /\ watch'[w].at = "join" /\ watch'[w].verdict = verdict
          /\ watch'[w].ended = watch[w].ended
      <3>1. "join" \in At
        BY DEF At
      <3> QED
        BY <3>1, LeaveWatchSteps
    <2>3. watch[w].ended \subseteq {"caller", "close"} /\ watch[w].ended # {}
      BY <2>1, WatchesAreTyped DEF CtxDone, Watches
    <2>4. verdict = "cancelled" => "caller" \in watch[w].ended
      BY <2>3, WatchBefore
    <2> QED
      BY <1>1, <2>1, <2>2, <2>4, WatchBefore, OneWatchSteps DEF Holds
  <1> QED
    BY <1>4, <1>5, <1>6, <1>7

(* Waiting for the debouncer, then giving the slot back.                   *)
LEMMA ReturnKeeps ==
  ASSUME WatchInv, NEW w \in Watchers, Join(w) \/ Leave(w)
  PROVE  WatchTypes' /\ SlotIsHeld' /\ DebouncerIsJoined' /\ EndsForAReason'
  <1>1. CASE Join(w)
    <2>1. /\ pc' = pc /\ done' = done /\ state' = state /\ Closed' = Closed
          /\ present' = present /\ removals' = removals /\ notify' = notify
          /\ loop' = loop /\ watching' = FALSE /\ debounce' = debounce
          /\ debounce[w].at = "exited" /\ MoveWatch(w, "join", "end")
      BY <1>1 DEF Join, loadingVars, vars, callVars, lifecycleVars, dirVars, Closed
    <2>2. /\ watch' \in [Watchers -> Watches]
          /\ \A v \in Watchers \ {w} : watch'[v] = watch[v]
          /\ watch[w].at = "join" /\ watch'[w].at = "end"
          /\ watch'[w].verdict = watch[w].verdict
          /\ watch'[w].ended = watch[w].ended
      <3>1. "end" \in At
        BY DEF At
      <3> QED
        BY <2>1, <3>1, MoveWatchSteps
    <2> QED
      BY <2>1, <2>2, WatchBefore, OneWatchSteps DEF Holds
  <1>2. CASE Leave(w)
    <2>1. /\ pc' = pc /\ done' = done /\ present' = present
          /\ removals' = removals /\ notify' = Unwatched
          /\ loop' = loop /\ watching' = watching /\ debounce' = debounce
          /\ MoveWatch(w, "end", "returned")
      BY <1>2 DEF Leave, EndWatch, callVars, dirVars
    <2>2. Closed' = Closed
      BY <1>2 DEF Leave, EndWatch, Closed
    <2>3. Unwatched \in Notifications /\ Len(Unwatched.events) <= EventQueue
          /\ Unwatched.armed = {}
      BY WatchAssumption DEF Unwatched, Notifications
    <2>4. \A v \in Watchers \ {w} : ~Holds(v)
      BY <2>1 DEF MoveWatch, Holds, WatchInv, SlotIsHeld
    <2> QED
      BY <2>1, <2>2, <2>3, <2>4, MoveWatchSteps, WatchBefore, OneWatchSteps
      DEF At, Holds
  <1> QED
    BY <1>1, <1>2

(* The debouncer, which acts only while it is awaited.                     *)
LEMMA DebouncerKeeps ==
  ASSUME WatchInv, NEW w \in Watchers,
         TakeTrigger(w) \/ Expire(w) \/ ActionReturns(w) \/ LeaveRun(w)
  PROVE  WatchTypes' /\ SlotIsHeld' /\ DebouncerIsJoined' /\ EndsForAReason'
  <1>1. /\ done' = done /\ state' = state /\ Closed' = Closed
        /\ present' = present /\ removals' = removals /\ notify' = notify
        /\ watch' = watch /\ loop' = loop /\ watching' = watching
    BY DEF TakeTrigger, Expire, ActionReturns, LeaveRun, Call, loadingVars, vars,
           callVars, lifecycleVars, dirVars, Closed
  <1>2. /\ debounce \in [Watchers -> Debouncers] /\ debounce[w] \in Debouncers
    BY WatchesAreTyped
  <1>3. /\ debounce' \in [Watchers -> Debouncers]
        /\ \A v \in Watchers \ {w} : debounce'[v] = debounce[v]
        /\ debounce[w].at \in {"select", "acting"}
        /\ debounce'[w].at \in {"select", "acting", "exited"}
    BY <1>2 DEF TakeTrigger, Expire, ActionReturns, LeaveRun, Selects, Debouncers
  <1>4. /\ \A v \in Watchers \ {w} : pc'[v] = pc[v]
        /\ pc'[w] # "idle" => debounce'[w].at = "acting"
    <2>1. pc \in [Processes -> CallerAt \cup BuilderAt]
      BY DEF WatchInv, LoadingInv, TransactionInv, TypeOK
    <2>2. CASE Call(w) /\ (TakeTrigger(w) \/ Expire(w)) /\ debounce'[w].at = "acting"
      BY <2>1, <2>2, WatchersCall DEF Call, Move
    <2>3. CASE pc' = pc /\ debounce[w].at = "select"
      BY <2>3, WatchBefore
    <2>4. CASE pc' = pc /\ pc[w] = "idle"
      BY <2>4
    <2>5. CASE TakeTrigger(w)
      <3>1. CASE opts.debounce > 0
        BY <2>3, <2>5, <3>1 DEF TakeTrigger, Selects, vars, callVars
      <3>2. CASE ~(opts.debounce > 0)
        <4>1. Call(w) /\ debounce'[w].at = "acting"
          BY <1>2, <2>5, <3>2 DEF TakeTrigger, Debouncers
        <4> QED
          BY <2>2, <2>5, <4>1
      <3> QED
        BY <3>1, <3>2
    <2>6. CASE Expire(w)
      <3>1. Call(w) /\ debounce'[w].at = "acting"
        BY <1>2, <2>6 DEF Expire, Debouncers
      <3> QED
        BY <2>2, <2>6, <3>1
    <2>7. CASE ActionReturns(w)
      BY <2>4, <2>7 DEF ActionReturns, loadingVars, vars, callVars
    <2>8. CASE LeaveRun(w)
      BY <2>3, <2>8 DEF LeaveRun, Selects, loadingVars, vars, callVars
    <2> QED
      BY <2>5, <2>6, <2>7, <2>8
  <1>5. watch[w].at \in {"gap", "establish", "loop", "join"}
    BY <1>3, WatchBefore DEF Watches, At
  <1> QED
    BY <1>1, <1>3, <1>4, <1>5, WatchBefore, OneWatchSteps DEF Holds

(***************************************************************************)
(* The invariant.                                                          *)
(***************************************************************************)

(* Before anybody calls Watch there is no watch.                           *)
LEMMA WatchInvInit ==
  ASSUME WatchInit
  PROVE  WatchInv
  <1>1. LoadingInv
    BY LoadingInvInit DEF WatchInit
  <1>2. /\ watch = [w \in Watchers |->
                     [at |-> "idle", verdict |-> "none", files |-> {}, ended |-> {}]]
        /\ debounce = [w \in Watchers |->
                     [trigger |-> 0, at |-> "none", expiry |-> FALSE]]
        /\ notify = Unwatched
        /\ loop = [toArm |-> {}, lost |-> {}, retries |-> 0]
        /\ present = Dirs /\ removals = 0 /\ watching = FALSE
    BY DEF WatchInit
  <1>3. WatchTypes
    <2>1. /\ notify \in Notifications /\ Len(notify.events) <= EventQueue
          /\ notify.armed = {}
      BY <1>2, WatchAssumption DEF Unwatched, Notifications
    <2> QED
      BY <1>2, <2>1 DEF WatchTypes, WatchTypeOK, Notifications
  <1>4. SlotIsHeld
    BY <1>2 DEF SlotIsHeld, Holds
  <1>5. \A w \in Watchers : pc[w] = "idle"
    BY WatchersCall DEF WatchInit, LoadingInit, Init
  <1>6. DebouncerIsJoined
    BY <1>2, <1>5 DEF DebouncerIsJoined
  <1>7. done = FALSE
    BY DEF WatchInit, LoadingInit, Init, LifecycleInit
  <1>8. EndsForAReason
    BY <1>2, <1>7 DEF EndsForAReason, ClosedWatchSaysSo
  <1> QED
    BY <1>1, <1>3, <1>4, <1>6, <1>8 DEF WatchInv

(* Every step keeps it.                                                    *)
LEMMA WatchInvStep ==
  ASSUME WatchInv, [WatchNext]_watchVars
  PROVE  WatchInv'
  <1>1. LoadingInv'
    BY WatchNextIsLoadingStep, LoadingInvStep DEF WatchInv
  <1>2. WatchTypes' /\ SlotIsHeld' /\ DebouncerIsJoined' /\ EndsForAReason'
    <2>1. CASE Environment
      BY <2>1, EnvironmentKeeps
    <2>2. CASE \/ RunsBuilder
               \/ \E c \in Callers \ Watchers : Calls(c)
               \/ \E p \in Processes : Runs(p)
               \/ \E w \in Watchers : CancelReload(w)
               \/ \E k \in Closers : Shuts(k)
               \/ UNCHANGED watchVars
      BY <2>2, MachineryRuns, MachineryKeeps
    <2>3. ASSUME NEW w \in Watchers,
                 Claim(w) \/ WatchStep(w) \/ CancelOnClose(w) \/ StopWatch(w)
          PROVE  WatchTypes' /\ SlotIsHeld' /\ DebouncerIsJoined' /\ EndsForAReason'
      BY <2>3, ClaimKeeps, StartKeeps, EndContextKeeps, LoopKeeps, ReturnKeeps
      DEF WatchStep
    <2>4. ASSUME NEW w \in Watchers, RunsDebouncer(w), ~CancelReload(w), ~Runs(w)
          PROVE  WatchTypes' /\ SlotIsHeld' /\ DebouncerIsJoined' /\ EndsForAReason'
      BY <2>4, DebouncerKeeps DEF RunsDebouncer, Debounce
    <2> QED
      BY <2>1, <2>2, <2>3, <2>4, WatchersCall DEF WatchNext, WatchRest, Processes
  <1> QED
    BY <1>1, <1>2 DEF WatchInv

(* Every reachable state satisfies the invariant: one watch holds the slot, *)
(* its debouncer lives no longer than it, and what Loading knows of        *)
(* snapshots, files and stamps stays true under it.                        *)
THEOREM WatchInvariant == WatchSpec => []WatchInv
  <1>1. WatchInit => WatchInv
    BY WatchInvInit
  <1>2. WatchInv /\ [WatchNext]_watchVars => WatchInv'
    BY WatchInvStep
  <1> QED
    BY <1>1, <1>2, PTL DEF WatchSpec

(***************************************************************************)
(* What follows from it.                                                   *)
(***************************************************************************)

(* Every variable holds what its Go counterpart can hold, the channels no  *)
(* more than they have room for; and only what exists is watched.          *)
THEOREM WatchIsTyped == WatchSpec => []WatchTypeOK
  <1>1. WatchInv => WatchTypeOK
    BY DEF WatchInv, WatchTypes
  <1> QED
    BY <1>1, WatchInvariant, PTL

(* A second call of Watch is refused until the first has returned and the  *)
(* last reload that it caused is over.                                     *)
THEOREM WatchIsAlone == WatchSpec => []OneWatchAtATime
  <1>1. WatchInv => OneWatchAtATime
    <2> SUFFICES ASSUME WatchInv PROVE OneWatchAtATime
      OBVIOUS
    <2>1. ASSUME NEW w \in Watchers, Active(w) PROVE Holds(w)
      <3>1. /\ watch[w].at \in At
            /\ watch[w].at = "idle" => debounce[w].at = "none"
            /\ watch[w].at = "returned" => debounce[w].at \in {"none", "exited"}
            /\ pc[w] # "idle" => debounce[w].at = "acting"
        BY WatchBefore DEF Watches
      <3> QED
        BY <2>1, <3>1 DEF Active, Holds
    <2> QED
      BY <2>1 DEF WatchInv, SlotIsHeld, OneWatchAtATime
  <1> QED
    BY <1>1, WatchInvariant, PTL

(* A watch that says it was cancelled was cancelled by its caller.         *)
THEOREM CancelledByItsCaller == WatchSpec => []ClosedWatchSaysSo
  <1>1. WatchInv => ClosedWatchSaysSo
    BY DEF WatchInv, EndsForAReason
  <1> QED
    BY <1>1, WatchInvariant, PTL

(* However often a watch reloads, and whoever else does: no snapshot is    *)
(* ever current without the required files, the stored files and stamps    *)
(* are those of the current one, and a reload has seen what was written    *)
(* before it was called.                                                   *)
THEOREM SnapshotsUnderAWatch ==
  WatchSpec => [](/\ RequiredFilesAreRead
                  /\ FilesBelongToSnapshot
                  /\ StampsAreNotNewer
                  /\ ReloadSeesEarlierWrites
                  /\ EngineBelongsToTransaction)
  <1>1. WatchInv => /\ RequiredFilesAreRead
                    /\ FilesBelongToSnapshot
                    /\ StampsAreNotNewer
                    /\ ReloadSeesEarlierWrites
                    /\ EngineBelongsToTransaction
    BY InvImpliesRequired, InvImpliesStored, InvImpliesSeesWrites
    DEF WatchInv, LoadingInv, TransactionInv
  <1> QED
    BY <1>1, WatchInvariant, PTL

(* A reload that a watch has under way when closing begins, or begins      *)
(* later, publishes nothing and stores nothing.                            *)
THEOREM CloseFreezesUnderAWatch == WatchSpec => [][Closed => Freezes]_watchVars
  <1>1. WatchInv /\ [WatchNext]_watchVars => [Closed => Freezes]_watchVars
    BY WatchNextIsLoadingStep, FreezesStep DEF WatchInv
  <1> QED
    BY <1>1, WatchInvariant, PTL DEF WatchSpec

=============================================================================
