----------------------------- MODULE Lifecycle -----------------------------
(***************************************************************************)
(* The state machine of internal/lifecycle: one atomic word, written under *)
(* the machine's own mutex and read without it, and the channel done that  *)
(* closing closes.                                                         *)
(*                                                                         *)
(* Every transition is one critical section of Lifecycle.mu, so each is    *)
(* one action here.  BeginClose is the exception: it stores CLOSING under  *)
(* the mutex and closes the channel after letting go of it, so a lock-free *)
(* reader can see the first store before the second and it is two actions. *)
(* The module only offers the transitions; Reload and Watch say who calls  *)
(* them, and when.                                                         *)
(***************************************************************************)

VARIABLES
  state,   \* Lifecycle.state
  done     \* TRUE once the channel Lifecycle.done is closed

lifecycleVars == <<state, done>>

States == {"initializing", "ready", "watching", "closing", "closed"}

LifecycleTypeOK ==
  /\ state \in States
  /\ done \in BOOLEAN

LifecycleInit ==
  /\ state = "initializing"
  /\ done = FALSE

(* Closed() is true from the instant closing begins. *)
Closed == state \in {"closing", "closed"}

Ready ==
  /\ state' = IF state = "initializing" THEN "ready" ELSE state
  /\ UNCHANGED done

(* BeginWatch answers OK, busy or closed; only OK moves the machine. *)
BeginWatchOutcome ==
  CASE state = "ready" -> "ok"
    [] state \in {"watching", "initializing"} -> "busy"
    [] OTHER -> "closed"

BeginWatch ==
  /\ state' = IF BeginWatchOutcome = "ok" THEN "watching" ELSE state
  /\ UNCHANGED done

EndWatch ==
  /\ state' = IF state = "watching" THEN "ready" ELSE state
  /\ UNCHANGED done

(* The body of closeOnce, in its two visible halves.  The once has fired   *)
(* exactly when the machine is Closed: BeginClose is the first to store    *)
(* either of the two closed states, and FinishClose follows it.            *)
BeginClose ==
  /\ ~Closed
  /\ state' = "closing"
  /\ UNCHANGED done

SignalDone ==
  /\ done' = TRUE
  /\ UNCHANGED state

FinishClose ==
  /\ state' = "closed"
  /\ UNCHANGED done
=============================================================================
