---------------------------- MODULE Publication ----------------------------
(***************************************************************************)
(* What a Config promises its readers, with every mechanism left out: a    *)
(* register that starts empty, takes acceptable configurations one at a    *)
(* time, numbers them without a gap, and is frozen for good by closing.    *)
(* Reload is shown to implement it.                                        *)
(***************************************************************************)
EXTENDS Naturals

CONSTANTS
  Acceptable,   \* the configurations that read, decode and validate
  None          \* Current() before the initial load

VARIABLES
  current,      \* what Current() returns
  generation,   \* how many configurations have been published
  open          \* FALSE from the moment closing begins

vars == <<current, generation, open>>

Init ==
  /\ current = None
  /\ generation = 0
  /\ open = TRUE

Publish(content) ==
  /\ open
  /\ current' = content
  /\ generation' = generation + 1
  /\ UNCHANGED open

(* Nobody holds a Config to close before its construction has published. *)
Freeze ==
  /\ open
  /\ generation > 0
  /\ open' = FALSE
  /\ UNCHANGED <<current, generation>>

Next ==
  \/ \E content \in Acceptable : Publish(content)
  \/ Freeze

Spec == Init /\ [][Next]_vars
=============================================================================
