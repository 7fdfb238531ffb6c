----------------------------- MODULE MCDelivery -----------------------------
(***************************************************************************)
(* Delivery on a small instance.                                           *)
(***************************************************************************)
EXTENDS Delivery, TLC

CONSTANTS w, kw, h1, h2, e1, good

(* The callers other than the worker are interchangeable, and so are the   *)
(* closers.  Only the safety runs use this.                                *)
Symmetry ==
  Permutations(Callers \ {w}) \cup Permutations(Closers \ {kw})
=============================================================================
