------------------------------ MODULE MCReload ------------------------------
(***************************************************************************)
(* Reload on a small instance: two callers and two closers, two            *)
(* configurations that are accepted, one that does not decode and one the  *)
(* validator refuses.                                                      *)
(***************************************************************************)
EXTENDS Reload, TLC

CONSTANTS good, better, garbled, refused

MCContents == {good, better, garbled, refused}
MCDecodable == MCContents \ {garbled}
MCValid == MCContents \ {refused}

(* Callers, closers and the accepted configurations are interchangeable.   *)
(* Only the safety runs use this.                                          *)
Symmetry ==
  Permutations(Callers) \cup Permutations(Closers)
    \cup Permutations({good, better})
=============================================================================
