----------------------------- MODULE MCEventPath ----------------------------
(* Small instances of EventPath for TLC.                                   *)
EXTENDS EventPath, TLC

CONSTANTS e1, e2, e3

MCEmittedAtOne == e1 :> 1

MCEmittedAtTwo == (e1 :> 1) @@ (e2 :> 3)

Symmetry == Permutations(Workers)

=============================================================================
