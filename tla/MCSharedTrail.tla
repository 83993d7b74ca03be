--------------------------- MODULE MCSharedTrail ---------------------------
(***************************************************************************)
(* SharedTrail for TLC: two pipelines and three alerts, so that one of     *)
(* them has the longer chain and a third write comes after the conflict.   *)
(***************************************************************************)
EXTENDS SharedTrail

Symmetry == Permutations(Pipelines)

=============================================================================
