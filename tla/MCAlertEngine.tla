--------------------------- MODULE MCAlertEngine ---------------------------
(***************************************************************************)
(* AlertEngine for TLC: two keys and a history of two entries, so that the *)
(* third alert trims it, a window of one tick, so that entries age while   *)
(* the history is full, and event times that disagree with arrival.        *)
(***************************************************************************)
EXTENDS AlertEngine, TLC

MCSeverities == 0..2
MCEventTimes == 0..1

Symmetry == Permutations(Keys)

=============================================================================
