-------------------------- MODULE MCSlidingWindow --------------------------
(***************************************************************************)
(* An instance of SlidingWindow for TLC: event order, with silences up to  *)
(* the longest that the window tolerates (WindowMs - SlideMs + 1).         *)
(***************************************************************************)
EXTENDS SlidingWindow

MCDenseDeltas == 0..MaxGap

=============================================================================
