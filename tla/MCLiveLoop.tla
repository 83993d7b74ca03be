----------------------------- MODULE MCLiveLoop -----------------------------
(***************************************************************************)
(* LiveLoop for TLC: three packets over a queue of two and a drain of two, *)
(* so that the queue overflows and a drain stops at its limit, and two     *)
(* flows over a table of one, so that a flow is evicted.                   *)
(***************************************************************************)
EXTENDS LiveLoop

=============================================================================
