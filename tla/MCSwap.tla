------------------------------- MODULE MCSwap -------------------------------
(* Swap for TLC: integers of few bits, so that sums and products overflow.   *)
EXTENDS Swap

MCAmounts == 0..7
=============================================================================
