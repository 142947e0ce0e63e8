------------------------------- MODULE MCDuel -------------------------------
(* Duel for TLC: interchangeable accounts. *)
EXTENDS Duel, TLC

AddressSymmetry == Permutations(Address)
=============================================================================
