------------------------------ MODULE MCRooms -------------------------------
(* Rooms for TLC. *)
EXTENDS Rooms
=============================================================================
