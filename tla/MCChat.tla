------------------------------- MODULE MCChat -------------------------------
(* Chat on small instances. *)
EXTENDS Chat
=============================================================================
