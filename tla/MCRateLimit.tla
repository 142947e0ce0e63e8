----------------------------- MODULE MCRateLimit -----------------------------
(* RateLimit for TLC: a route of each kind, `sponsor` and `ws:chat_send`, with *)
(* limits of the same proportions and smaller numbers.                        *)
EXTENDS RateLimit, TLC

CONSTANTS sponsor, chat     \* one key of each route

MCPeriod   == (sponsor :> 2) @@ (chat :> 3)
MCCapacity == (sponsor :> 2) @@ (chat :> 1)
=============================================================================
