---------------------------- MODULE MCMatchmaking ----------------------------
(* Matchmaking for TLC, with some behaviours left to symmetry.  Sockets,      *)
(* addresses and tiers are interchangeable: one chosen socket belongs to one  *)
(* address, the others to the other, and the first join is for a chosen tier. *)
(* All have said hello before that; later one of the others may rebind.       *)
EXTENDS Matchmaking

CONSTANTS Loner, LonerAddress, Rebinder, FirstTier

AtHome(w) == (addr'[w] = LonerAddress) <=> (w = Loner)

FewHellos ==
    /\ joins' > 0 => joins > 0 \/ \A w \in Socket : addr[w] # Nobody
    /\ \A w \in Socket : addr'[w] \notin {addr[w], Nobody} =>
          IF joins = 0 THEN addr[w] = Nobody /\ AtHome(w) ELSE w = Rebinder

FirstJoin == joins = 0 => \A w \in Socket : queuedTier'[w] \in {NoTier, FirstTier}

MCSpec == Init /\ [][Next /\ FewHellos /\ FirstJoin]_vars
MCLiveSpec == MCSpec /\ Fairness
=============================================================================
