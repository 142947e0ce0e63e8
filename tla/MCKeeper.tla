------------------------------ MODULE MCKeeper ------------------------------
(* Keeper for TLC, with some behaviours left to symmetry.  The accounts are    *)
(* interchangeable, so one of them stands for whoever creates the duel.  The   *)
(* sides are treated alike: the creator may open with a large swipe (upwards:  *)
(* a wrong one counts nothing), and the challenger may sell early and may open *)
(* a Predict account only before the join or once all is played.              *)
EXTENDS Keeper

CONSTANTS First, Small

FirstCreates == creator \in {NoAddress, First}
LargeFirst == \A s \in Side, i \in CardIdx :
    \/ swipes[s][i] = NoSwipe \/ swipes[s][i].quantity <= Small
    \/ s = "p0" /\ i = 0 /\ swipes[s][i].up
CreatorHolds == \A i \in CardIdx \ settled :
    tier = "staked" /\ swipes["p0"][i] # NoSwipe => i \in held["p0"]
AccountInTime ==
    /\ status # "absent" => "p0" \in wrapped
    /\ wrapped' # wrapped /\ status = "active" => BothDone

MCNext == KeeperNext /\ FirstCreates' /\ LargeFirst' /\ CreatorHolds' /\ AccountInTime

MCLiveSpec == KeeperInit /\ [][MCNext]_kvars /\ KeeperFairness
=============================================================================
