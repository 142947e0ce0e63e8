------------------------------- MODULE Escrow -------------------------------
(***************************************************************************)
(* What a duel promises about money, and nothing else: two equal stakes go *)
(* in, and come out once, either as they went in or all to one side.  An   *)
(* escrow nobody joined can only give the first stake back.                *)
(***************************************************************************)
EXTENDS Naturals

CONSTANT Amounts        \* stakes an escrow may be opened with

VARIABLES phase, funds, received

escrowVars == <<phase, funds, received>>

Party == {"p0", "p1"}
Pair(x, y) == [s \in Party |-> IF s = "p0" THEN x ELSE y]

EscrowInit ==
    /\ phase = "absent"
    /\ funds = Pair(0, 0)
    /\ received = Pair(0, 0)

Open == \E a \in Amounts :
    /\ phase = "absent"
    /\ phase' = "pending"
    /\ funds' = Pair(a, 0)
    /\ UNCHANGED received

Match ==
    /\ phase = "pending"
    /\ phase' = "active"
    /\ funds' = Pair(funds["p0"], funds["p0"])
    /\ UNCHANGED received

Cancel ==
    /\ phase = "pending"
    /\ phase' = "complete"
    /\ funds' = Pair(0, 0)
    /\ received' = funds

Resolve ==
    /\ phase = "active"
    /\ phase' = "complete"
    /\ funds' = Pair(0, 0)
    /\ received' \in {funds, Pair(2 * funds["p0"], 0), Pair(0, 2 * funds["p0"])}

EscrowNext == Open \/ Match \/ Cancel \/ Resolve

EscrowSpec == EscrowInit /\ [][EscrowNext]_escrowVars
=============================================================================
