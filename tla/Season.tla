------------------------------- MODULE Season -------------------------------
(***************************************************************************)
(* The season's prizes: the escrow contract (prize_pool.move), the script  *)
(* that pays it out (season-distribute.ts) run by hand, twice or more, and *)
(* the headline total the server shows (season.ts).  A run of the script   *)
(* reads the leaderboard, then the staked counts, plans the winners, sends *)
(* one transaction and writes a receipt; ratings and counts move under it, *)
(* the pool is funded and emptied under it, and it may stop at any point   *)
(* with its transaction still on the way.                                  *)
(***************************************************************************)
EXTENDS Integers, Sequences, SequencesExt, FiniteSets, FiniteSetsExt, Functions

CONSTANTS Player,       \* addresses with a rating row
          Run,          \* runs of season-distribute
          Split,        \* seasonPrizeSplit: tiers [rankStart, rankEnd, amount]
          MinStaked,    \* seasonMinStakedDuels
          BoardLimit,   \* the LIMIT of the leaderboard query (1000 in the code)
          MaxRating,    \* bound: ratings are 1..MaxRating, 0 for no game played
          MaxFunds,     \* bound: everything ever deposited
          MaxChanges    \* bound: rating and staked-count changes

VARIABLES pool,         \* the shared PrizePool: [balance, distributed]
          deposited,    \* everything deposit took in
          recovered,    \* everything withdraw_remainder gave back
          wallet,       \* what each player was paid
          rating,       \* player_rating, 0 for games_played = 0
          staked,       \* completed staked duels by player, from the mirror
          run,          \* the state of each run of the script
          receipts,     \* the files of contracts/season/distributions
          changes       \* how often a rating or count changed

vars == <<pool, deposited, recovered, wallet, rating, staked, run, receipts, changes>>

Tier == [rankStart : Nat \ {0}, rankEnd : Nat, amount : Nat]

\* A split is read as it is configured; one that lists a tier from its last to
\* its first rank makes no sense and is left out.
ASSUME SeasonAssumption ==
    /\ IsFiniteSet(Player)
    /\ Split \in Seq(Tier) /\ Split # <<>>
    /\ \A i \in DOMAIN Split : Split[i].rankStart <= Split[i].rankEnd
    /\ {MinStaked, BoardLimit, MaxRating, MaxFunds, MaxChanges} \subseteq Nat

-----------------------------------------------------------------------------
(* The winner list. *)

maxRank == Max({Split[i].rankEnd : i \in DOMAIN Split})

\* Mutant: positions counted from 0.
prizeForRankMutant(position) ==
    LET holds == {i \in DOMAIN Split : Split[i].rankStart <= position - 1 /\ position - 1 <= Split[i].rankEnd}
    IN IF holds = {} THEN 0 ELSE Split[Min(holds)].amount

\* The first tier that holds the position decides.  Amounts are whole in MIST, so
\* that the rounding of prize * 1e9 to a u64 changes none of them.
prizeForRank(position) ==
    LET holds == {i \in DOMAIN Split : Split[i].rankStart <= position /\ position <= Split[i].rankEnd}
    IN IF holds = {} THEN 0 ELSE Split[Min(holds)].amount

\* The headline total of season.ts, from the same split.
seasonPrizePoolTotal ==
    SumFunction([i \in DOMAIN Split |-> Split[i].amount * (Split[i].rankEnd - Split[i].rankStart + 1)])

\* Every answer ORDER BY rating DESC LIMIT may give: ties come in any order.
leaderboard ==
    LET ranked == {p \in Player : rating[p] > 0}
        Sorted(b) == \A i, j \in DOMAIN b : i < j => rating[b[i]] >= rating[b[j]]
        top == Min({BoardLimit, Cardinality(ranked)})
    IN {SubSeq(b, 1, top) : b \in {s \in SetToSeqs(ranked) : Sorted(s)}}

Eligible(count) == count >= MinStaked

\* The positions down to i whose players are eligible: as many as the rank of
\* the last one.
EligibleTo(board, counts, i) == {j \in 1..i : Eligible(counts[board[j]])}

\* What the list holds for position i, 0 if it does not hold it: a rank without
\* a prize is left out.
Prize(board, counts, i) ==
    LET rank == Cardinality(EligibleTo(board, counts, i)) IN
    IF Eligible(counts[board[i]]) /\ rank <= maxRank THEN prizeForRank(rank) ELSE 0

\* The list of winners, as what it pays each player; nobody is on a board twice.
Winners(board, counts) ==
    [p \in Player |-> IF p \in Range(board)
                      THEN Prize(board, counts, CHOOSE i \in DOMAIN board : board[i] = p)
                      ELSE 0]

Nobody == [p \in Player |-> 0]

-----------------------------------------------------------------------------
(* The pool.  AdminCap holders only, except deposit; the admin is also the   *)
(* one who runs the script.                                                  *)

deposit(amount) ==
    /\ deposited + amount <= MaxFunds
    /\ pool' = [pool EXCEPT !.balance = @ + amount]
    /\ deposited' = deposited + amount
    /\ UNCHANGED <<recovered, wallet, rating, staked, run, receipts, changes>>

withdraw_remainder ==
    /\ recovered' = recovered + pool.balance
    /\ pool' = [pool EXCEPT !.balance = 0]
    /\ UNCHANGED <<deposited, wallet, rating, staked, run, receipts, changes>>

\* Mutant: the balance is not checked.
PayableMutant(winners) == winners # Nobody

\* The assertions of distribute.  A sum past 64 bits aborts as well; it is more
\* than any balance, so the last conjunct stands for both.
Payable(winners) == winners # Nobody /\ SumFunction(winners) <= pool.balance

\* Mutant: no lock.
OpenMutant == TRUE

Open == ~pool.distributed

\* A transaction on the way executes, whole or not at all.
distribute(r) ==
    LET w == run[r].winners IN
    /\ run[r].tx = "sent"
    /\ IF Open /\ Payable(w)
       THEN /\ pool' = [balance |-> pool.balance - SumFunction(w), distributed |-> TRUE]
            /\ wallet' = [p \in Player |-> wallet[p] + w[p]]
            /\ run' = [run EXCEPT ![r].tx = "executed"]
       ELSE /\ run' = [run EXCEPT ![r].tx = "failed"]
            /\ UNCHANGED <<pool, wallet>>
    /\ UNCHANGED <<deposited, recovered, rating, staked, receipts, changes>>

\* ... or never executes: no gas, a stale version of the AdminCap, expiry.
Refused(r) ==
    /\ run[r].tx = "sent"
    /\ run' = [run EXCEPT ![r].tx = "failed"]
    /\ UNCHANGED <<pool, deposited, recovered, wallet, rating, staked, receipts, changes>>

-----------------------------------------------------------------------------
(* The script. *)

NewRun == [pc |-> "start", board |-> <<>>, counts |-> Nobody,
           winners |-> Nobody, tx |-> "none"]

ReadBoard(r) ==
    /\ run[r].pc = "start"
    /\ \E b \in leaderboard : run' = [run EXCEPT ![r].pc = "ranked", ![r].board = b]
    /\ UNCHANGED <<pool, deposited, recovered, wallet, rating, staked, receipts, changes>>

\* The staked counts are a second query.  A dry run and an empty list end here.
Plan(r) ==
    LET w == Winners(run[r].board, staked) IN
    /\ run[r].pc = "ranked"
    /\ \E execute \in BOOLEAN :
         run' = [run EXCEPT ![r].counts = staked, ![r].winners = w,
                            ![r].pc = IF w = Nobody \/ ~execute THEN "done" ELSE "planned"]
    /\ UNCHANGED <<pool, deposited, recovered, wallet, rating, staked, receipts, changes>>

Submit(r) ==
    /\ run[r].pc = "planned"
    /\ run' = [run EXCEPT ![r].pc = "waiting", ![r].tx = "sent"]
    /\ UNCHANGED <<pool, deposited, recovered, wallet, rating, staked, receipts, changes>>

\* Mutant: any answer passes for success.
SucceededMutant(r) == run[r].tx # "none"

Succeeded(r) == run[r].tx = "executed"

\* signAndExecuteTransaction answers; anything but success throws.
Answered(r) ==
    /\ run[r].pc = "waiting" /\ run[r].tx \in {"executed", "failed"}
    /\ run' = [run EXCEPT ![r].pc = IF Succeeded(r) THEN "paid" ELSE "stopped"]
    /\ UNCHANGED <<pool, deposited, recovered, wallet, rating, staked, receipts, changes>>

\* waitForTransaction returned: the receipt, named after the digest.
WriteReceipt(r) ==
    /\ run[r].pc = "paid"
    /\ receipts' = receipts \cup {[digest |-> r, winners |-> run[r].winners]}
    /\ run' = [run EXCEPT ![r].pc = "done"]
    /\ UNCHANGED <<pool, deposited, recovered, wallet, rating, staked, changes>>

\* The process is killed, a query or a call to the node fails or times out.
Stops(r) ==
    /\ run[r].pc \notin {"done", "stopped"}
    /\ run' = [run EXCEPT ![r].pc = "stopped"]
    /\ UNCHANGED <<pool, deposited, recovered, wallet, rating, staked, receipts, changes>>

-----------------------------------------------------------------------------
(* The indexer of the running server, seen from here: a finished staked duel *)
(* counts first, and its rating step follows in a later write.               *)

DuelCounted(p) ==
    /\ changes < MaxChanges
    /\ staked' = [staked EXCEPT ![p] = @ + 1]
    /\ changes' = changes + 1
    /\ UNCHANGED <<pool, deposited, recovered, wallet, rating, run, receipts>>

Rated(p) ==
    /\ changes < MaxChanges
    /\ \E x \in (1..MaxRating) \ {rating[p]} : rating' = [rating EXCEPT ![p] = x]
    /\ changes' = changes + 1
    /\ UNCHANGED <<pool, deposited, recovered, wallet, staked, run, receipts>>

Init ==
    /\ pool = [balance |-> 0, distributed |-> FALSE]
    /\ deposited = 0 /\ recovered = 0 /\ changes = 0
    /\ wallet = Nobody
    /\ rating \in [Player -> 0..MaxRating]
    /\ staked \in [Player -> 0..MinStaked]
    /\ \A p \in Player : rating[p] = 0 => staked[p] = 0
    /\ run = [r \in Run |-> NewRun]
    /\ receipts = {}

Next ==
    \/ \E amount \in 1..MaxFunds : deposit(amount)
    \/ withdraw_remainder
    \/ \E r \in Run : \/ ReadBoard(r) \/ Plan(r) \/ Submit(r) \/ Answered(r)
                      \/ WriteReceipt(r) \/ Stops(r) \/ distribute(r) \/ Refused(r)
    \/ \E p \in Player : DuelCounted(p) \/ Rated(p)

Spec == Init /\ [][Next]_vars

-----------------------------------------------------------------------------
(* Properties. *)

RunState == [pc : {"start", "ranked", "planned", "waiting", "paid", "done", "stopped"},
             board : Seq(Player), counts : [Player -> Nat], winners : [Player -> Nat],
             tx : {"none", "sent", "executed", "failed"}]

\* Types; the balance of the pool is never overdrawn.
TypeOK ==
    /\ pool \in [balance : Nat, distributed : BOOLEAN]
    /\ deposited \in Nat /\ recovered \in Nat /\ changes \in Nat
    /\ wallet \in [Player -> Nat]
    /\ rating \in [Player -> 0..MaxRating] /\ staked \in [Player -> Nat]
    /\ run \in [Run -> RunState]
    /\ receipts \subseteq [digest : Run, winners : [Player -> Nat]]

\* However many runs of the script race, the wallets hold exactly one of their
\* plans, whole, and that run is the one whose transaction executed; before that
\* they hold nothing (the distributed lock; one transaction pays all).  Whatever
\* the order of deposits, payouts and recoveries, the rest of the money is in
\* the pool or back with the admin ("never stuck", prize_pool.move:14-15), and
\* the headline total of GET /season covers what was paid ("the headline number
\* and per-rank breakdown can't drift").
OnePlanPaid ==
    /\ LET paid == SumFunction(wallet) IN
       /\ deposited = pool.balance + recovered + paid
       /\ paid <= seasonPrizePoolTotal
    /\ ~pool.distributed => wallet = Nobody
    /\ \A r \in Run : run[r].tx = "executed" => wallet = run[r].winners

\* A receipt is the truth about the wallets: no run writes one for a payout that
\* aborted, or beside another run's (the throw after signAndExecuteTransaction).
ReceiptsTrue ==
    \A x \in receipts : wallet = x.winners

\* No eligible player is paid less than a player below him on the board the
\* paying run read: an ineligible one above, a tie or another run's payout does
\* not shift a prize past him.  (For a split that does not grow with the rank.)
\* Nobody is paid without the staked duels a prize takes, although board and
\* counts are read apart and both move.
PrizesFollowRank ==
    /\ \A p \in Player : wallet[p] > 0 => staked[p] >= MinStaked
    /\ \A r \in Run : run[r].tx = "executed" =>
        LET b == run[r].board IN
        \A i, j \in DOMAIN b :
            i < j /\ Eligible(run[r].counts[b[i]]) => wallet[b[i]] >= wallet[b[j]]

=============================================================================
