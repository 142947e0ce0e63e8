-------------------------------- MODULE Duel --------------------------------
(***************************************************************************)
(* One shared `Duel<T>` object of apps/contracts/sources/duel.move: the    *)
(* escrow of a 1v1 prediction duel.  Every entry function is one action,   *)
(* and a Move transaction is atomic: an assertion that fails aborts the    *)
(* whole call, so the assertions of a function are the guard of its        *)
(* action.                                                                 *)
(*                                                                         *)
(* Three abstractions of data:                                             *)
(*  - the clock is only ever compared with started_at_ms plus a constant,  *)
(*    so the state keeps the time since the join, and stops counting one   *)
(*    tick after the last deadline;                                        *)
(*  - deck_hash is the deck it commits to (sha2-256 taken as injective);   *)
(*    the deck may have the wrong length, in which case no reveal works;   *)
(*  - the p0_/p1_ payout and premium accumulators are kept per card        *)
(*    (`pay`, `prem`), as the CardSettled events record them, and summed   *)
(*    where the code reads the total.                                      *)
(* The vectors of the code have length deck_size; here they are functions  *)
(* on all indices below MaxDeckSize, the tail staying at its first value.  *)
(***************************************************************************)
EXTENDS Naturals, FiniteSets, Functions

CONSTANTS
    Address,        \* accounts that may send a transaction
    NoAddress,      \* @0x0
    StakeAmounts,   \* values of the coin passed to create / join, 0 included
    Strikes,        \* raw strike prices a card may carry
    Prices,         \* settlement prices a caller may feed, 0 included
    Quantities,     \* mint quantities a staked swipe may carry, 0 included
    Premiums,       \* premiums a caller of settle may feed
    MaxDeckSize,    \* MAX_DECK_SIZE
    DeckSizes,      \* deck_size arguments tried by create, out of range included
    ProbScale,      \* PROB_SCALE: the quantity of every free swipe
    SwipeWindow, RevealTimeout, RefundTimeout,  \* *_MS constants, in ticks
    MaxU64,         \* largest value of a u64 accumulator
    NoDeck,         \* the empty `cards` vector
    NoSwipe         \* option::none()

VARIABLES
    \* what create and join fix
    status, tier, deckSize, deckHash, creator, challenger, stakeAmount,
    \* the escrowed balances, and what left them
    stake, paid,
    \* the game
    cards, swipes, next,
    \* settlement
    settled, settledCount, price, pay, prem,
    \* time since started_at_ms
    elapsed,
    \* cards whose recorded position is still held in some Predict account
    held,
    \* the terminal event
    outcome

gameVars   == <<cards, swipes, next>>
settleVars == <<settled, settledCount, price, pay, prem>>
identVars  == <<tier, deckSize, deckHash, creator, challenger, stakeAmount>>
moneyVars  == <<stake, paid, outcome>>
vars == <<status, identVars, moneyVars, gameVars, settleVars, elapsed, held>>
-----------------------------------------------------------------------------
Side    == {"p0", "p1"}
CardIdx == 0..(MaxDeckSize - 1)
Swipe   == [up : BOOLEAN, quantity : Nat \ {0}]
Deck    == UNION {[0..(n - 1) -> Strikes] : n \in 1..MaxDeckSize}
Horizon == RefundTimeout + 1

ASSUME DuelAssumption ==
    /\ MaxDeckSize \in Nat \ {0}
    /\ DeckSizes \subseteq Nat
    /\ StakeAmounts \subseteq Nat
    /\ Strikes \subseteq Nat
    /\ Prices \subseteq Nat
    /\ Quantities \subseteq Nat
    /\ Premiums \subseteq Nat
    /\ ProbScale \in Nat \ {0}
    /\ SwipeWindow \in Nat /\ RevealTimeout \in Nat /\ RefundTimeout \in Nat
    /\ SwipeWindow <= RefundTimeout /\ RevealTimeout <= RefundTimeout
    /\ MaxU64 \in Nat
    /\ NoAddress \notin Address
    /\ NoDeck \notin Deck
    /\ NoSwipe \notin Swipe

Other(s) == IF s = "p0" THEN "p1" ELSE "p0"
None     == [kind |-> "none", winner |-> "none"]

PlayerOf(s) == IF s = "p0" THEN creator ELSE challenger
\* The code tests `sender == duel.creator` first; join keeps the two distinct.
IsPlayer(a) == a = creator \/ a = challenger
SideOf(a)   == IF a = creator THEN "p0" ELSE "p1"

Pot         == stake["p0"] + stake["p1"]
BothDone    == next["p0"] = deckSize /\ next["p1"] = deckSize
TimeExpired == elapsed > SwipeWindow
-----------------------------------------------------------------------------
Init ==
    /\ status = "absent"
    /\ tier = "staked" /\ deckSize = 0 /\ deckHash = NoDeck
    /\ creator = NoAddress /\ challenger = NoAddress /\ stakeAmount = 0
    /\ stake = [s \in Side |-> 0] /\ paid = [s \in Side |-> 0]
    /\ cards = NoDeck
    /\ swipes = [s \in Side |-> [i \in CardIdx |-> NoSwipe]]
    /\ next = [s \in Side |-> 0]
    /\ settled = {} /\ settledCount = 0
    /\ price = [i \in CardIdx |-> 0]
    /\ pay = [s \in Side |-> [i \in CardIdx |-> 0]]
    /\ prem = [s \in Side |-> [i \in CardIdx |-> 0]]
    /\ elapsed = 0
    /\ held = [s \in Side |-> {}]
    /\ outcome = None

-----------------------------------------------------------------------------
(* Lifecycle: create, join, reveal                                         *)

CreateInternal(a, amount, t, h, n) ==
    /\ status = "absent"
    /\ n \in 1..MaxDeckSize
    /\ status' = "pending"
    /\ tier' = t /\ deckSize' = n /\ deckHash' = h
    /\ creator' = a /\ stakeAmount' = amount
    /\ stake' = [stake EXCEPT !["p0"] = amount]
    /\ UNCHANGED <<challenger, paid, outcome, gameVars, settleVars, elapsed, held>>

CreateDuel(a, amount, h, n) ==
    /\ amount > 0
    /\ CreateInternal(a, amount, "staked", h, n)

CreateDuelFree(a, h, n) == CreateInternal(a, 0, "free", h, n)

JoinInternal(a, amount) ==
    /\ status = "pending"
    /\ a # creator
    /\ challenger = NoAddress
    /\ challenger' = a
    /\ status' = "active"
    /\ stake' = [stake EXCEPT !["p1"] = @ + amount]
    /\ elapsed' = 0
    /\ UNCHANGED <<tier, deckSize, deckHash, creator, stakeAmount, paid, outcome,
                   gameVars, settleVars, held>>

StakeMatchesMutant(amount) == TRUE
StakeMatches(amount) == amount = stake["p0"]

JoinDuel(a, amount) ==
    /\ tier = "staked"
    /\ StakeMatches(amount)
    /\ JoinInternal(a, amount)

JoinDuelFree(a) ==
    /\ tier = "free"
    /\ JoinInternal(a, 0)

\* Permissionless: whoever holds the preimage may reveal.
RevealDeck(d) ==
    /\ status = "active"
    /\ cards = NoDeck
    /\ DOMAIN d = 0..(deckSize - 1)
    /\ d = deckHash
    /\ cards' = d
    /\ UNCHANGED <<status, identVars, moneyVars, swipes, next, settleVars, elapsed, held>>

-----------------------------------------------------------------------------
(* Swipes                                                                  *)

InTurn(s, i) == i = next[s]

SwipeInternal(a, i, up, q) ==
    LET s == SideOf(a) IN
    /\ status = "active"
    /\ cards # NoDeck
    /\ i < deckSize
    /\ elapsed <= SwipeWindow
    /\ IsPlayer(a)
    /\ InTurn(s, i)
    /\ swipes' = [swipes EXCEPT ![s][i] = [up |-> up, quantity |-> q]]
    /\ next' = [next EXCEPT ![s] = i + 1]
    /\ UNCHANGED <<status, identVars, moneyVars, cards, settleVars, elapsed>>

\* `minted` says whether the order_id argument names a position that some
\* account really holds: the contract stores the number without looking it up.
RecordSwipe(a, i, up, q, minted) ==
    /\ tier = "staked"
    /\ q > 0
    /\ SwipeInternal(a, i, up, q)
    /\ held' = IF minted THEN [held EXCEPT ![SideOf(a)] = @ \cup {i}] ELSE held

RecordSwipeFree(a, i, up) ==
    /\ tier = "free"
    /\ SwipeInternal(a, i, up, ProbScale)
    /\ UNCHANGED held

\* Predict, not the duel: a player sells a position before the card settles.
RedeemEarly(s, i) ==
    /\ i \in held[s]
    /\ held' = [held EXCEPT ![s] = @ \ {i}]
    /\ UNCHANGED <<status, identVars, moneyVars, gameVars, settleVars, elapsed>>

-----------------------------------------------------------------------------
(* Settlement                                                              *)

PreflightSettleMutant(i, p) ==
    /\ status = "active" /\ cards # NoDeck /\ i < deckSize /\ p > 0

PreflightSettle(i, p) ==
    /\ status = "active"
    /\ cards # NoDeck
    /\ i < deckSize
    /\ i \notin settled
    /\ p > 0

ActualUpMutant(i, p) == p >= cards[i]
ActualUp(i, p) == p > cards[i]

\* score_payout on an optional swipe: the quantity of a right direction whose
\* position `holds`.
Score(s, i, p, holds) ==
    IF swipes[s][i] # NoSwipe /\ holds /\ swipes[s][i].up = ActualUp(i, p)
    THEN swipes[s][i].quantity
    ELSE 0

\* The premium the caller feeds counts only for a card the player swiped.
PremiumOf(s, i, fed) == IF swipes[s][i] = NoSwipe THEN 0 ELSE fed

\* The u64 accumulators of both sides hold the sum of the per-card amounts f.
NoOverflow(f) == \A s \in Side : SumFunction(f[s]) <= MaxU64

\* The books after card i was given v.
Booked(f, i, v) == [s \in Side |-> [f[s] EXCEPT ![i] = v[s]]]

\* commit_card_settlement: y and m are the scores and premiums of both sides.
\* The u64 additions abort when an accumulator would overflow.
Commit(i, p, y, m) ==
    /\ NoOverflow(Booked(pay, i, y)) /\ NoOverflow(Booked(prem, i, m))
    /\ pay'  = Booked(pay, i, y)
    /\ prem' = Booked(prem, i, m)
    /\ settled' = settled \cup {i}
    /\ price' = [price EXCEPT ![i] = p]
    /\ settledCount' = settledCount + 1
    /\ UNCHANGED <<status, identVars, moneyVars, gameVars, elapsed, held>>

\* The wrappers are arguments, and any wrapper that holds the recorded order
\* will do: `given` is the sides for which the caller passed such a one.
HoldsIn(given, s, i) == s \in given /\ i \in held[s]

SettleCard(i, p, given, fed) ==
    /\ tier = "staked"
    /\ PreflightSettle(i, p)
    /\ Commit(i, p, [s \in Side |-> Score(s, i, p, HoldsIn(given, s, i))],
                    [s \in Side |-> PremiumOf(s, i, fed[s])])

SettleCardFree(i, p, fed) ==
    /\ tier = "free"
    /\ PreflightSettle(i, p)
    /\ Commit(i, p, [s \in Side |-> Score(s, i, p, TRUE)],
                    [s \in Side |-> PremiumOf(s, i, fed[s])])

-----------------------------------------------------------------------------
(* Pay-out                                                                 *)

\* pay_player: draw from the creator's stake first, the rest from the other.
Draw(st, amount) ==
    LET fromP0 == IF st["p0"] >= amount THEN amount ELSE st["p0"]
    IN  [st EXCEPT !["p0"] = @ - fromP0, !["p1"] = @ - (amount - fromP0)]

\* Two pay_player calls and the terminal status: the end of every path.
Close(to, kind, winner) ==
    /\ stake' = Draw(Draw(stake, to["p0"]), to["p1"])
    /\ paid' = [s \in Side |-> paid[s] + to[s]]
    /\ status' = "complete"
    /\ outcome' = [kind |-> kind, winner |-> winner]

WholePotMutant(s) == [t \in Side |-> IF t = s THEN stake[Other(s)] ELSE 0]
WholePot(s) == [t \in Side |-> IF t = s THEN Pot ELSE 0]

FinalizeForfeit ==
    /\ next["p0"] # next["p1"] /\ TimeExpired
    /\ LET leader == IF next["p0"] > next["p1"] THEN "p0" ELSE "p1"
       IN  Close(WholePot(leader), "finalized", leader)

\* Subtraction-less PnL, in u128: own payout plus the other's premium.
Value(s, y, m) == SumFunction(y[s]) + SumFunction(m[Other(s)])

AllSettledMutant(count) == count > 0
AllSettled(count) == count = deckSize

ScoreDue(count) == BothDone /\ AllSettled(count)

FinalizeScored(count, y, m) ==
    /\ ScoreDue(count)
    /\ \/ \E s \in Side :
            /\ Value(s, y, m) > Value(Other(s), y, m)
            /\ Close(WholePot(s), "finalized", s)
       \/ /\ Value("p0", y, m) = Value("p1", y, m)
          /\ Close(stake, "finalized", "tie")

Stuck == next["p0"] = next["p1"] /\ ~BothDone

FinalizeStuck ==
    /\ Stuck
    /\ TimeExpired
    /\ Close(stake, "finalized", "tie")

\* The forfeit test comes first, and BothDone excludes it.
FinalizeInternal(count, y, m) ==
    /\ status = "active"
    /\ FinalizeForfeit \/ FinalizeScored(count, y, m) \/ FinalizeStuck

Finalize ==
    /\ tier = "staked"
    /\ FinalizeInternal(settledCount, pay, prem)
    /\ UNCHANGED <<identVars, gameVars, settleVars, elapsed, held>>

FinalizeFree ==
    /\ tier = "free"
    /\ FinalizeInternal(settledCount, pay, prem)
    /\ UNCHANGED <<identVars, gameVars, settleVars, elapsed, held>>

\* finalize_test_one_price: settle what is left at one price, free-style, with
\* no premium, then finalize, in one transaction.
Unsettled == (0..(deckSize - 1)) \ settled

FinalizeTestOnePrice(p) ==
    /\ cards # NoDeck
    /\ p > 0
    /\ pay' = [s \in Side |-> [i \in CardIdx |->
                  IF i \in Unsettled THEN Score(s, i, p, TRUE) ELSE pay[s][i]]]
    /\ \A s \in Side : SumFunction(pay'[s]) <= MaxU64
    /\ settled' = settled \cup Unsettled
    /\ price' = [i \in CardIdx |-> IF i \in Unsettled THEN p ELSE price[i]]
    /\ settledCount' = settledCount + Cardinality(Unsettled)
    /\ FinalizeInternal(settledCount', pay', prem)
    /\ UNCHANGED <<identVars, gameVars, prem, elapsed, held>>

RefundPending(a) ==
    /\ status = "pending"
    /\ a = creator
    /\ Close([s \in Side |-> IF s = "p0" THEN stake["p0"] ELSE 0], "refunded", "none")

\* A started duel is long overdue and was not played to its end.
RefundDue == status = "active" /\ elapsed > RefundTimeout /\ ~BothDone

RefundActive(a) ==
    /\ RefundDue
    /\ IsPlayer(a)
    /\ Close(stake, "refunded", "none")

RefundDuel(a) ==
    /\ RefundPending(a) \/ RefundActive(a)
    /\ UNCHANGED <<identVars, gameVars, settleVars, elapsed, held>>

ClaimRevealTimeout(a) ==
    /\ status = "active"
    /\ cards = NoDeck
    /\ a = challenger
    /\ elapsed > RevealTimeout
    /\ Close(WholePot("p1"), "forfeited", "p1")
    /\ UNCHANGED <<identVars, gameVars, settleVars, elapsed, held>>

\* The chain's clock.  Only a started duel looks at it; past Horizon every
\* comparison has its final answer.
Tick ==
    /\ status = "active"
    /\ elapsed < Horizon
    /\ elapsed' = elapsed + 1
    /\ UNCHANGED <<status, identVars, moneyVars, gameVars, settleVars, held>>

-----------------------------------------------------------------------------
CreateSome == \E a \in Address, h \in Deck, n \in DeckSizes :
                 \/ CreateDuelFree(a, h, n)
                 \/ \E amount \in StakeAmounts : CreateDuel(a, amount, h, n)

JoinSome == \E a \in Address :
               JoinDuelFree(a) \/ \E amount \in StakeAmounts : JoinDuel(a, amount)

RevealSome == \E d \in Deck : RevealDeck(d)

SwipeSome == \E a \in Address, i \in CardIdx, up \in BOOLEAN :
                \/ RecordSwipeFree(a, i, up)
                \/ \E q \in Quantities, minted \in BOOLEAN : RecordSwipe(a, i, up, q, minted)

RedeemSome == \E s \in Side, i \in CardIdx : RedeemEarly(s, i)

SettleSome(i) == \E p \in Prices, fed \in [Side -> Premiums] :
                    \/ SettleCardFree(i, p, fed)
                    \/ \E given \in SUBSET Side : SettleCard(i, p, given, fed)

FinalizeSome == Finalize \/ FinalizeFree

TestFinalizeSome == \E p \in Prices : FinalizeTestOnePrice(p)

PlayerExit == \E a \in Address : RefundDuel(a) \/ ClaimRevealTimeout(a)

Next ==
    \/ CreateSome
    \/ JoinSome
    \/ RevealSome
    \/ SwipeSome
    \/ RedeemSome
    \/ \E i \in CardIdx : SettleSome(i)
    \/ FinalizeSome
    \/ TestFinalizeSome
    \/ PlayerExit
    \/ Tick

Spec == Init /\ [][Next]_vars
-----------------------------------------------------------------------------
(* Properties                                                              *)

IdentOK ==
    /\ tier \in {"staked", "free"}
    /\ deckSize \in 0..MaxDeckSize
    /\ deckHash \in Deck \cup {NoDeck}
    /\ creator \in Address \cup {NoAddress}
    /\ challenger \in Address \cup {NoAddress}
    /\ stakeAmount \in Nat

MoneyOK ==
    /\ stake \in [Side -> Nat]
    /\ paid \in [Side -> Nat]
    /\ outcome \in [kind : {"none", "finalized", "refunded", "forfeited"},
                    winner : Side \cup {"tie", "none"}]

GameOK ==
    /\ cards \in Deck \cup {NoDeck}
    /\ swipes \in [Side -> [CardIdx -> Swipe \cup {NoSwipe}]]
    /\ next \in [Side -> 0..MaxDeckSize]

SettleOK ==
    /\ settled \subseteq CardIdx
    /\ settledCount \in Nat
    /\ price \in [CardIdx -> Nat]
    /\ pay \in [Side -> [CardIdx -> Nat]]
    /\ prem \in [Side -> [CardIdx -> Nat]]

\* Every variable has its type.
TypeOK ==
    /\ status \in {"absent", "pending", "active", "complete"}
    /\ IdentOK /\ MoneyOK /\ GameOK /\ SettleOK
    /\ elapsed \in 0..Horizon
    /\ held \in [Side -> SUBSET CardIdx]

Money(x, y) == [s \in Side |-> IF s = "p0" THEN x ELSE y]

\* No coin is created, lost or left behind on any path through the nine ways a
\* duel can end: until the end both stakes sit in the object and nobody was
\* paid; at the end the object is empty and its content went back as it came,
\* or to one side whole.
EveryCoinAccounted ==
    /\ status = "absent"  => stake = Money(0, 0) /\ paid = Money(0, 0)
    /\ status = "pending" => stake = Money(stakeAmount, 0) /\ paid = Money(0, 0)
    /\ status = "active"  => stake = Money(stakeAmount, stakeAmount) /\ paid = Money(0, 0)
    /\ status = "complete" =>
          /\ stake = Money(0, 0)
          /\ IF challenger = NoAddress
             THEN paid = Money(stakeAmount, 0)
             ELSE paid \in {Money(stakeAmount, stakeAmount),
                            Money(2 * stakeAmount, 0), Money(0, 2 * stakeAmount)}

\* A player's swipes fill a prefix of the deck, and exist only for a deck that
\* was revealed: the next-index counters that finalize compares say how much
\* each player really played.
SwipesFillPrefix ==
    \A s \in Side :
        /\ next[s] <= deckSize
        /\ next[s] > 0 => cards # NoDeck
        /\ \A i \in CardIdx : swipes[s][i] # NoSwipe <=> i < next[s]

\* settled_count, which finalize trusts, is the number of settled cards however
\* single settles, free settles and the one-price path are mixed; the price
\* snapshot tells a settled card from another.
SettledCountExact ==
    /\ settled \subseteq 0..(deckSize - 1)
    /\ settledCount = Cardinality(settled)
    /\ \A i \in CardIdx : i \in settled <=> price[i] > 0

\* A payout on the books is the quantity of a swipe that is still there and that
\* the recorded price proves right, also when the settle came before the
\* swipe; nothing is booked for an unsettled card; two swipes in opposite
\* directions never both pay.
PayoutsAreProven ==
    \A i \in CardIdx :
        /\ \A s \in Side :
              pay[s][i] > 0 =>
                 /\ i \in settled
                 /\ swipes[s][i] # NoSwipe
                 /\ pay[s][i] = swipes[s][i].quantity
                 /\ swipes[s][i].up = (price[i] > cards[i])
        /\ \A s \in Side : prem[s][i] > 0 => i \in settled /\ swipes[s][i] # NoSwipe

\* How a duel ended follows from what was played and settled, and from nothing
\* else: the whole pot goes to the side that swiped further once the window
\* closed, to the better score when both finished and every card is settled,
\* or to the challenger of a deck that stayed hidden past its deadline.  In
\* particular a duel both players finished ends by score only: no refund, no
\* forfeit (duel.move's "so a losing player cannot dodge").
Wins(s) ==
    \/ next[s] > next[Other(s)] /\ TimeExpired
    \/ /\ BothDone
       /\ settled = 0..(deckSize - 1)
       /\ Value(s, pay, prem) > Value(Other(s), pay, prem)

OutcomeFollowsPlay ==
    status = "complete" =>
        CASE outcome.kind = "finalized" /\ outcome.winner \in Side ->
                /\ Wins(outcome.winner)
                /\ paid[outcome.winner] = 2 * stakeAmount
          [] outcome.kind = "finalized" /\ outcome.winner = "tie" ->
                /\ paid = Money(stakeAmount, stakeAmount)
                /\ next["p0"] = next["p1"]
                /\ \/ ~BothDone /\ TimeExpired
                   \/ /\ settled = 0..(deckSize - 1)
                      /\ Value("p0", pay, prem) = Value("p1", pay, prem)
          [] outcome.kind = "refunded" ->
                /\ ~BothDone
                /\ paid = Money(stakeAmount, IF challenger = NoAddress THEN 0 ELSE stakeAmount)
          [] outcome.kind = "forfeited" ->
                /\ cards = NoDeck /\ elapsed > RevealTimeout
                /\ paid = Money(0, 2 * stakeAmount)
          [] OTHER -> FALSE

\* What was played and settled stays: no step replaces a revealed card, a swipe,
\* or the price, score and premium of a settled card, and a closed duel keeps
\* its verdict and its payouts.
HistoryStep ==
    /\ cards # NoDeck => cards' = cards
    /\ \A s \in Side, i \in CardIdx : swipes[s][i] # NoSwipe => swipes'[s][i] = swipes[s][i]
    /\ \A i \in settled :
          /\ i \in settled' /\ price'[i] = price[i]
          /\ \A s \in Side : pay'[s][i] = pay[s][i] /\ prem'[s][i] = prem[s][i]
    /\ status = "complete" => UNCHANGED <<status, moneyVars, gameVars, settleVars>>

HistoryKept == [][HistoryStep]_vars

\* What a player may be credited in all, if every swipe proves right.
Swiped(s) == [i \in CardIdx |-> IF swipes[s][i] = NoSwipe THEN 0 ELSE swipes[s][i].quantity]
Fits == NoOverflow([s \in Side |-> Swiped(s)])

\* No amount of play, settling or waiting locks the stakes in for good: past the
\* last deadline a player may take the refund, or the score is due, or each card
\* that is still open can be settled at once, at any price, whichever wrappers
\* are passed, with no premium.  The exception is a player whose quantities do
\* not fit u64: the settle of a right swipe then aborts, and the refund is
\* closed to a duel both players finished.
CanSettle(i, p, y) ==
    PreflightSettle(i, p) /\ NoOverflow(Booked(pay, i, y))
        /\ NoOverflow(Booked(prem, i, [s \in Side |-> 0]))

NeverStranded ==
    status = "active" /\ elapsed > RefundTimeout =>
        \/ RefundDue
        \/ ScoreDue(settledCount)
        \/ /\ BothDone /\ Unsettled # {}
           /\ Fits => \A i \in Unsettled, p \in Prices \ {0}, holds \in SUBSET Side :
                         CanSettle(i, p, [s \in Side |-> Score(s, i, p, s \in holds)])

MoneyView == INSTANCE Escrow WITH
    Amounts <- StakeAmounts \cup {0}, phase <- status, funds <- stake, received <- paid

\* The duel implements the two-party escrow: each step of the contract is a
\* step of Escrow or leaves the money alone.
ImplementsEscrow == MoneyView!EscrowSpec
=============================================================================
