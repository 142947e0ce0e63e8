---------------------------- MODULE KeeperProofs ----------------------------
(***************************************************************************)
(* What no call of the duel contract can break, for any accounts, decks,   *)
(* stakes, prices and deadlines (Duel's Spec), and what still holds, and   *)
(* what is added, with the keeper of keeper.ts at work (KeeperSpec).       *)
(*                                                                         *)
(* The contract.  The invariants of Duel depend on one another: the        *)
(* verdict on the exact count of settled cards and on proven payouts, the  *)
(* money on which accumulators a free duel has.  IInv is their             *)
(* conjunction, with Shape: what is still empty before the join, the       *)
(* reveal and the end.  Each step is first reduced to the call it is       *)
(* (StepCases) and to what that call leaves alone (Frames); then one lemma *)
(* per conjunct.                                                           *)
(*                                                                         *)
(* The keeper.  It gives up no open duel, except after a redeem that       *)
(* follows good settles aborted on a position sold early.  KInv: a started *)
(* duel stays started and a closed one closed (MonotoneStep, a fact about  *)
(* every call of the contract), and a pass beyond its first read belongs   *)
(* to a started duel, so an abort on "not active" means "closed".          *)
(*                                                                         *)
(* Both.  Everything the contract promises alone it promises with the      *)
(* keeper at work.  PInv: Duel's inductive invariant IInv, which the       *)
(* many-card transaction keeps (SendIInv); a pass that read the duel as    *)
(* played out is right about that for good (PassPlayed, DoneStays); a held *)
(* position belongs to a swipe (HeldSwiped).  PremiumsAreSymmetric adds    *)
(* FedBoth.                                                                *)
(***************************************************************************)
EXTENDS Keeper, FiniteSetTheorems, WellFoundedInduction, TLAPS

-----------------------------------------------------------------------------
(* The contract                                                            *)

LEMMA InitTypeOK == Init => TypeOK
BY DuelAssumption
   DEF Init, TypeOK, IdentOK, MoneyOK, GameOK, SettleOK, Side, CardIdx, Horizon, None

LEMMA DrawType ==
    ASSUME NEW st \in [Side -> Nat], NEW a \in Nat, a <= st["p0"] + st["p1"]
    PROVE  /\ Draw(st, a) \in [Side -> Nat]
           /\ Draw(st, a)["p0"] + Draw(st, a)["p1"] = st["p0"] + st["p1"] - a
BY DEF Draw, Side

LEMMA DrawAll ==
    ASSUME NEW st \in [Side -> Nat], NEW a \in Nat, NEW b \in Nat,
           a + b = st["p0"] + st["p1"]
    PROVE  Draw(Draw(st, a), b) = Money(0, 0)
<1> DEFINE d == Draw(st, a)
           e == Draw(d, b)
<1>1. d \in [Side -> Nat] /\ d["p0"] + d["p1"] = b
  BY DrawType DEF Side
<1> HIDE DEF d
<1>2. e \in [Side -> Nat] /\ e["p0"] + e["p1"] = 0
  <2>1. d["p0"] \in Nat /\ d["p1"] \in Nat
    BY <1>1 DEF Side
  <2>. QED BY <1>1, <2>1, DrawType
<1> HIDE DEF e
<1>3. e["p0"] = 0 /\ e["p1"] = 0
  BY <1>2 DEF Side
<1>4. e = Money(0, 0)
  BY <1>2, <1>3 DEF Money, Side
<1>. QED BY <1>4 DEF e, d

-----------------------------------------------------------------------------
(* The steps of Next, one case per function of the contract: what a proof   *)
(* by cases about a step has to look at.                                    *)

IsCreate == \E a \in Address, amount \in StakeAmounts \cup {0}, t \in {"staked", "free"},
               h \in Deck, n \in Nat :
               (t = "free" => amount = 0) /\ CreateInternal(a, amount, t, h, n)
IsJoin   == \E a \in Address, amount \in Nat :
               amount = stake["p0"] /\ JoinInternal(a, amount)
IsReveal == \E d \in Deck : RevealDeck(d)
IsSwipe  == \E a \in Address, i \in CardIdx, up \in BOOLEAN, q \in Nat \ {0} :
               /\ SwipeInternal(a, i, up, q)
               /\ held' \in {held, [held EXCEPT ![SideOf(a)] = @ \cup {i}]}
IsSettle == \E i \in CardIdx, p \in Nat, hold \in [Side -> BOOLEAN], fed \in [Side -> Nat] :
               /\ PreflightSettle(i, p)
               /\ Commit(i, p, [s \in Side |-> Score(s, i, p, hold[s])],
                               [s \in Side |-> PremiumOf(s, i, fed[s])])
IsFinalize == FinalizeInternal(settledCount, pay, prem)
              /\ UNCHANGED <<identVars, gameVars, settleVars, elapsed, held>>
IsTestFinalize == \E p \in Nat : FinalizeTestOnePrice(p)
IsRefund == \E a \in Address : RefundDuel(a)
IsClaim  == \E a \in Address : ClaimRevealTimeout(a)

\* A free join brings nothing to a duel created with nothing.
FreeIsFree == tier = "free" => stake["p0"] = 0

LEMMA StepCases ==
    ASSUME [Next]_vars, TypeOK, FreeIsFree \/ status # "pending"
    PROVE  \/ IsCreate \/ IsJoin \/ IsReveal \/ IsSwipe \/ RedeemSome \/ IsSettle
           \/ IsFinalize \/ IsTestFinalize \/ IsRefund \/ IsClaim \/ Tick
           \/ UNCHANGED vars
<1>1. CASE CreateSome
  <2>1. 0 \in Nat
    OBVIOUS
  <2>. QED BY <1>1, <2>1, DuelAssumption DEF CreateSome, CreateDuel, CreateDuelFree, IsCreate
<1>2. CASE JoinSome
  <2>1. 0 \in Nat
    OBVIOUS
  <2>. QED BY <1>2, <2>1, DuelAssumption
       DEF JoinSome, JoinDuel, JoinDuelFree, StakeMatches, IsJoin, FreeIsFree, JoinInternal
<1>3. CASE SwipeSome
  BY <1>3, DuelAssumption DEF SwipeSome, RecordSwipe, RecordSwipeFree, IsSwipe
<1>4. ASSUME NEW i \in CardIdx, SettleSome(i)
      PROVE  IsSettle
  <2>1. PICK p \in Prices, fed \in [Side -> Premiums] :
           SettleCardFree(i, p, fed) \/ \E given \in SUBSET Side : SettleCard(i, p, given, fed)
    BY <1>4 DEF SettleSome
  <2>2. p \in Nat /\ fed \in [Side -> Nat]
    BY DuelAssumption
  <2>3. CASE SettleCardFree(i, p, fed)
    <3> DEFINE hold == [s \in Side |-> TRUE]
    <3>1. hold \in [Side -> BOOLEAN] /\ \A s \in Side : hold[s] = TRUE
      OBVIOUS
    <3>2. [s \in Side |-> Score(s, i, p, TRUE)] = [s \in Side |-> Score(s, i, p, hold[s])]
      BY <3>1
    <3>. QED BY <2>2, <2>3, <3>1, <3>2 DEF SettleCardFree, IsSettle
  <2>4. ASSUME NEW given \in SUBSET Side, SettleCard(i, p, given, fed)
        PROVE  IsSettle
    <3> DEFINE hold == [s \in Side |-> HoldsIn(given, s, i)]
    <3>1. hold \in [Side -> BOOLEAN] /\ \A s \in Side : hold[s] = HoldsIn(given, s, i)
      BY DEF HoldsIn
    <3>2. [s \in Side |-> Score(s, i, p, HoldsIn(given, s, i))]
            = [s \in Side |-> Score(s, i, p, hold[s])]
      BY <3>1
    <3>. QED BY <2>2, <2>4, <3>1, <3>2 DEF SettleCard, IsSettle
  <2>. QED BY <2>1, <2>3, <2>4
<1>5. CASE FinalizeSome
  BY <1>5 DEF FinalizeSome, Finalize, FinalizeFree, IsFinalize
<1>6. CASE TestFinalizeSome
  BY <1>6, DuelAssumption DEF TestFinalizeSome, IsTestFinalize
<1>7. CASE PlayerExit
  BY <1>7 DEF PlayerExit, IsRefund, IsClaim
<1>8. CASE RevealSome
  BY <1>8 DEF RevealSome, IsReveal
<1>. QED BY <1>1, <1>2, <1>3, <1>4, <1>5, <1>6, <1>7, <1>8 DEF Next

-----------------------------------------------------------------------------
(* What every path to "complete" does to the money                          *)

Splits == {stake, WholePot("p0"), WholePot("p1")}

LEMMA SplitSum ==
    ASSUME TypeOK
    PROVE  \A to \in Splits : to \in [Side -> Nat] /\ to["p0"] + to["p1"] = Pot
BY DEF TypeOK, MoneyOK, Splits, WholePot, Pot, Side

LEMMA CloseEmpties ==
    ASSUME TypeOK
    PROVE  \A to \in Splits : \A k, w : Close(to, k, w) =>
              /\ stake' = Money(0, 0)
              /\ paid' = [s \in Side |-> paid[s] + to[s]] /\ paid' \in [Side -> Nat]
              /\ status' = "complete"
              /\ outcome' = [kind |-> k, winner |-> w]
<1> TAKE to \in Splits
<1> TAKE k, w
<1> HAVE Close(to, k, w)
<1>1. to \in [Side -> Nat] /\ to["p0"] + to["p1"] = Pot
  BY SplitSum
<1>2. stake \in [Side -> Nat] /\ paid \in [Side -> Nat] /\ to["p0"] \in Nat /\ to["p1"] \in Nat
  BY <1>1 DEF TypeOK, MoneyOK, Side
<1>3. stake' = Money(0, 0)
  BY <1>1, <1>2, DrawAll DEF Close, Pot
<1>. QED BY <1>1, <1>2, <1>3 DEF Close

\* The verdicts finalize may reach, with the reason for each.
Closes(k, w) == \E to \in Splits : Close(to, k, w)

LEMMA FinalizeCloses ==
    ASSUME NEW c, NEW y, NEW m, FinalizeInternal(c, y, m)
    PROVE  status = "active" /\ \E w \in Side \cup {"tie"} : Closes("finalized", w)
BY DEF FinalizeInternal, FinalizeForfeit, FinalizeScored, ScoreDue, FinalizeStuck, Closes, Splits, Side

\* Which steps touch which group of variables.
IsEnd == \/ IsFinalize \/ IsTestFinalize \/ IsRefund \/ IsClaim

LEMMA Frames ==
    ASSUME [Next]_vars, TypeOK, FreeIsFree \/ status # "pending"
    PROVE  /\ UNCHANGED identVars  \/ IsCreate \/ IsJoin
           /\ UNCHANGED <<status, moneyVars>> \/ IsCreate \/ IsJoin \/ IsEnd
           /\ UNCHANGED gameVars   \/ IsReveal \/ IsSwipe
           /\ UNCHANGED settleVars \/ IsSettle \/ IsTestFinalize
           /\ UNCHANGED elapsed \/ IsJoin \/ Tick
           /\ UNCHANGED held \/ IsSwipe \/ RedeemSome
<1> USE DEF vars
<1>1. CASE IsCreate
  BY <1>1 DEF IsCreate, CreateInternal
<1>2. CASE IsJoin
  BY <1>2 DEF IsJoin, JoinInternal
<1>3. CASE IsReveal
  BY <1>3 DEF IsReveal, RevealDeck
<1>4. CASE IsSwipe
  BY <1>4 DEF IsSwipe, SwipeInternal
<1>5. CASE RedeemSome
  BY <1>5 DEF RedeemSome, RedeemEarly
<1>6. CASE IsSettle
  BY <1>6 DEF IsSettle, Commit, Booked
<1>7. CASE IsFinalize
  BY <1>7 DEF IsFinalize, IsEnd
<1>8. CASE IsTestFinalize
  BY <1>8 DEF IsTestFinalize, FinalizeTestOnePrice, IsEnd
<1>9. CASE IsRefund
  BY <1>9 DEF IsRefund, RefundDuel, IsEnd
<1>10. CASE IsClaim
  BY <1>10 DEF IsClaim, ClaimRevealTimeout, IsEnd
<1>11. CASE Tick
  BY <1>11 DEF Tick
<1>12. CASE UNCHANGED vars
  BY <1>12
<1>. QED BY StepCases, <1>1, <1>2, <1>3, <1>4, <1>5, <1>6, <1>7, <1>8, <1>9, <1>10, <1>11, <1>12

\* Every end of a duel splits the pot one of the three ways, or hands the
\* stake of a duel nobody joined back to its creator.
LEMMA EndCloses ==
    ASSUME IsEnd
    PROVE  \/ /\ status = "active"
              /\ \E k \in {"finalized", "refunded", "forfeited"},
                    w \in Side \cup {"tie", "none"} : Closes(k, w)
           \/ RefundPending(creator)
<1>1. CASE IsFinalize
  BY <1>1, FinalizeCloses DEF IsFinalize
<1>2. CASE IsTestFinalize
  BY <1>2, FinalizeCloses DEF IsTestFinalize, FinalizeTestOnePrice
<1>3. CASE IsRefund
  BY <1>3 DEF IsRefund, RefundDuel, RefundActive, RefundDue, RefundPending, Closes, Splits
<1>4. CASE IsClaim
  BY <1>4 DEF IsClaim, ClaimRevealTimeout, Closes, Splits, Side
<1>. QED BY <1>1, <1>2, <1>3, <1>4 DEF IsEnd

LEMMA StepTypeOK ==
    ASSUME TypeOK, [Next]_vars, FreeIsFree \/ status # "pending",
           status = "pending" => stake["p1"] = 0
    PROVE  TypeOK'
<1>1. IdentOK'
  <2>1. CASE UNCHANGED identVars
    BY <2>1 DEF identVars, TypeOK, IdentOK
  <2>2. CASE IsCreate
    BY <2>2, DuelAssumption DEF IsCreate, CreateInternal, TypeOK, IdentOK
  <2>3. CASE IsJoin
    BY <2>3 DEF IsJoin, JoinInternal, TypeOK, IdentOK
  <2>. QED BY <2>1, <2>2, <2>3, Frames
<1>2. MoneyOK' /\ status' \in {"absent", "pending", "active", "complete"}
  <2>1. CASE UNCHANGED <<status, moneyVars>>
    BY <2>1 DEF moneyVars, TypeOK, MoneyOK
  <2>2. CASE IsCreate
    <3>1. PICK a \in Address, amount \in StakeAmounts \cup {0} : \E t, h, n :
             CreateInternal(a, amount, t, h, n)
      BY <2>2 DEF IsCreate
    <3>2. amount \in Nat
      BY DuelAssumption
    <3>. QED BY <3>1, <3>2 DEF CreateInternal, TypeOK, MoneyOK, Side
  <2>3. CASE IsJoin
    BY <2>3 DEF IsJoin, JoinInternal, TypeOK, MoneyOK, Side
  <2>4. CASE IsEnd
    <3>1. ASSUME NEW k \in {"finalized", "refunded", "forfeited"},
                 NEW w \in Side \cup {"tie", "none"}, Closes(k, w)
          PROVE  MoneyOK' /\ status' = "complete"
      BY <3>1, CloseEmpties DEF Closes, MoneyOK, Money
    <3>2. CASE RefundPending(creator)
      <4>1. [s \in Side |-> IF s = "p0" THEN stake["p0"] ELSE 0] = stake
        BY <3>2 DEF RefundPending, TypeOK, MoneyOK, Side
      <4>2. Closes("refunded", "none")
        BY <3>2, <4>1 DEF RefundPending, Closes, Splits
      <4>. QED BY <4>2, <3>1
    <3>. QED BY <2>4, <3>1, <3>2, EndCloses
  <2>. QED BY <2>1, <2>2, <2>3, <2>4, Frames
<1>3. GameOK'
  <2>1. CASE UNCHANGED gameVars
    BY <2>1 DEF gameVars, TypeOK, GameOK
  <2>2. CASE IsReveal
    BY <2>2 DEF IsReveal, RevealDeck, TypeOK, GameOK
  <2>3. CASE IsSwipe
    <3>1. PICK a \in Address, i \in CardIdx, up \in BOOLEAN, q \in Nat \ {0} :
             SwipeInternal(a, i, up, q)
      BY <2>3 DEF IsSwipe
    <3>2. [up |-> up, quantity |-> q] \in Swipe /\ SideOf(a) \in Side
      BY DEF Swipe, SideOf, Side
    <3>3. swipes' \in [Side -> [CardIdx -> Swipe \cup {NoSwipe}]]
      BY <3>1, <3>2 DEF SwipeInternal, TypeOK, GameOK
    <3>4. next' \in [Side -> 0..MaxDeckSize]
      <4>1. i + 1 \in 0..MaxDeckSize
        BY DuelAssumption DEF CardIdx
      <4>. QED BY <3>1, <3>2, <4>1 DEF SwipeInternal, TypeOK, GameOK
    <3>. QED BY <3>1, <3>3, <3>4 DEF SwipeInternal, TypeOK, GameOK
  <2>. QED BY <2>1, <2>2, <2>3, Frames
<1>4. SettleOK'
  <2>1. CASE UNCHANGED settleVars
    BY <2>1 DEF settleVars, TypeOK, SettleOK
  <2>2. CASE IsSettle
    <3>1. PICK i \in CardIdx, p \in Nat, hold \in [Side -> BOOLEAN], fed \in [Side -> Nat] :
             Commit(i, p, [s \in Side |-> Score(s, i, p, hold[s])],
                          [s \in Side |-> PremiumOf(s, i, fed[s])])
      BY <2>2 DEF IsSettle
    <3>2. \A s \in Side : Score(s, i, p, hold[s]) \in Nat /\ PremiumOf(s, i, fed[s]) \in Nat
      BY DEF Score, PremiumOf, TypeOK, GameOK, Swipe
    <3>. QED BY <3>1, <3>2 DEF Commit, Booked, TypeOK, SettleOK
  <2>3. CASE IsTestFinalize
    <3>1. PICK p \in Nat : FinalizeTestOnePrice(p)
      BY <2>3 DEF IsTestFinalize
    <3>2. \A s \in Side, i \in CardIdx : Score(s, i, p, TRUE) \in Nat
      BY DEF Score, TypeOK, GameOK, Swipe
    <3>3. Unsettled \subseteq CardIdx /\ Cardinality(Unsettled) \in Nat
      <4>1. deckSize \in Nat /\ deckSize <= MaxDeckSize /\ MaxDeckSize \in Nat
        BY DuelAssumption DEF TypeOK, IdentOK
      <4>2. IsFiniteSet(0..(deckSize - 1))
        BY <4>1, FS_Interval
      <4>3. IsFiniteSet(Unsettled)
        BY <4>2, FS_Subset DEF Unsettled
      <4>. QED BY <4>1, <4>3, FS_CardinalityType DEF Unsettled, CardIdx
    <3>4. /\ settled' \subseteq CardIdx
          /\ settledCount' \in Nat
          /\ price' \in [CardIdx -> Nat]
          /\ prem' \in [Side -> [CardIdx -> Nat]]
      BY <3>1, <3>3 DEF FinalizeTestOnePrice, TypeOK, SettleOK
    <3>5. pay' = [s \in Side |-> [i \in CardIdx |->
                    IF i \in Unsettled THEN Score(s, i, p, TRUE) ELSE pay[s][i]]]
      BY <3>1 DEF FinalizeTestOnePrice
    <3>6. pay' \in [Side -> [CardIdx -> Nat]]
      BY <3>5, <3>2 DEF TypeOK, SettleOK
    <3>. QED BY <3>4, <3>6 DEF SettleOK
  <2>. QED BY <2>1, <2>2, <2>3, Frames
<1>5. elapsed' \in 0..Horizon
  BY Frames, DuelAssumption DEF TypeOK, IsJoin, JoinInternal, Tick, Horizon
<1>6. held' \in [Side -> SUBSET CardIdx]
  <2>1. CASE IsSwipe
    BY <2>1 DEF IsSwipe, TypeOK, SideOf, Side
  <2>2. CASE RedeemSome
    BY <2>2 DEF RedeemSome, RedeemEarly, TypeOK
  <2>. QED BY <2>1, <2>2, Frames DEF TypeOK
<1>. QED BY <1>1, <1>2, <1>3, <1>4, <1>5, <1>6 DEF TypeOK

-----------------------------------------------------------------------------
(* The inductive invariant                                                  *)

\* What the other invariants do not say: nothing is played before the join, the
\* two players are distinct accounts, a free duel escrows nothing.
Shape ==
    /\ tier = "free" => stakeAmount = 0
    /\ status = "absent" => settled = {} /\ tier = "staked"
    /\ status \in {"absent", "pending"} =>
          /\ challenger = NoAddress
          /\ cards = NoDeck
          /\ next = [s \in Side |-> 0]
    /\ status = "active" => challenger # NoAddress
    /\ status # "absent" => deckSize > 0

IInv ==
    /\ TypeOK /\ Shape
    /\ EveryCoinAccounted /\ SwipesFillPrefix /\ SettledCountExact
    /\ PayoutsAreProven /\ OutcomeFollowsPlay

LEMMA InitIInv == Init => IInv
<1> SUFFICES ASSUME Init PROVE IInv
  OBVIOUS
<1>1. TypeOK
  BY InitTypeOK
<1>2. Shape /\ EveryCoinAccounted /\ OutcomeFollowsPlay
  BY DEF Init, Shape, EveryCoinAccounted, OutcomeFollowsPlay, Money
<1>3. SwipesFillPrefix /\ PayoutsAreProven
  BY DuelAssumption DEF Init, SwipesFillPrefix, PayoutsAreProven, CardIdx, Side
<1>4. SettledCountExact
  BY FS_EmptySet, DuelAssumption DEF Init, SettledCountExact, CardIdx
<1>. QED BY <1>1, <1>2, <1>3, <1>4 DEF IInv

LEMMA IInvGuards ==
    ASSUME IInv
    PROVE  /\ FreeIsFree \/ status # "pending"
           /\ status = "pending" => stake["p1"] = 0
BY DEF IInv, Shape, EveryCoinAccounted, FreeIsFree, Money, Side

\* A closed duel does not move; only the players' Predict accounts do.
LEMMA Frozen ==
    ASSUME IInv, [Next]_vars, status = "complete"
    PROVE  UNCHANGED <<status, identVars, moneyVars, gameVars, settleVars, elapsed>>
<1>1. ~IsCreate /\ ~IsJoin /\ ~IsReveal /\ ~IsSwipe /\ ~IsSettle /\ ~Tick
  BY DEF IsCreate, CreateInternal, IsJoin, JoinInternal, IsReveal, RevealDeck,
         IsSwipe, SwipeInternal, IsSettle, PreflightSettle, Tick
<1>2. ~IsFinalize /\ ~IsTestFinalize /\ ~IsRefund /\ ~IsClaim
  BY DEF IsFinalize, FinalizeInternal, IsTestFinalize, FinalizeTestOnePrice,
         IsRefund, RefundDuel, RefundActive, RefundDue, RefundPending, IsClaim, ClaimRevealTimeout
<1>. QED BY <1>1, <1>2, Frames, IInvGuards DEF IInv, IsEnd

LEMMA StepShape == ASSUME IInv, [Next]_vars PROVE Shape'
<1> USE DEF IInv, TypeOK, IdentOK, GameOK, Shape, identVars, moneyVars, gameVars, settleVars
<1>1. CASE IsCreate
  BY <1>1 DEF IsCreate, CreateInternal
<1>2. CASE IsJoin
  BY <1>2, DuelAssumption DEF IsJoin, JoinInternal
<1>3. CASE IsEnd
  BY <1>3, EndCloses, IInvGuards, CloseEmpties, Frames
     DEF Closes, RefundPending, Close, IsCreate, CreateInternal, IsJoin, JoinInternal
<1>4. CASE UNCHANGED <<status, identVars>>
  BY <1>4, Frames, IInvGuards DEF IsReveal, RevealDeck, IsSwipe, SwipeInternal,
     IsSettle, PreflightSettle, IsTestFinalize, FinalizeTestOnePrice, FinalizeInternal
<1>. QED BY <1>1, <1>2, <1>3, <1>4, Frames, IInvGuards

LEMMA StepMoney == ASSUME IInv, [Next]_vars PROVE EveryCoinAccounted'
<1> USE DEF IInv, EveryCoinAccounted
<1>1. CASE IsCreate
  BY <1>1 DEF IsCreate, CreateInternal, Money, Side
<1>2. CASE IsJoin
  <2>1. PICK a \in Address, amount \in Nat : amount = stake["p0"] /\ JoinInternal(a, amount)
    BY <1>2 DEF IsJoin
  <2>2. stake = Money(stakeAmount, 0) /\ paid = Money(0, 0) /\ stakeAmount \in Nat
    BY <2>1 DEF JoinInternal, TypeOK, IdentOK
  <2>3. /\ stake' = [stake EXCEPT !["p1"] = @ + amount]
        /\ paid' = paid /\ stakeAmount' = stakeAmount /\ status' = "active"
    BY <2>1 DEF JoinInternal
  <2>4. stake["p0"] = stakeAmount /\ stake["p1"] = 0 /\ stake \in [Side -> Nat]
    BY <2>2 DEF Money, Side, TypeOK, MoneyOK
  <2>5. /\ stake' \in [Side -> Nat]
        /\ stake'["p0"] = stakeAmount /\ stake'["p1"] = stakeAmount
    BY <2>1, <2>3, <2>4 DEF Side
  <2>6. stake' = Money(stakeAmount, stakeAmount)
    BY <2>5 DEF Money, Side
  <2>. QED BY <2>2, <2>3, <2>6 DEF Money
<1>3. CASE UNCHANGED identVars /\ UNCHANGED <<status, moneyVars>>
  BY <1>3 DEF identVars, moneyVars
<1>4. CASE UNCHANGED identVars /\ IsEnd
  <2>1. stakeAmount' = stakeAmount /\ challenger' = challenger /\ stakeAmount \in Nat
    BY <1>4 DEF identVars, TypeOK, IdentOK
  <2>2. ASSUME NEW k, NEW w, Closes(k, w), status = "active"
        PROVE  EveryCoinAccounted'
    <3>1. Splits = {Money(stakeAmount, stakeAmount), Money(2 * stakeAmount, 0),
                    Money(0, 2 * stakeAmount)}
      BY <2>1, <2>2 DEF Splits, WholePot, Pot, Money, Side
    <3>2. \A to \in Splits : [s \in Side |-> paid[s] + to[s]] = to
      BY <2>1, <2>2, <3>1 DEF Money, Side
    <3>3. status' = "complete" /\ stake' = Money(0, 0) /\ paid' \in Splits
      BY <2>2, <3>2, CloseEmpties DEF Closes
    <3>4. challenger # NoAddress
      BY <2>2 DEF Shape
    <3>. QED BY <2>1, <3>1, <3>3, <3>4
  <2>3. CASE RefundPending(creator)
    <3>1. [s \in Side |-> IF s = "p0" THEN stake["p0"] ELSE 0] = stake
      BY <2>3, IInvGuards DEF RefundPending, TypeOK, MoneyOK, Side
    <3>2. stake = Money(stakeAmount, 0) /\ paid = Money(0, 0)
      BY <2>3 DEF RefundPending
    <3>3. Close(stake, "refunded", "none")
      BY <2>3, <3>1 DEF RefundPending
    <3>4. status' = "complete" /\ stake' = Money(0, 0)
          /\ paid' = [s \in Side |-> paid[s] + stake[s]]
      BY <3>3, CloseEmpties DEF Splits
    <3>5. paid' = Money(stakeAmount, 0)
      BY <2>1, <3>2, <3>4 DEF Money, Side
    <3>6. challenger = NoAddress
      BY <2>3 DEF RefundPending, Shape
    <3>. QED BY <2>1, <3>4, <3>5, <3>6
  <2>. QED BY <1>4, <2>2, <2>3, EndCloses
<1>. QED BY <1>1, <1>2, <1>3, <1>4, Frames, IInvGuards

LEMMA StepPrefix == ASSUME IInv, [Next]_vars PROVE SwipesFillPrefix'
<1> USE DEF IInv, SwipesFillPrefix
<1>1. CASE UNCHANGED gameVars /\ UNCHANGED identVars
  BY <1>1 DEF gameVars, identVars
<1>2. CASE IsCreate \/ IsJoin
  BY <1>2, DuelAssumption
     DEF IsCreate, CreateInternal, IsJoin, JoinInternal, Shape, gameVars, TypeOK, IdentOK, CardIdx
<1>3. CASE IsReveal
  BY <1>3, DuelAssumption DEF IsReveal, RevealDeck, identVars
<1>4. CASE IsSwipe
  <2>1. PICK a \in Address, i \in CardIdx, up \in BOOLEAN, q \in Nat \ {0} :
           SwipeInternal(a, i, up, q)
    BY <1>4 DEF IsSwipe
  <2> DEFINE s == SideOf(a)
  <2>2. /\ s \in Side /\ i = next[s] /\ i < deckSize /\ i \in Nat
        /\ deckSize' = deckSize /\ cards' = cards /\ cards # NoDeck
        /\ deckSize \in Nat
    BY <2>1 DEF SwipeInternal, InTurn, SideOf, Side, CardIdx, identVars, TypeOK, IdentOK
  <2>3. /\ next' = [next EXCEPT ![s] = i + 1]
        /\ swipes' = [swipes EXCEPT ![s][i] = [up |-> up, quantity |-> q]]
    BY <2>1 DEF SwipeInternal
  <2>4. [up |-> up, quantity |-> q] # NoSwipe
    BY DuelAssumption DEF Swipe
  <2> HIDE DEF s
  <2>5. ASSUME NEW t \in Side
        PROVE  /\ next'[t] <= deckSize /\ next'[t] \in Nat
               /\ \A j \in CardIdx : swipes'[t][j] # NoSwipe <=> j < next'[t]
    <3>1. next[t] \in Nat /\ next[t] <= deckSize
      BY <2>2 DEF TypeOK, GameOK
    <3>2. CASE t = s
      <4>1. next'[t] = i + 1
        BY <2>2, <2>3, <3>2 DEF TypeOK, GameOK
      <4>2. ASSUME NEW j \in CardIdx
            PROVE  swipes'[t][j] # NoSwipe <=> j < i + 1
        <5>1. CASE j = i
          BY <2>2, <2>3, <2>4, <3>2, <5>1 DEF TypeOK, GameOK
        <5>2. CASE j # i
          <6>1. swipes'[t][j] = swipes[t][j]
            BY <2>2, <2>3, <3>2, <5>2 DEF TypeOK, GameOK
          <6>2. swipes[t][j] # NoSwipe <=> j < i
            BY <2>2, <3>2
          <6>. QED BY <2>2, <5>2, <6>1, <6>2 DEF CardIdx
        <5>. QED BY <5>1, <5>2
      <4>. QED BY <2>2, <4>1, <4>2
    <3>3. CASE t # s
      <4>1. next'[t] = next[t] /\ swipes'[t] = swipes[t]
        BY <2>2, <2>3, <3>3 DEF TypeOK, GameOK
      <4>. QED BY <3>1, <4>1
    <3>. QED BY <3>2, <3>3
  <2>. QED BY <2>2, <2>5
<1>. QED BY <1>1, <1>2, <1>3, <1>4, Frames, IInvGuards

LEMMA SettledFinite ==
    ASSUME TypeOK
    PROVE  /\ IsFiniteSet(0..(deckSize - 1)) /\ Cardinality(0..(deckSize - 1)) = deckSize
           /\ 0..(deckSize - 1) \subseteq CardIdx
           /\ settled \subseteq 0..(deckSize - 1) => IsFiniteSet(settled)
<1>1. deckSize \in Nat /\ deckSize <= MaxDeckSize /\ MaxDeckSize \in Nat
  BY DuelAssumption DEF TypeOK, IdentOK
<1>2. IsFiniteSet(0..(deckSize - 1)) /\ Cardinality(0..(deckSize - 1)) = deckSize
  BY <1>1, FS_Interval
<1>. QED BY <1>1, <1>2, FS_Subset DEF CardIdx

LEMMA StepCount == ASSUME IInv, [Next]_vars PROVE SettledCountExact'
<1> USE DEF IInv, SettledCountExact
<1>1. CASE UNCHANGED settleVars /\ UNCHANGED identVars
  BY <1>1 DEF settleVars, identVars
<1>2. CASE IsCreate \/ IsJoin
  BY <1>2 DEF IsCreate, CreateInternal, IsJoin, JoinInternal, Shape, settleVars
<1>3. CASE IsSettle
  <2>1. PICK i \in CardIdx, p \in Nat : PreflightSettle(i, p) /\ \E y, m : Commit(i, p, y, m)
    BY <1>3 DEF IsSettle
  <2>2. Cardinality(settled \cup {i}) = settledCount + 1
    BY <2>1, SettledFinite, FS_AddElement DEF PreflightSettle
  <2>3. settled \cup {i} \subseteq 0..(deckSize - 1)
    BY <2>1 DEF PreflightSettle, CardIdx, TypeOK, IdentOK
  <2>4. \A j \in CardIdx : price'[j] = IF j = i THEN p ELSE price[j]
    BY <2>1 DEF Commit, Booked, TypeOK, SettleOK
  <2>. QED BY <2>1, <2>2, <2>3, <2>4 DEF Commit, Booked, PreflightSettle, identVars
<1>4. CASE IsTestFinalize
  <2>1. PICK p \in Nat : FinalizeTestOnePrice(p)
    BY <1>4 DEF IsTestFinalize
  <2>2. settled' = 0..(deckSize - 1) /\ deckSize' = deckSize
    BY <2>1 DEF FinalizeTestOnePrice, Unsettled, identVars
  <2>3. settledCount' = deckSize
    <3>1. settled \cap Unsettled = {} /\ settled \cup Unsettled = 0..(deckSize - 1)
      BY DEF Unsettled
    <3>2. IsFiniteSet(settled) /\ IsFiniteSet(Unsettled)
      BY SettledFinite, FS_Subset DEF Unsettled
    <3>3. Cardinality(settled) + Cardinality(Unsettled) = deckSize
      <4>1. Cardinality(settled \cup Unsettled)
              = Cardinality(settled) + Cardinality(Unsettled) - Cardinality(settled \cap Unsettled)
        BY <3>2, FS_Union
      <4>2. Cardinality(settled) \in Nat /\ Cardinality(Unsettled) \in Nat
        BY <3>2, FS_CardinalityType
      <4>3. Cardinality({}) = 0
        BY FS_EmptySet
      <4>4. Cardinality(0..(deckSize - 1)) = deckSize
        BY SettledFinite
      <4>5. deckSize = Cardinality(settled) + Cardinality(Unsettled) - 0
        BY <3>1, <4>1, <4>3, <4>4, Zenon
      <4>. QED BY <4>2, <4>5
    <3>. QED BY <2>1, <3>3 DEF FinalizeTestOnePrice
  <2>4. \A j \in CardIdx : price'[j] = IF j \in Unsettled THEN p ELSE price[j]
    BY <2>1 DEF FinalizeTestOnePrice
  <2>5. p > 0
    BY <2>1 DEF FinalizeTestOnePrice
  <2>. QED BY <2>2, <2>3, <2>4, <2>5, SettledFinite DEF Unsettled
<1>. QED BY <1>1, <1>2, <1>3, <1>4, Frames, IInvGuards

\* The claim PayoutsAreProven makes about one side and one card.
ProvenAt(s, i) ==
    /\ pay[s][i] > 0 =>
          /\ i \in settled
          /\ swipes[s][i] # NoSwipe
          /\ pay[s][i] = swipes[s][i].quantity
          /\ swipes[s][i].up = (price[i] > cards[i])
    /\ prem[s][i] > 0 => i \in settled /\ swipes[s][i] # NoSwipe

LEMMA ProvenEverywhere == PayoutsAreProven <=> \A s \in Side, i \in CardIdx : ProvenAt(s, i)
BY DEF PayoutsAreProven, ProvenAt

LEMMA StepProven == ASSUME IInv, [Next]_vars PROVE PayoutsAreProven'
<1> SUFFICES ASSUME NEW s \in Side, NEW j \in CardIdx PROVE ProvenAt(s, j)'
  BY DEF PayoutsAreProven, ProvenAt
<1>0. ProvenAt(s, j)
  BY ProvenEverywhere DEF IInv
<1>a. pay[s][j] \in Nat /\ prem[s][j] \in Nat
  BY DEF IInv, TypeOK, SettleOK
<1>1. CASE UNCHANGED gameVars /\ UNCHANGED settleVars
  BY <1>0, <1>1 DEF ProvenAt, gameVars, settleVars
<1>2. CASE IsReveal
  <2>1. cards = NoDeck /\ UNCHANGED <<swipes, settleVars>>
    BY <1>2 DEF IsReveal, RevealDeck
  <2>2. swipes[s][j] = NoSwipe
    <3>1. next[s] \in Nat /\ ~(next[s] > 0)
      BY <2>1 DEF IInv, SwipesFillPrefix, TypeOK, GameOK
    <3>. QED BY <3>1 DEF IInv, SwipesFillPrefix, CardIdx
  <2>. QED BY <1>0, <1>a, <2>1, <2>2 DEF ProvenAt, settleVars
<1>3. CASE IsSwipe
  <2>1. PICK a \in Address, i \in CardIdx, up \in BOOLEAN, q \in Nat \ {0} :
           SwipeInternal(a, i, up, q)
    BY <1>3 DEF IsSwipe
  <2>2. SideOf(a) \in Side /\ i = next[SideOf(a)]
    BY <2>1 DEF SwipeInternal, InTurn, SideOf, Side
  <2>3. swipes[SideOf(a)][i] = NoSwipe
    BY <2>2 DEF IInv, SwipesFillPrefix, CardIdx
  <2>4. /\ swipes' = [swipes EXCEPT ![SideOf(a)][i] = [up |-> up, quantity |-> q]]
        /\ cards' = cards /\ UNCHANGED settleVars
    BY <2>1 DEF SwipeInternal
  <2>5. CASE s = SideOf(a) /\ j = i
    BY <1>0, <1>a, <2>3, <2>4, <2>5 DEF ProvenAt, settleVars
  <2>6. CASE ~(s = SideOf(a) /\ j = i)
    <3>1. swipes'[s][j] = swipes[s][j]
      BY <2>2, <2>4, <2>6 DEF IInv, TypeOK, GameOK
    <3>. QED BY <1>0, <2>4, <3>1 DEF ProvenAt, settleVars
  <2>. QED BY <2>5, <2>6
<1>4. CASE IsSettle
  <2>1. PICK i \in CardIdx, p \in Nat, hold \in [Side -> BOOLEAN], fed \in [Side -> Nat] :
           /\ PreflightSettle(i, p)
           /\ Commit(i, p, [t \in Side |-> Score(t, i, p, hold[t])],
                           [t \in Side |-> PremiumOf(t, i, fed[t])])
    BY <1>4 DEF IsSettle
  <2>2. /\ pay'[s] = [pay[s] EXCEPT ![i] = Score(s, i, p, hold[s])]
        /\ prem'[s] = [prem[s] EXCEPT ![i] = PremiumOf(s, i, fed[s])]
        /\ settled' = settled \cup {i}
        /\ price' = [price EXCEPT ![i] = p]
        /\ cards' = cards /\ swipes' = swipes
    BY <2>1 DEF Commit, Booked, gameVars
  <2>3. CASE j = i
    <3>1. pay'[s][j] = Score(s, i, p, hold[s]) /\ prem'[s][j] = PremiumOf(s, i, fed[s])
          /\ price'[j] = p /\ j \in settled'
      BY <2>2, <2>3 DEF IInv, TypeOK, SettleOK
    <3>. QED BY <2>2, <2>3, <3>1 DEF ProvenAt, Score, PremiumOf, ActualUp
  <2>4. CASE j # i
    <3>1. pay'[s][j] = pay[s][j] /\ prem'[s][j] = prem[s][j] /\ price'[j] = price[j]
      BY <2>2, <2>4 DEF IInv, TypeOK, SettleOK
    <3>. QED BY <1>0, <2>2, <3>1 DEF ProvenAt
  <2>. QED BY <2>3, <2>4
<1>5. CASE IsTestFinalize
  <2>1. PICK p \in Nat : FinalizeTestOnePrice(p)
    BY <1>5 DEF IsTestFinalize
  <2>2. /\ pay'[s][j] = IF j \in Unsettled THEN Score(s, j, p, TRUE) ELSE pay[s][j]
        /\ settled' = settled \cup Unsettled
        /\ price'[j] = IF j \in Unsettled THEN p ELSE price[j]
        /\ prem' = prem /\ cards' = cards /\ swipes' = swipes
    BY <2>1 DEF FinalizeTestOnePrice, gameVars
  <2>. QED BY <1>0, <2>2 DEF ProvenAt, Score, ActualUp
<1>. QED BY <1>1, <1>2, <1>3, <1>4, <1>5, Frames, IInvGuards DEF IInv

\* finalize's verdict in words: what it pays, to whom, and why.
LEMMA FinalizeVerdict ==
    ASSUME IInv, NEW c, NEW y, NEW m, FinalizeInternal(c, y, m)
    PROVE  /\ outcome'.kind = "finalized" /\ outcome'.winner \in Side \cup {"tie"}
           /\ outcome'.winner \in Side =>
                 /\ paid'[outcome'.winner] = 2 * stakeAmount
                 /\ \/ next[outcome'.winner] > next[Other(outcome'.winner)] /\ TimeExpired
                    \/ /\ BothDone /\ c = deckSize
                       /\ Value(outcome'.winner, y, m) > Value(Other(outcome'.winner), y, m)
           /\ outcome'.winner = "tie" =>
                 /\ paid' = Money(stakeAmount, stakeAmount)
                 /\ next["p0"] = next["p1"]
                 /\ \/ ~BothDone /\ TimeExpired
                    \/ BothDone /\ c = deckSize /\ Value("p0", y, m) = Value("p1", y, m)
<1>1. /\ status = "active" /\ stake = Money(stakeAmount, stakeAmount) /\ paid = Money(0, 0)
      /\ stakeAmount \in Nat
  BY DEF FinalizeInternal, IInv, EveryCoinAccounted, TypeOK, IdentOK
<1>2. ASSUME NEW s \in Side, NEW k, Close(WholePot(s), k, s)
      PROVE  outcome' = [kind |-> k, winner |-> s] /\ paid'[s] = 2 * stakeAmount
  BY <1>1, <1>2 DEF Close, WholePot, Pot, Money, Side
<1>3. ASSUME Close(stake, "finalized", "tie")
      PROVE  outcome' = [kind |-> "finalized", winner |-> "tie"]
             /\ paid' = Money(stakeAmount, stakeAmount)
  BY <1>1, <1>3 DEF Close, Money, Side
<1>4. next["p0"] \in Nat /\ next["p1"] \in Nat
  BY DEF IInv, TypeOK, GameOK, Side
<1>5. CASE FinalizeForfeit
  <2> DEFINE leader == IF next["p0"] > next["p1"] THEN "p0" ELSE "p1"
  <2>1. leader \in Side /\ next[leader] > next[Other(leader)] /\ TimeExpired
    BY <1>4, <1>5 DEF FinalizeForfeit, Side, Other
  <2>2. Close(WholePot(leader), "finalized", leader)
    BY <1>5 DEF FinalizeForfeit
  <2> HIDE DEF leader
  <2>3. outcome' = [kind |-> "finalized", winner |-> leader] /\ paid'[leader] = 2 * stakeAmount
    BY <1>2, <2>1, <2>2
  <2>. QED BY <2>1, <2>3 DEF Side
<1>6. CASE FinalizeScored(c, y, m)
  <2>1. BothDone /\ c = deckSize /\ next["p0"] = next["p1"]
    BY <1>6 DEF FinalizeScored, ScoreDue, AllSettled, BothDone
  <2>2. ASSUME NEW s \in Side, Value(s, y, m) > Value(Other(s), y, m),
               Close(WholePot(s), "finalized", s)
        PROVE  /\ outcome' = [kind |-> "finalized", winner |-> s]
               /\ paid'[s] = 2 * stakeAmount
    BY <1>2, <2>2
  <2>. QED BY <1>3, <1>6, <2>1, <2>2 DEF FinalizeScored, Side
<1>7. CASE FinalizeStuck
  BY <1>3, <1>7 DEF FinalizeStuck, Stuck, Side
<1>. QED BY <1>5, <1>6, <1>7 DEF FinalizeInternal

LEMMA StepOutcome == ASSUME IInv, [Next]_vars, TypeOK' PROVE OutcomeFollowsPlay'
<1> SUFFICES ASSUME status' = "complete" PROVE OutcomeFollowsPlay'
  BY DEF OutcomeFollowsPlay
<1>1. CASE status = "complete"
  BY <1>1, Frozen DEF IInv, OutcomeFollowsPlay, Wins, Value, BothDone, TimeExpired,
     identVars, moneyVars, gameVars, settleVars
<1>2. CASE IsFinalize
  <2>1. FinalizeInternal(settledCount, pay, prem)
        /\ UNCHANGED <<identVars, gameVars, settleVars, elapsed>>
    BY <1>2 DEF IsFinalize
  <2>2. settledCount = deckSize => settled = 0..(deckSize - 1)
    BY SettledFinite, FS_Subset DEF IInv, SettledCountExact
  <2>. QED BY <2>1, <2>2, FinalizeVerdict
       DEF OutcomeFollowsPlay, Wins, Value, BothDone, TimeExpired,
           identVars, gameVars, settleVars, Side
<1>3. CASE IsTestFinalize
  <2>1. PICK p \in Nat : FinalizeTestOnePrice(p)
    BY <1>3 DEF IsTestFinalize
  <2>2. FinalizeInternal(settledCount', pay', prem) /\ prem' = prem
        /\ UNCHANGED <<identVars, gameVars, elapsed>>
        /\ settled' = settled \cup Unsettled
    BY <2>1 DEF FinalizeTestOnePrice
  <2>3. settled' = 0..(deckSize - 1)
    BY <2>2 DEF Unsettled, IInv, SettledCountExact
  <2>. QED BY <2>2, <2>3, FinalizeVerdict
       DEF OutcomeFollowsPlay, Wins, Value, BothDone, TimeExpired,
           identVars, gameVars, Side
<1>4. CASE IsRefund
  <2>0. stake \in [Side -> Nat] /\ stakeAmount \in Nat
    BY DEF IInv, TypeOK, MoneyOK, IdentOK
  <2>1. PICK a \in Address : RefundDuel(a)
    BY <1>4 DEF IsRefund
  <2>2. UNCHANGED <<identVars, gameVars>>
    BY <2>1 DEF RefundDuel
  <2>3. CASE RefundPending(a)
    <3>1. stake = Money(stakeAmount, 0) /\ paid = Money(0, 0) /\ challenger = NoAddress
          /\ next["p0"] = 0 /\ next["p1"] = 0
      BY <2>3 DEF RefundPending, IInv, EveryCoinAccounted, Shape, Side
    <3>2. outcome' = [kind |-> "refunded", winner |-> "none"]
          /\ paid' = Money(stakeAmount, 0)
      BY <2>0, <2>3, <3>1 DEF RefundPending, Close, Money, Side
    <3>3. deckSize # 0
      BY <2>3 DEF RefundPending, IInv, Shape
    <3>. QED BY <2>2, <3>1, <3>2, <3>3
         DEF OutcomeFollowsPlay, BothDone, identVars, gameVars, Side
  <2>4. CASE RefundActive(a)
    <3>1. stake = Money(stakeAmount, stakeAmount) /\ paid = Money(0, 0)
          /\ challenger # NoAddress /\ ~BothDone
      BY <2>4 DEF RefundActive, RefundDue, IInv, EveryCoinAccounted, Shape
    <3>2. outcome' = [kind |-> "refunded", winner |-> "none"]
          /\ paid' = Money(stakeAmount, stakeAmount)
      BY <2>0, <2>4, <3>1 DEF RefundActive, RefundDue, Close, Money, Side
    <3>. QED BY <2>2, <3>1, <3>2
         DEF OutcomeFollowsPlay, BothDone, identVars, gameVars
  <2>. QED BY <2>1, <2>3, <2>4 DEF RefundDuel
<1>5. CASE IsClaim
  <2>0. stakeAmount \in Nat
    BY DEF IInv, TypeOK, IdentOK
  <2>1. PICK a \in Address : ClaimRevealTimeout(a)
    BY <1>5 DEF IsClaim
  <2>2. stake = Money(stakeAmount, stakeAmount) /\ paid = Money(0, 0)
    BY <2>1 DEF ClaimRevealTimeout, IInv, EveryCoinAccounted
  <2>3. outcome' = [kind |-> "forfeited", winner |-> "p1"]
        /\ paid' = Money(0, 2 * stakeAmount)
    BY <2>0, <2>1, <2>2 DEF ClaimRevealTimeout, Close, WholePot, Pot, Money, Side
  <2>. QED BY <2>1, <2>3 DEF OutcomeFollowsPlay, ClaimRevealTimeout, identVars, gameVars, Side
<1>6. CASE UNCHANGED <<status, moneyVars>> /\ status # "complete"
  BY <1>6
<1>7. ~IsCreate /\ ~IsJoin
  BY DEF IsCreate, CreateInternal, IsJoin, JoinInternal
<1>. QED BY <1>1, <1>2, <1>3, <1>4, <1>5, <1>6, <1>7, Frames, IInvGuards DEF IsEnd, IInv

-----------------------------------------------------------------------------
\* IInv holds initially and is kept by every step.
LEMMA StepIInv == ASSUME IInv, [Next]_vars PROVE IInv'
<1>1. TypeOK'
  BY StepTypeOK, IInvGuards DEF IInv
<1>. QED BY <1>1, StepShape, StepMoney, StepPrefix, StepCount, StepProven, StepOutcome DEF IInv

LEMMA SpecIInv == Spec => []IInv
<1>1. IInv /\ [Next]_vars => IInv'
  BY StepIInv
<1>. QED BY <1>1, InitIInv, PTL DEF Spec

\* Types, for any number of accounts, any deck size, any stakes, prices and deadlines
\* (every call of duel.move).
THEOREM DuelTypes == Spec => []TypeOK
<1>1. IInv => TypeOK
  BY DEF IInv
<1>. QED BY <1>1, SpecIInv, PTL

\* Coins are conserved and never stranded: each is in the pot or was paid out, and a
\* closed duel has paid both stakes whole (create, join, finalize, both refunds).
THEOREM DuelCoins == Spec => []EveryCoinAccounted
<1>1. IInv => EveryCoinAccounted
  BY DEF IInv
<1>. QED BY <1>1, SpecIInv, PTL

\* Each player's swipes fill a prefix of the deck (record_swipe).
THEOREM DuelSwipes == Spec => []SwipesFillPrefix
<1>1. IInv => SwipesFillPrefix
  BY DEF IInv
<1>. QED BY <1>1, SpecIInv, PTL

\* settled_count is the number of settled cards (settle_card, the one-price path).
THEOREM DuelCounts == Spec => []SettledCountExact
<1>1. IInv => SettledCountExact
  BY DEF IInv
<1>. QED BY <1>1, SpecIInv, PTL

\* A payout is credited only for a swipe that the settled price proves right
\* (score_staked_card, score_free_card).
THEOREM DuelPayouts == Spec => []PayoutsAreProven
<1>1. IInv => PayoutsAreProven
  BY DEF IInv
<1>. QED BY <1>1, SpecIInv, PTL

\* The verdict follows from what was played (finalize_internal and both exits).
THEOREM DuelOutcome == Spec => []OutcomeFollowsPlay
<1>1. IInv => OutcomeFollowsPlay
  BY DEF IInv
<1>. QED BY <1>1, SpecIInv, PTL

-----------------------------------------------------------------------------
(* Append-only history                                                      *)

LEMMA StepHistory == ASSUME IInv, [Next]_vars PROVE HistoryStep
<1>1. cards # NoDeck => cards' = cards
  BY Frames, IInvGuards DEF IInv, gameVars, IsReveal, RevealDeck, IsSwipe, SwipeInternal
<1>2. ASSUME NEW s \in Side, NEW i \in CardIdx, swipes[s][i] # NoSwipe
      PROVE  swipes'[s][i] = swipes[s][i]
  <2>1. CASE IsSwipe
    <3>1. PICK a \in Address, j \in CardIdx, up \in BOOLEAN, q \in Nat \ {0} :
             SwipeInternal(a, j, up, q)
      BY <2>1 DEF IsSwipe
    <3>2. SideOf(a) \in Side /\ j = next[SideOf(a)]
      BY <3>1 DEF SwipeInternal, InTurn, SideOf, Side
    <3>3. swipes[SideOf(a)][j] = NoSwipe
      BY <3>2 DEF IInv, SwipesFillPrefix, CardIdx
    <3>4. swipes' = [swipes EXCEPT ![SideOf(a)][j] = [up |-> up, quantity |-> q]]
      BY <3>1 DEF SwipeInternal
    <3>. QED BY <1>2, <3>2, <3>3, <3>4 DEF IInv, TypeOK, GameOK
  <2>. QED BY <2>1, Frames, IInvGuards DEF IInv, gameVars, IsReveal, RevealDeck
<1>3. ASSUME NEW i \in settled
      PROVE  /\ i \in settled' /\ price'[i] = price[i]
             /\ \A s \in Side : pay'[s][i] = pay[s][i] /\ prem'[s][i] = prem[s][i]
  <2>0. i \in CardIdx
    BY DEF IInv, TypeOK, SettleOK
  <2>1. CASE IsSettle
    <3>1. PICK j \in CardIdx, p \in Nat : PreflightSettle(j, p) /\ \E y, m : Commit(j, p, y, m)
      BY <2>1 DEF IsSettle
    <3>2. j # i
      BY <3>1 DEF PreflightSettle
    <3>. QED BY <2>0, <3>1, <3>2 DEF Commit, Booked, IInv, TypeOK, SettleOK
  <2>2. CASE IsTestFinalize
    <3>1. i \notin Unsettled
      BY DEF Unsettled
    <3>. QED BY <2>0, <2>2, <3>1 DEF IsTestFinalize, FinalizeTestOnePrice
  <2>. QED BY <2>1, <2>2, Frames, IInvGuards DEF IInv, settleVars
<1>. QED BY <1>1, <1>2, <1>3, Frozen DEF HistoryStep

\* No step of the contract rewrites what was revealed, swiped, settled or paid
\* (reveal_deck's EDeckAlreadyRevealed, record_swipe's EOutOfTurn and
\* settle_card's EAlreadySettled are what it rests on).
THEOREM DuelHistoryKept == Spec => HistoryKept
<1>1. IInv /\ [Next]_vars => IInv'
  BY StepIInv
<1>2. IInv /\ [Next]_vars => [HistoryStep]_vars
  BY StepHistory
<1>. QED BY <1>1, <1>2, InitIInv, PTL DEF Spec, HistoryKept

-----------------------------------------------------------------------------
(* Refinement                                                               *)

LEMMA StepEscrow == ASSUME IInv, [Next]_vars, IInv' PROVE [MoneyView!EscrowNext]_(MoneyView!escrowVars)
<1> USE DEF MoneyView!EscrowNext, MoneyView!escrowVars, IInv
<1>1. \A x, y : MoneyView!Pair(x, y) = Money(x, y)
  BY DEF MoneyView!Pair, MoneyView!Party, Money, Side
<1>2. CASE IsCreate
  <2>1. PICK a \in Address, amount \in StakeAmounts \cup {0} : \E t, h, n :
           CreateInternal(a, amount, t, h, n)
    BY <1>2 DEF IsCreate
  <2>2. stake' = Money(amount, 0)
    BY <2>1 DEF CreateInternal, EveryCoinAccounted, Money, Side
  <2>. QED BY <1>1, <2>1, <2>2 DEF CreateInternal, MoneyView!Open
<1>3. CASE IsJoin
  <2>1. status = "pending" /\ status' = "active" /\ paid' = paid /\ stakeAmount' = stakeAmount
    BY <1>3 DEF IsJoin, JoinInternal
  <2>2. stake = Money(stakeAmount, 0) /\ stake' = Money(stakeAmount, stakeAmount)
    BY <2>1 DEF EveryCoinAccounted
  <2>3. stake["p0"] = stakeAmount
    BY <2>2 DEF Money, Side
  <2>. QED BY <1>1, <2>1, <2>2, <2>3 DEF MoneyView!Match
<1>4. CASE IsEnd
  <2>1. status' = "complete" /\ status \in {"pending", "active"}
    BY <1>4, EndCloses, CloseEmpties DEF Closes, RefundPending, Close
  <2>2. UNCHANGED <<stakeAmount, challenger>>
    BY <1>4 DEF IsEnd, IsFinalize, IsTestFinalize, FinalizeTestOnePrice, IsRefund, RefundDuel,
       IsClaim, ClaimRevealTimeout, identVars
  <2>3. stake' = Money(0, 0)
    BY <2>1 DEF EveryCoinAccounted
  <2>4. CASE status = "pending"
    <3>1. challenger = NoAddress /\ stake = Money(stakeAmount, 0)
      BY <2>4 DEF Shape, EveryCoinAccounted
    <3>. QED BY <1>1, <2>1, <2>2, <2>3, <2>4, <3>1 DEF EveryCoinAccounted, MoneyView!Cancel
  <2>5. CASE status = "active"
    <3>1. challenger # NoAddress /\ stake = Money(stakeAmount, stakeAmount)
      BY <2>5 DEF Shape, EveryCoinAccounted
    <3>2. stake["p0"] = stakeAmount
      BY <3>1 DEF Money, Side
    <3>3. paid' \in {Money(stakeAmount, stakeAmount), Money(2 * stakeAmount, 0),
                     Money(0, 2 * stakeAmount)}
      BY <2>1, <2>2, <3>1 DEF EveryCoinAccounted
    <3>. QED BY <1>1, <2>1, <2>3, <2>5, <3>1, <3>2, <3>3 DEF MoneyView!Resolve
  <2>. QED BY <2>1, <2>4, <2>5
<1>5. CASE UNCHANGED <<status, moneyVars>>
  BY <1>5 DEF moneyVars
<1>. QED BY <1>2, <1>3, <1>4, <1>5, Frames, IInvGuards

\* The contract implements the two-party escrow: whatever the calls and their
\* order, the money moves as Escrow says.
THEOREM DuelImplementsEscrow == Spec => ImplementsEscrow
<1>1. Init => MoneyView!EscrowInit
  BY DEF Init, MoneyView!EscrowInit, MoneyView!Pair, MoneyView!Party, Side
<1>2. IInv /\ [Next]_vars => IInv'
  BY StepIInv
<1>3. IInv /\ [Next]_vars /\ IInv' => [MoneyView!EscrowNext]_(MoneyView!escrowVars)
  BY StepEscrow
<1>. QED BY <1>1, <1>2, <1>3, InitIInv, PTL DEF Spec, ImplementsEscrow, MoneyView!EscrowSpec

-----------------------------------------------------------------------------
(* Sums: the library's fold has a solution whatever order it chooses       *)
(* (SumsExist), so a sum is one member and the rest (SumPicked), and it    *)
(* grows with its terms (SumBelow).                                        *)

\* A family of subsets of a finite set has a member with no other inside.
LEMMA SmallestSubset ==
    ASSUME NEW S, IsFiniteSet(S), NEW T, T \subseteq SUBSET S, T # {}
    PROVE  \E s \in T : \A t \in T : t \subseteq s => t = s
<1> DEFINE R == StrictSubsetOrdering(S)  F == FiniteSubsetsOf(S)
<1>1. IsWellFoundedOn(R, F) /\ F = SUBSET S
  BY FS_StrictSubsetOrderingWellFounded, FS_FiniteSubsetsOfFinite
<1>2. \A s, t \in SUBSET S : t \subseteq s /\ t # s => <<t, s>> \in R
  BY DEF StrictSubsetOrdering
<1> HIDE DEF R, F
<1>3. PICK s \in T : \A t \in T : ~ (<<t, s>> \in R)
  BY <1>1, WFMin
<1>. QED BY <1>2, <1>3

\* The fold of SumFunctionOnSet.
Pick(s) == CHOOSE x \in s : TRUE
Sums(g, f, D) == g = [s \in D |-> IF s = {} THEN 0 ELSE f[Pick(s)] + g[s \ {Pick(s)}]]

LEMMA SumIsSolution ==
    ASSUME NEW S, NEW f
    PROVE  SumFunctionOnSet(f, S) = (CHOOSE g : Sums(g, f, SUBSET S))[S]
BY DEF SumFunctionOnSet, FoldFunctionOnSet, MapThenFoldSet, Sums, Pick

\* A set of naturals that is not empty has a least member.
LEMMA NatMin == ASSUME NEW T, T \subseteq Nat, T # {}
                PROVE  \E n \in T : \A m \in T : n <= m
<1> DEFINE R == {ss \in Nat \X Nat : ss[1] < ss[2]}
<1>1. IsWellFoundedOn(R, Nat)
  BY NatLessThanWellFounded DEF OpToRel
<1>2. \E n \in T : \A m \in T : ~ (<<m, n>> \in R)
  BY <1>1, WFMin
<1>3. \A n, m \in Nat : <<m, n>> \in R <=> m < n
  OBVIOUS
<1> HIDE DEF R
<1>4. PICK n \in T : \A m \in T : ~ (<<m, n>> \in R)
  BY <1>2
<1>5. \A m \in T : ~ (m < n)
  BY <1>3, <1>4
<1>. QED BY <1>5

\* A set with 0 and every successor of its members has every natural.
LEMMA Induct == ASSUME NEW T, 0 \in T, \A n \in Nat : n \in T => n + 1 \in T
                PROVE  Nat \subseteq T
<1> SUFFICES ASSUME Nat \ T # {} PROVE FALSE
  OBVIOUS
<1>1. PICK n \in Nat \ T : \A m \in Nat \ T : n <= m
  BY NatMin
<1>2. n # 0 /\ n - 1 \in Nat
  OBVIOUS
<1>3. n - 1 \in T
  BY <1>1, <1>2
<1>4. (n - 1) + 1 = n
  BY <1>2
<1>. QED BY <1>2, <1>3, <1>4

\* Two solutions agree where both are defined.
LEMMA SumsAgree ==
    ASSUME NEW S, IsFiniteSet(S), NEW R, S \subseteq R, NEW f, NEW g, NEW h,
           Sums(g, f, SUBSET S), Sums(h, f, SUBSET R)
    PROVE  \A s \in SUBSET S : g[s] = h[s]
<1> DEFINE T == {s \in SUBSET S : g[s] # h[s]}
<1> SUFFICES ASSUME T # {} PROVE FALSE
  OBVIOUS
<1>1. PICK s \in T : \A t \in T : t \subseteq s => t = s
  <2>1. T \subseteq SUBSET S
    OBVIOUS
  <2> HIDE DEF T
  <2>. QED BY <2>1, SmallestSubset
<1>2. /\ g[s] = IF s = {} THEN 0 ELSE f[Pick(s)] + g[s \ {Pick(s)}]
      /\ h[s] = IF s = {} THEN 0 ELSE f[Pick(s)] + h[s \ {Pick(s)}]
  BY DEF Sums
<1>3. s # {}
  BY <1>2
<1>4. Pick(s) \in s
  BY <1>3 DEF Pick
<1>5. g[s \ {Pick(s)}] # h[s \ {Pick(s)}]
  BY <1>2, <1>3
<1>. QED BY <1>1, <1>4, <1>5

LEMMA SumsExist ==
    ASSUME NEW S, IsFiniteSet(S), NEW f
    PROVE  \E g : Sums(g, f, SUBSET S)
<1> DEFINE D(n) == {s \in SUBSET S : Cardinality(s) <= n}
           F(g, n) == [s \in D(n) |-> IF s = {} THEN 0 ELSE f[Pick(s)] + g[s \ {Pick(s)}]]
           T == {n \in Nat : \E g : Sums(g, f, D(n))}
<1>1. \A s \in SUBSET S : IsFiniteSet(s) /\ Cardinality(s) \in Nat
  BY FS_Subset, FS_CardinalityType
<1>2. ASSUME NEW n \in Nat, NEW s \in D(n + 1), s # {} PROVE s \ {Pick(s)} \in D(n)
  <2>1. Pick(s) \in s
    BY <1>2 DEF Pick
  <2>2. Cardinality(s \ {Pick(s)}) = Cardinality(s) - 1
    BY <1>1, <2>1, FS_RemoveElement
  <2>. QED BY <1>1, <2>2
<1>3. \A n \in Nat : D(n) \subseteq D(n + 1)
  BY <1>1
<1>4. 0 \in T
  <2>1. D(0) \subseteq {{}}
    BY <1>1, FS_EmptySet
  <2> HIDE DEF D
  <2>2. Sums(F(0, 0), f, D(0))
    BY <2>1 DEF Sums
  <2>. QED BY <2>2
<1>5. ASSUME NEW n \in Nat, n \in T PROVE n + 1 \in T
  <2>1. PICK g : Sums(g, f, D(n))
    BY <1>5
  <2> HIDE DEF D
  <2> DEFINE h == F(g, n + 1)  k == F(h, n + 1)
  <2>2. ASSUME NEW s \in D(n + 1), s # {} PROVE h[s \ {Pick(s)}] = g[s \ {Pick(s)}]
    <3> DEFINE t == s \ {Pick(s)}
    <3>1. t \in D(n) /\ t \in D(n + 1)
      BY <1>2, <1>3, <2>2
    <3> HIDE DEF t
    <3>2. h[t] = IF t = {} THEN 0 ELSE f[Pick(t)] + g[t \ {Pick(t)}]
      BY <3>1
    <3>3. g[t] = IF t = {} THEN 0 ELSE f[Pick(t)] + g[t \ {Pick(t)}]
      BY <2>1, <3>1 DEF Sums
    <3> HIDE DEF h
    <3>. QED BY <3>2, <3>3 DEF t
  <2>3. \A s \in D(n + 1) : h[s] = IF s = {} THEN 0 ELSE f[Pick(s)] + g[s \ {Pick(s)}]
    OBVIOUS
  <2>4. \A s \in D(n + 1) : k[s] = IF s = {} THEN 0 ELSE f[Pick(s)] + h[s \ {Pick(s)}]
    <3> HIDE DEF h
    <3>. QED OBVIOUS
  <2>5. h = [s \in D(n + 1) |-> h[s]]
    OBVIOUS
  <2>6. k = [s \in D(n + 1) |-> k[s]]
    <3> HIDE DEF h
    <3>. QED OBVIOUS
  <2>7. h = k
    <3> HIDE DEF h, k
    <3>1. \A s \in D(n + 1) : h[s] = k[s]
      BY <2>2, <2>3, <2>4
    <3>2. [s \in D(n + 1) |-> h[s]] = [s \in D(n + 1) |-> k[s]]
      BY <3>1
    <3>. QED BY <2>5, <2>6, <3>2, Zenon
  <2>8. Sums(h, f, D(n + 1))
    <3> HIDE DEF h
    <3>. QED BY <2>7 DEF Sums
  <2> HIDE DEF h
  <2>. QED BY <2>8
<1>6. Nat \subseteq T
  <2> HIDE DEF T
  <2>. QED BY <1>4, <1>5, Induct
<1>7. \A s \in SUBSET S : Cardinality(s) <= Cardinality(S)
  BY FS_Subset
<1>8. D(Cardinality(S)) = SUBSET S /\ Cardinality(S) \in Nat
  BY <1>1, <1>7
<1> HIDE DEF D
<1>. QED BY <1>6, <1>8

\* The sum of f over S: one member and the rest.
LEMMA SumPicked ==
    ASSUME NEW S, IsFiniteSet(S), NEW f
    PROVE  SumFunctionOnSet(f, S) =
             IF S = {} THEN 0 ELSE f[Pick(S)] + SumFunctionOnSet(f, S \ {Pick(S)})
<1> DEFINE R == S \ {Pick(S)}
<1>1. IsFiniteSet(R) /\ R \subseteq S
  BY FS_RemoveElement
<1> HIDE DEF R
<1>2. PICK g : Sums(g, f, SUBSET S) /\ SumFunctionOnSet(f, S) = g[S]
  BY SumsExist, SumIsSolution
<1>3. PICK h : Sums(h, f, SUBSET R) /\ SumFunctionOnSet(f, R) = h[R]
  BY <1>1, SumsExist, SumIsSolution
<1>4. \A s \in SUBSET R : h[s] = g[s]
  <2>1. IsFiniteSet(R)
    BY <1>1
  <2>2. R \subseteq S
    BY <1>1
  <2>3. Sums(h, f, SUBSET R)
    BY <1>3
  <2>4. Sums(g, f, SUBSET S)
    BY <1>2
  <2>. QED BY ONLY <2>1, <2>2, <2>3, <2>4, SumsAgree
<1>5. g[S] = IF S = {} THEN 0 ELSE f[Pick(S)] + g[S \ {Pick(S)}]
  BY <1>2 DEF Sums
<1>. QED BY <1>2, <1>3, <1>4, <1>5 DEF R

LEMMA SumNat ==
    ASSUME NEW S, IsFiniteSet(S), NEW f, \A x \in S : f[x] \in Nat
    PROVE  \A s \in SUBSET S : SumFunctionOnSet(f, s) \in Nat
<1> DEFINE T == {s \in SUBSET S : SumFunctionOnSet(f, s) \notin Nat}
<1> SUFFICES ASSUME T # {} PROVE FALSE
  OBVIOUS
<1>1. PICK s \in T : \A t \in T : t \subseteq s => t = s
  <2>1. T \subseteq SUBSET S
    OBVIOUS
  <2> HIDE DEF T
  <2>. QED BY <2>1, SmallestSubset
<1>2. IsFiniteSet(s)
  BY FS_Subset
<1>3. SumFunctionOnSet(f, s) = IF s = {} THEN 0 ELSE f[Pick(s)] + SumFunctionOnSet(f, s \ {Pick(s)})
  BY <1>2, SumPicked
<1>4. s # {}
  BY <1>3
<1>5. Pick(s) \in s
  BY <1>4 DEF Pick
<1>6. s \ {Pick(s)} \notin T
  BY <1>1, <1>5
<1>. QED BY <1>3, <1>4, <1>5, <1>6

\* A pointwise smaller function has the smaller sum.
LEMMA SumBelow ==
    ASSUME NEW S, IsFiniteSet(S), NEW f \in [S -> Nat], NEW g \in [S -> Nat],
           \A x \in S : f[x] <= g[x]
    PROVE  SumFunction(f) <= SumFunction(g)
<1> DEFINE T == {s \in SUBSET S : ~(SumFunctionOnSet(f, s) <= SumFunctionOnSet(g, s))}
<1>1. T = {}
  <2> SUFFICES ASSUME T # {} PROVE FALSE
    OBVIOUS
  <2>1. PICK s \in T : \A t \in T : t \subseteq s => t = s
    <3>1. T \subseteq SUBSET S
      OBVIOUS
    <3> HIDE DEF T
    <3>. QED BY <3>1, SmallestSubset
  <2> DEFINE x == Pick(s)  r == s \ {x}
  <2>2. IsFiniteSet(s)
    BY FS_Subset
  <2>3. /\ SumFunctionOnSet(f, s) = IF s = {} THEN 0 ELSE f[x] + SumFunctionOnSet(f, r)
        /\ SumFunctionOnSet(g, s) = IF s = {} THEN 0 ELSE g[x] + SumFunctionOnSet(g, r)
    BY <2>2, SumPicked
  <2>4. s # {} /\ x \in s
    BY <2>3 DEF Pick
  <2>5. r \in SUBSET S /\ r \notin T
    BY <2>1, <2>4
  <2>6. /\ SumFunctionOnSet(f, r) \in Nat /\ SumFunctionOnSet(g, r) \in Nat
        /\ SumFunctionOnSet(f, r) <= SumFunctionOnSet(g, r)
    BY <2>5, SumNat
  <2>7. f[x] \in Nat /\ g[x] \in Nat /\ f[x] <= g[x]
    BY <2>4
  <2> HIDE DEF x, r
  <2>8. ~(SumFunctionOnSet(f, s) <= SumFunctionOnSet(g, s))
    OBVIOUS
  <2>. QED BY <2>3, <2>4, <2>6, <2>7, <2>8
<1>2. SumFunctionOnSet(f, S) <= SumFunctionOnSet(g, S)
  BY <1>1
<1>. QED BY <1>2 DEF SumFunction

LEMMA SumOfNone ==
    ASSUME NEW S, IsFiniteSet(S)
    PROVE  SumFunction([x \in S |-> 0]) = 0
<1> DEFINE f == [x \in S |-> 0]
           T == {s \in SUBSET S : SumFunctionOnSet(f, s) # 0}
<1>1. T = {}
  <2> SUFFICES ASSUME T # {} PROVE FALSE
    OBVIOUS
  <2>1. PICK s \in T : \A t \in T : t \subseteq s => t = s
    <3>1. T \subseteq SUBSET S
      OBVIOUS
    <3> HIDE DEF T
    <3>. QED BY <3>1, SmallestSubset
  <2>2. IsFiniteSet(s)
    BY FS_Subset
  <2>3. SumFunctionOnSet(f, s) = IF s = {} THEN 0 ELSE f[Pick(s)] + SumFunctionOnSet(f, s \ {Pick(s)})
    BY <2>2, SumPicked
  <2>4. s # {} /\ Pick(s) \in s
    BY <2>3 DEF Pick
  <2>5. SumFunctionOnSet(f, s \ {Pick(s)}) = 0
    BY <2>1, <2>4
  <2>6. f[Pick(s)] = 0
    BY <2>4
  <2>. QED BY <2>3, <2>4, <2>5, <2>6
<1>. QED BY <1>1 DEF SumFunction

-----------------------------------------------------------------------------
(* No duel is stranded                                                     *)

\* The premiums booked so far fit their accumulators: settle_card aborts else.
PremiumsFit == NoOverflow(prem)

LEMMA IndicesFinite == IsFiniteSet(CardIdx)
BY DuelAssumption, FS_Interval DEF CardIdx

LEMMA StepPremiumsFit == ASSUME IInv, PremiumsFit, [Next]_vars PROVE PremiumsFit'
<1>1. CASE IsSettle
  BY <1>1 DEF IsSettle, Commit, PremiumsFit, NoOverflow
<1>2. CASE ~IsSettle
  <2>1. UNCHANGED prem
    BY <1>2, Frames, IInvGuards DEF IInv, settleVars, IsTestFinalize, FinalizeTestOnePrice
  <2>. QED BY <2>1 DEF PremiumsFit, NoOverflow
<1>. QED BY <1>1, <1>2

\* A credit is at most the quantity of the swipe it is for.
LEMMA CreditFits ==
    ASSUME IInv, Fits, NEW i \in CardIdx, NEW p, NEW holds
    PROVE  NoOverflow(Booked(pay, i, [s \in Side |-> Score(s, i, p, s \in holds)]))
<1> DEFINE y == [s \in Side |-> Score(s, i, p, s \in holds)]
<1> SUFFICES ASSUME NEW s \in Side PROVE SumFunction(Booked(pay, i, y)[s]) <= MaxU64
  BY DEF NoOverflow
<1> DEFINE b == [pay[s] EXCEPT ![i] = y[s]]
<1>1. pay[s] \in [CardIdx -> Nat] /\ swipes[s] \in [CardIdx -> Swipe \cup {NoSwipe}]
  BY DEF IInv, TypeOK, SettleOK, GameOK
<1>2. Swiped(s) \in [CardIdx -> Nat]
  BY <1>1 DEF Swiped, Swipe
<1>3. y[s] \in Nat /\ y[s] <= Swiped(s)[i]
  <2>1. y[s] = Score(s, i, p, s \in holds)
    OBVIOUS
  <2>. QED BY <1>1, <1>2, <2>1 DEF Score, Swiped
<1>4. \A j \in CardIdx : pay[s][j] <= Swiped(s)[j]
  <2> SUFFICES ASSUME NEW j \in CardIdx PROVE pay[s][j] <= Swiped(s)[j]
    OBVIOUS
  <2>1. CASE pay[s][j] > 0
    BY <1>1, <1>2, <2>1 DEF IInv, PayoutsAreProven, Swiped
  <2>2. CASE pay[s][j] = 0
    BY <1>2, <2>2
  <2>. QED BY <1>1, <2>1, <2>2
<1> HIDE DEF y
<1>5. b \in [CardIdx -> Nat] /\ \A j \in CardIdx : b[j] <= Swiped(s)[j]
  BY <1>1, <1>2, <1>3, <1>4
<1> HIDE DEF b
<1>6. SumFunction(b) <= SumFunction(Swiped(s))
  BY <1>2, <1>5, IndicesFinite, SumBelow
<1>7. SumFunction(Swiped(s)) <= MaxU64
  BY DEF Fits, NoOverflow
<1>8. SumFunction(b) \in Nat /\ SumFunction(Swiped(s)) \in Nat /\ MaxU64 \in Nat
  BY <1>2, <1>5, IndicesFinite, SumNat, DuelAssumption DEF SumFunction
<1>9. Booked(pay, i, y)[s] = b
  BY DEF Booked, b
<1>. QED BY <1>6, <1>7, <1>8, <1>9

LEMMA NotStranded == ASSUME IInv, PremiumsFit PROVE NeverStranded
<1> SUFFICES ASSUME status = "active", BothDone, settledCount # deckSize
             PROVE  /\ Unsettled # {}
                    /\ Fits => \A i \in Unsettled, p \in Prices \ {0}, holds \in SUBSET Side :
                                  CanSettle(i, p, [s \in Side |-> Score(s, i, p, s \in holds)])
  BY DEF NeverStranded, RefundDue, ScoreDue, AllSettled
<1>1. deckSize \in 0..MaxDeckSize /\ settledCount = Cardinality(settled) /\ settled \subseteq 0..(deckSize - 1)
  BY DEF IInv, TypeOK, IdentOK, SettledCountExact
<1>2. Unsettled # {}
  <2>1. Unsettled = {} => settled = 0..(deckSize - 1)
    BY <1>1 DEF Unsettled
  <2>2. Cardinality(0..(deckSize - 1)) = deckSize
    BY <1>1, FS_Interval
  <2>. QED BY <1>1, <2>1, <2>2
<1>3. cards # NoDeck
  <2>1. deckSize > 0
    BY <1>1, <1>2 DEF Unsettled
  <2>. QED BY <2>1 DEF BothDone, IInv, SwipesFillPrefix, Side
<1>4. ASSUME Fits, NEW i \in Unsettled, NEW p \in Prices \ {0}, NEW holds \in SUBSET Side
      PROVE  CanSettle(i, p, [s \in Side |-> Score(s, i, p, s \in holds)])
  <2>1. i \in CardIdx /\ i < deckSize /\ i \notin settled /\ p > 0
    BY <1>1, <1>4, DuelAssumption DEF Unsettled, CardIdx
  <2>2. PreflightSettle(i, p)
    BY <1>3, <2>1 DEF PreflightSettle
  <2>3. Booked(prem, i, [s \in Side |-> 0]) = prem
    <3>1. prem \in [Side -> [CardIdx -> Nat]] /\ \A s \in Side : prem[s][i] = 0
      BY <2>1 DEF IInv, TypeOK, SettleOK, PayoutsAreProven
    <3>2. \A s \in Side : [prem[s] EXCEPT ![i] = 0] = prem[s]
      BY <2>1, <3>1
    <3>. QED BY <3>1, <3>2 DEF Booked
  <2>. QED BY <1>4, <2>1, <2>2, <2>3, CreditFits DEF CanSettle, PremiumsFit
<1>. QED BY <1>2, <1>4

\* The stakes of a duel are never locked in for good: when all deadlines are past a
\* refund is due, or the score is, or every open card can be settled at once
\* (settle_card, refund_duel, finalize_internal), if the quantities fit u64.
THEOREM DuelNeverStranded == Spec => []NeverStranded
<1>1. Init => IInv /\ PremiumsFit
  <2>1. Init => \A s \in Side : SumFunction(prem[s]) = 0
    BY IndicesFinite, SumOfNone DEF Init
  <2>. QED BY <2>1, InitIInv, DuelAssumption DEF PremiumsFit, NoOverflow
<1>2. IInv /\ PremiumsFit /\ [Next]_vars => IInv' /\ PremiumsFit'
  BY StepIInv, StepPremiumsFit
<1>3. IInv /\ PremiumsFit => NeverStranded
  BY NotStranded
<1>. QED BY <1>1, <1>2, <1>3, PTL DEF Spec
-----------------------------------------------------------------------------
(* The keeper                                                              *)

Started == status \in {"active", "complete"}
HashOK  == status # "absent" => deckHash \in Deck

KInv ==
    /\ HashOK
    /\ pass.at # "rest" => Started

\* What no call undoes.
MonotoneStep ==
    /\ Started => Started'
    /\ status = "complete" => status' = "complete"
    /\ HashOK => HashOK'
    /\ HashOK /\ cards # NoDeck => cards' # NoDeck

LEMMA InitKInv == KeeperInit => KInv
BY DEF KeeperInit, Init, KInv, HashOK, Resting

LEMMA CloseMonotone ==
    ASSUME NEW to, NEW kind, NEW w, Close(to, kind, w), UNCHANGED <<deckHash, cards>>
    PROVE  status # "absent" => MonotoneStep
BY DEF Close, MonotoneStep, Started, HashOK

LEMMA FinalizeMonotone ==
    ASSUME NEW count, NEW y, NEW m, FinalizeInternal(count, y, m), UNCHANGED <<deckHash, cards>>
    PROVE  MonotoneStep
BY DEF FinalizeInternal, FinalizeForfeit, FinalizeScored, ScoreDue, FinalizeStuck, Close, MonotoneStep,
       Started, HashOK

LEMMA RevealMonotone ==
    ASSUME NEW d, RevealDeck(d)
    PROVE  MonotoneStep /\ (HashOK => cards' # NoDeck)
BY DuelAssumption DEF RevealDeck, MonotoneStep, Started, HashOK, identVars

LEMMA WorldMonotone == World => MonotoneStep
<1>1. ASSUME CreateSome PROVE MonotoneStep
  <2>1. PICK a \in Address, h \in Deck, n \in DeckSizes :
           \/ CreateDuelFree(a, h, n)
           \/ \E amount \in StakeAmounts : CreateDuel(a, amount, h, n)
    BY <1>1 DEF CreateSome
  <2>2. status = "absent" /\ deckHash' = h /\ cards' = cards
    BY <2>1 DEF CreateDuelFree, CreateDuel, CreateInternal, gameVars
  <2>. QED BY <2>2 DEF MonotoneStep, Started, HashOK
<1>2. ASSUME JoinSome PROVE MonotoneStep
  BY <1>2 DEF JoinSome, JoinDuelFree, JoinDuel, JoinInternal, gameVars, MonotoneStep,
              Started, HashOK
<1>3. ASSUME SwipeSome PROVE MonotoneStep
  BY <1>3 DEF SwipeSome, RecordSwipeFree, RecordSwipe, SwipeInternal, identVars, MonotoneStep,
              Started, HashOK
<1>4. ASSUME RedeemSome \/ Tick PROVE MonotoneStep
  BY <1>4 DEF RedeemSome, RedeemEarly, Tick, identVars, gameVars, MonotoneStep, Started, HashOK
<1>5. ASSUME PlayerExit PROVE MonotoneStep
  BY <1>5 DEF PlayerExit, RefundDuel, RefundPending, RefundActive, RefundDue, ClaimRevealTimeout, Close,
              identVars, gameVars, MonotoneStep, Started, HashOK
<1>6. ASSUME RevealSome PROVE MonotoneStep
  BY <1>6, RevealMonotone DEF RevealSome
<1>7. ASSUME NEW i \in CardIdx, SettleSome(i) PROVE MonotoneStep
  BY <1>7 DEF SettleSome, SettleCard, SettleCardFree, Commit, identVars, gameVars, MonotoneStep,
              Started, HashOK
<1>8. ASSUME FinalizeSome PROVE MonotoneStep
  BY <1>8, FinalizeMonotone DEF FinalizeSome, Finalize, FinalizeFree, identVars, gameVars
<1>9. ASSUME TestFinalizeSome PROVE MonotoneStep
  BY <1>9, FinalizeMonotone DEF TestFinalizeSome, FinalizeTestOnePrice, identVars, gameVars
<1>. QED BY <1>1, <1>2, <1>3, <1>4, <1>5, <1>6, <1>7, <1>8, <1>9 DEF World

LEMMA StillMonotone == UNCHANGED vars => MonotoneStep
BY DEF vars, identVars, gameVars, MonotoneStep, Started, HashOK

LEMMA TransactionMonotone == SettleAndRedeem => MonotoneStep
<1> SUFFICES ASSUME SettleAndRedeem PROVE MonotoneStep
  OBVIOUS
<1>1. UNCHANGED <<deckHash, cards>>
  BY DEF SettleAndRedeem, identVars, gameVars
<1>2. \/ FinalizeInternal(CountAfter, PayAfter, PremAfter)
      \/ UNCHANGED status
  BY DEF SettleAndRedeem
<1>. QED BY <1>1, <1>2, FinalizeMonotone DEF MonotoneStep, Started, HashOK

\* A transaction that finalizes closes the duel.
LEMMA RememberedIsClosed == SettleAndRedeem /\ Remember => status' = "complete"
BY DEF SettleAndRedeem, Remember, FinalizeInternal, FinalizeForfeit, FinalizeScored,
       FinalizeStuck, Close

\* Steps of Predict, of newer duels, and no step: contract and keeper rest.
Elsewhere == MarketSome \/ PushedOut \/ (\E s \in Side : OpenAccount(s)) \/ UNCHANGED kvars

LEMMA ElsewhereRests ==
    Elsewhere => /\ UNCHANGED <<vars, pass, finalized, revealed, faults>>
                 /\ others' # others => Disturbed /\ others' = others + 1
BY DEF Elsewhere, MarketSome, MarketSettles, PushedOut, OpenAccount, kvars, keeperVars

\* Every step of the composed system keeps what no call undoes.
LEMMA KeeperMonotone == [KeeperNext]_kvars => MonotoneStep
<1>1. ASSUME Reveal PROVE MonotoneStep
  BY <1>1, RevealMonotone, StillMonotone DEF Reveal
<1>2. ASSUME Send PROVE MonotoneStep
  BY <1>2, TransactionMonotone DEF Send
<1>3. ASSUME World PROVE MonotoneStep
  BY <1>3, WorldMonotone
<1>4. ASSUME Fetch \/ ReadMarkets \/ SendAborts \/ Drop PROVE UNCHANGED vars
  BY <1>4 DEF Fetch, ReadMarkets, SendAborts, Drop
<1>. QED BY <1>1, <1>2, <1>3, <1>4, ElsewhereRests, StillMonotone DEF KeeperNext, Elsewhere

LEMMA NextKInv == ASSUME KInv, [KeeperNext]_kvars PROVE KInv'
<1>1. MonotoneStep
  BY KeeperMonotone
<1>2. CASE Fetch
  <2>1. UNCHANGED status /\ Started
    BY <1>2 DEF Fetch, vars, Started
  <2>. QED BY <1>1, <2>1 DEF KInv, MonotoneStep, Started
<1>3. CASE ReadMarkets
  <2>1. pass.at = "read"
    BY <1>3 DEF ReadMarkets
  <2>. QED BY <1>1, <2>1 DEF KInv, MonotoneStep
<1>4. CASE Reveal \/ Send \/ SendAborts \/ Drop
  <2>1. pass' = Resting
    BY <1>4 DEF Reveal, Send, SendAborts, Drop
  <2>2. pass'.at = "rest"
    BY <2>1 DEF Resting
  <2>. QED BY <1>1, <2>2 DEF KInv, MonotoneStep
<1>5. CASE World \/ Elsewhere
  <2>1. UNCHANGED pass
    BY <1>5, ElsewhereRests DEF World, keeperVars
  <2>. QED BY <1>1, <2>1 DEF KInv, MonotoneStep
<1>. QED BY <1>2, <1>3, <1>4, <1>5 DEF KeeperNext, Elsewhere

LEMMA StepGivesUp == ASSUME KInv, [KeeperNext]_kvars PROVE [GivesUpStep]_kvars
<1> SUFFICES ASSUME finalized', ~finalized PROVE GivesUpStep
  BY DEF GivesUpStep
<1>1. CASE Fetch
  BY <1>1 DEF Fetch, vars, GivesUpStep
<1>2. CASE Reveal
  <2>1. UNCHANGED status /\ status # "active" /\ Started
    BY <1>2 DEF Reveal, Believes, vars, KInv
  <2>. QED BY <2>1 DEF Started, GivesUpStep
<1>3. CASE Send
  BY <1>3, RememberedIsClosed DEF Send, GivesUpStep
<1>4. CASE SendAborts
  <2>1. UNCHANGED status /\ pass.at = "send" /\ Started /\ Believes(CanSettleAll)
    BY <1>4 DEF SendAborts, vars, KInv
  <2>2. CASE status # "active"
    BY <2>1, <2>2 DEF Started, GivesUpStep
  <2>3. CASE CanSettleAll
    BY <1>4, <2>1, <2>3 DEF SendAborts, CanSend, RedeemFails, SoldEarly, GivesUpStep
  <2>. QED BY <2>1, <2>2, <2>3 DEF Believes
<1>5. CASE ReadMarkets \/ Drop \/ World \/ Elsewhere
  BY <1>5, ElsewhereRests DEF ReadMarkets, Drop, World, keeperVars
<1>. QED BY <1>1, <1>2, <1>3, <1>4, <1>5 DEF KeeperNext, Elsewhere

\* A duel enters the keeper's `finalized` set only when it is closed, whoever else
\* acts, however stale the snapshot and whatever fails (tryClose, tryReveal,
\* isTerminalSettleError), or when Predict aborted on redeeming a position of this
\* transaction that its player had sold.
THEOREM KeeperForgetsOnlyClosed == KeeperSpec => ForgetsOnlyClosed
<1>1. KInv /\ [KeeperNext]_kvars => KInv' /\ [GivesUpStep]_kvars
  BY NextKInv, StepGivesUp
<1>. QED BY InitKInv, <1>1, PTL DEF KeeperSpec, ForgetsOnlyClosed
-----------------------------------------------------------------------------
(* The contract's invariants hold with the keeper at work: its transaction *)
(* settles several cards, may finalize and redeems, and still leaves the   *)
(* duel as single calls would.                                             *)

\* What a transaction needs of the pass that sends it.
PassFits ==
    /\ market \in [CardIdx -> Nat]
    /\ pass.ready \subseteq CardIdx /\ pass.ready # {}
    /\ \A i \in pass.ready, s \in Side : pass.fed[i][s] \in Nat

\* The cards a transaction settles are open, revealed, in the deck and priced.
LEMMA Sendable ==
    ASSUME IInv, PassFits, SettleAndRedeem
    PROVE  /\ status = "active" /\ cards # NoDeck /\ tier = "staked"
           /\ pass.ready \subseteq 0..(deckSize - 1) /\ settled \cap pass.ready = {}
           /\ \A i \in pass.ready : market[i] \in Nat /\ market[i] > 0
           /\ IsFiniteSet(pass.ready) /\ Cardinality(pass.ready) \in Nat
           /\ settledCount' = Cardinality(settled') /\ settledCount' \in Nat
           /\ settled' = settled \cup pass.ready /\ settled' \subseteq 0..(deckSize - 1)
<1>1. /\ CanSend /\ settled' = settled \cup pass.ready
      /\ settledCount' = settledCount + Cardinality(pass.ready)
  BY DEF SettleAndRedeem, CountAfter
<1>2. \A i \in pass.ready : PreflightSettle(i, market[i]) /\ i \in Nat
  BY <1>1 DEF CanSend, CanSettleAll, PassFits, CardIdx
<1>3. deckSize \in Nat /\ settled \subseteq 0..(deckSize - 1) /\ settledCount = Cardinality(settled)
  BY DEF IInv, TypeOK, IdentOK, SettledCountExact
<1>4. /\ pass.ready \subseteq 0..(deckSize - 1) /\ settled \cap pass.ready = {}
      /\ \A i \in pass.ready : market[i] \in Nat /\ market[i] > 0
      /\ status = "active" /\ cards # NoDeck
  BY <1>2, <1>3 DEF PreflightSettle, PassFits
<1>5. IsFiniteSet(settled) /\ IsFiniteSet(pass.ready)
  BY <1>3, <1>4, SettledFinite, FS_Subset DEF IInv
<1>6. Cardinality(pass.ready) \in Nat /\ Cardinality(settled) \in Nat
  BY <1>5, FS_CardinalityType
<1>7. Cardinality(settled \cup pass.ready)
        = Cardinality(settled) + Cardinality(pass.ready) - Cardinality(settled \cap pass.ready)
  BY <1>5, FS_Union
<1>8. Cardinality(settled \cap pass.ready) = 0
  BY <1>4, FS_EmptySet
<1>9. Cardinality(settled') = Cardinality(settled) + Cardinality(pass.ready) - 0
  BY <1>1, <1>7, <1>8, Zenon
<1>10. settledCount' = Cardinality(settled') /\ settledCount' \in Nat
  BY <1>1, <1>3, <1>6, <1>9
<1>11. tier = "staked"
  BY <1>1 DEF CanSend, CanSettleAll
<1>12. settled' \subseteq 0..(deckSize - 1)
  BY <1>1, <1>3, <1>4
<1>. QED BY <1>1, <1>4, <1>5, <1>6, <1>10, <1>11, <1>12

\* Either the duel goes on and no coin moves, or finalize closed it.
LEMMA SendEnds ==
    ASSUME SettleAndRedeem
    PROVE  \/ UNCHANGED <<status, moneyVars>>
           \/ /\ FinalizeInternal(settledCount', pay', prem')
              /\ \E w \in Side \cup {"tie"} : Closes("finalized", w)
<1>1. settledCount' = CountAfter /\ pay' = PayAfter /\ prem' = PremAfter
  BY DEF SettleAndRedeem
<1>2. CASE FinalizeInternal(CountAfter, PayAfter, PremAfter)
  BY <1>1, <1>2, FinalizeCloses
<1>. QED BY <1>2 DEF SettleAndRedeem

LEMMA SendTypeOK ==
    ASSUME IInv, PassFits, SettleAndRedeem
    PROVE  TypeOK'
<1>1. IdentOK' /\ GameOK' /\ elapsed' \in 0..Horizon
  BY DEF SettleAndRedeem, identVars, gameVars, IInv, TypeOK, IdentOK, GameOK
<1>2. MoneyOK' /\ status' \in {"absent", "pending", "active", "complete"}
  <2>1. CASE UNCHANGED <<status, moneyVars>>
    BY <2>1 DEF moneyVars, IInv, TypeOK, MoneyOK
  <2>2. ASSUME NEW w \in Side \cup {"tie"}, Closes("finalized", w)
        PROVE  MoneyOK' /\ status' = "complete"
    BY <2>2, CloseEmpties DEF Closes, MoneyOK, Money, IInv
  <2>. QED BY <2>1, <2>2, SendEnds
<1>3. SettleOK'
  <2>1. settled' \subseteq CardIdx /\ settledCount' \in Nat
    BY Sendable, SettledFinite DEF IInv
  <2>2. price' \in [CardIdx -> Nat]
    BY DEF SettleAndRedeem, PassFits, IInv, TypeOK, SettleOK
  <2>3. \A s \in Side, i \in pass.ready : Score(s, i, market[i], HoldsAtSettle(s, i)) \in Nat
    BY DEF Score, IInv, TypeOK, GameOK, Swipe, PassFits
  <2>4. \A s \in Side, i \in pass.ready : PremiumOf(s, i, pass.fed[i][s]) \in Nat
    BY DEF PremiumOf, PassFits
  <2>5. pay' \in [Side -> [CardIdx -> Nat]]
    BY <2>3 DEF SettleAndRedeem, PayAfter, IInv, TypeOK, SettleOK
  <2>6. prem' \in [Side -> [CardIdx -> Nat]]
    BY <2>4 DEF SettleAndRedeem, PremAfter, IInv, TypeOK, SettleOK
  <2>. QED BY <2>1, <2>2, <2>5, <2>6 DEF SettleOK
<1>4. held' \in [Side -> SUBSET CardIdx]
  BY DEF SettleAndRedeem, IInv, TypeOK
<1>. QED BY <1>1, <1>2, <1>3, <1>4 DEF TypeOK

LEMMA SendIInv ==
    ASSUME IInv, PassFits, SettleAndRedeem
    PROVE  IInv'
<1>1. UNCHANGED <<identVars, gameVars, elapsed>>
  BY DEF SettleAndRedeem
<1>2. TypeOK'
  BY SendTypeOK
<1>3. Shape'
  <2>1. status' \in {"active", "complete"}
    BY Sendable, SendEnds, CloseEmpties DEF Closes, IInv
  <2>. QED BY <1>1, <2>1, Sendable DEF IInv, Shape, identVars, gameVars
<1>4. EveryCoinAccounted'
  <2>1. CASE UNCHANGED <<status, moneyVars>>
    BY <1>1, <2>1 DEF identVars, moneyVars, IInv, EveryCoinAccounted
  <2>2. ASSUME NEW w \in Side \cup {"tie"}, Closes("finalized", w)
        PROVE  EveryCoinAccounted'
    <3>1. /\ stake = Money(stakeAmount, stakeAmount) /\ paid = Money(0, 0) /\ stakeAmount \in Nat
          /\ challenger # NoAddress /\ stakeAmount' = stakeAmount /\ challenger' = challenger
      BY <1>1, Sendable DEF identVars, IInv, TypeOK, IdentOK, EveryCoinAccounted, Shape
    <3>2. Splits = {Money(stakeAmount, stakeAmount), Money(2 * stakeAmount, 0),
                    Money(0, 2 * stakeAmount)}
      BY <3>1 DEF Splits, WholePot, Pot, Money, Side
    <3>3. \A to \in Splits : [s \in Side |-> paid[s] + to[s]] = to
      BY <3>1, <3>2 DEF Money, Side
    <3>4. status' = "complete" /\ stake' = Money(0, 0) /\ paid' \in Splits
      BY <2>2, <3>3, CloseEmpties DEF Closes, IInv
    <3>. QED BY <3>1, <3>2, <3>4 DEF EveryCoinAccounted
  <2>. QED BY <2>1, <2>2, SendEnds
<1>5. SwipesFillPrefix'
  BY <1>1 DEF identVars, gameVars, IInv, SwipesFillPrefix
<1>6. SettledCountExact'
  <2>1. \A i \in CardIdx : price'[i] = IF i \in pass.ready THEN market[i] ELSE price[i]
    BY DEF SettleAndRedeem
  <2>. QED BY <1>1, <2>1, Sendable DEF identVars, IInv, SettledCountExact, PassFits
<1>7. PayoutsAreProven'
  <2> SUFFICES ASSUME NEW s \in Side, NEW i \in CardIdx PROVE ProvenAt(s, i)'
    BY DEF PayoutsAreProven, ProvenAt
  <2>1. ProvenAt(s, i)
    BY ProvenEverywhere DEF IInv
  <2>2. /\ pay'[s][i] = IF i \in pass.ready THEN Score(s, i, market[i], HoldsAtSettle(s, i)) ELSE pay[s][i]
        /\ prem'[s][i] = IF i \in pass.ready THEN PremiumOf(s, i, pass.fed[i][s]) ELSE prem[s][i]
        /\ price'[i] = IF i \in pass.ready THEN market[i] ELSE price[i]
        /\ settled' = settled \cup pass.ready /\ cards' = cards /\ swipes' = swipes
    BY DEF SettleAndRedeem, PayAfter, PremAfter, gameVars
  <2>. QED BY <2>1, <2>2 DEF ProvenAt, Score, PremiumOf, ActualUp
<1>8. OutcomeFollowsPlay'
  <2>1. CASE FinalizeInternal(settledCount', pay', prem')
    <3>1. settledCount' = deckSize => settled' = 0..(deckSize - 1)
      BY Sendable, SettledFinite, FS_Subset DEF IInv
    <3>. QED BY <1>1, <2>1, <3>1, FinalizeVerdict
         DEF OutcomeFollowsPlay, Wins, Value, BothDone, TimeExpired, identVars, gameVars, Side
  <2>2. CASE UNCHANGED <<status, moneyVars>>
    BY <2>2, Sendable DEF OutcomeFollowsPlay
  <2>. QED BY <2>1, <2>2, SendEnds
<1>. QED BY <1>2, <1>3, <1>4, <1>5, <1>6, <1>7, <1>8 DEF IInv

-----------------------------------------------------------------------------
(* A pass between its reads and its transaction.                           *)

PassPlayed ==
    /\ pass.at # "rest" => Started
    /\ pass.at \in {"read", "send"} => BothDone
FedBoth ==
    pass.at = "send" => \A i \in pass.ready : pass.fed[i]["p0"] = 0 <=> pass.fed[i]["p1"] = 0
\* A position that is held belongs to a swipe.
HeldSwiped == \A s \in Side : \A i \in held[s] : swipes[s][i] # NoSwipe

PInv == IInv /\ HashOK /\ KeeperTypeOK /\ PassPlayed /\ HeldSwiped

LEMMA PassForms ==
    /\ Resting \in PassType /\ [at |-> "reveal"] \in PassType
    /\ Resting.at = "rest"
    /\ \A d \in SUBSET CardIdx : [at |-> "read", done |-> d] \in PassType
    /\ \A d \in SUBSET CardIdx, r \in SUBSET CardIdx : \A f \in [r -> [Side -> Premiums \cup {0}]] :
          [at |-> "send", done |-> d, ready |-> r, fed |-> f] \in PassType
BY DEF PassType, Resting

LEMMA PassCases ==
    ASSUME NEW p \in PassType
    PROVE  /\ p.at \in {"rest", "reveal", "read", "send"}
           /\ p.at = "rest" <=> p = Resting
           /\ p.at = "read" => p.done \in SUBSET CardIdx
           /\ p.at = "send" => /\ p.done \in SUBSET CardIdx /\ p.ready \in SUBSET CardIdx
                               /\ p.fed \in [p.ready -> [Side -> Premiums \cup {0}]]
BY DEF PassType, Resting

LEMMA SendFits ==
    ASSUME KeeperTypeOK, pass.at = "send"
    PROVE  PassFits
<1>1. /\ pass.ready \in SUBSET CardIdx
      /\ pass.fed \in [pass.ready -> [Side -> Premiums \cup {0}]]
  BY PassCases DEF KeeperTypeOK
<1>2. \A i \in pass.ready, s \in Side : pass.fed[i][s] \in Premiums \cup {0}
  BY <1>1
<1>3. market \in [CardIdx -> Nat] /\ Premiums \cup {0} \subseteq Nat
  <2>1. Prices \cup {0} \subseteq Nat /\ Premiums \cup {0} \subseteq Nat
    BY DuelAssumption
  <2>2. market \in [CardIdx -> Prices \cup {0}]
    BY DEF KeeperTypeOK
  <2>. QED BY <2>1, <2>2
<1>4. pass.ready # {}
  BY DEF KeeperTypeOK
<1>. QED BY <1>1, <1>2, <1>3, <1>4 DEF PassFits

LEMMA WorldIsNext == World => Next
BY DEF World, Next

\* What reads and premium lookups give a transaction.
LEMMA ReadsFit ==
    /\ PremiumReads \subseteq [Side -> Premiums \cup {0}]
    /\ 0 \notin Premiums => \A f \in PremiumReads : f["p0"] = 0 <=> f["p1"] = 0
BY DEF PremiumReads, ResolvePremiums, Side

LEMMA InitPInv == KeeperInit => PInv
<1> SUFFICES ASSUME KeeperInit PROVE PInv
  OBVIOUS
<1>1. IInv
  BY InitIInv DEF KeeperInit
<1>2. pass = Resting /\ pass.at = "rest" /\ pass \in PassType
  BY PassForms DEF KeeperInit
<1>3. 0 + 0 <= MaxFaults
  BY KeeperAssumption
<1>4. KeeperTypeOK
  BY <1>2, <1>3 DEF KeeperInit, KeeperTypeOK
<1>5. PassPlayed /\ HashOK
  BY <1>2 DEF PassPlayed, KeeperInit, Init, HashOK
<1>6. HeldSwiped
  BY DEF KeeperInit, Init, HeldSwiped, Side
<1>. QED BY <1>1, <1>4, <1>5, <1>6 DEF PInv

\* Any step of the composed system is one of the contract, or the keeper's
\* transaction, or leaves the contract alone.
LEMMA ContractSteps ==
    ASSUME PInv, [KeeperNext]_kvars
    PROVE  \/ [Next]_vars /\ pass.at # "send"
           \/ [Next]_vars /\ UNCHANGED pass
           \/ UNCHANGED vars
           \/ Send /\ SettleAndRedeem /\ PassFits /\ pass.at = "send" /\ pass' = Resting
<1>1. CASE Reveal
  <2>1. RevealDeck(deckHash) \/ UNCHANGED vars
    BY <1>1 DEF Reveal
  <2>2. RevealDeck(deckHash) => deckHash \in Deck
    BY DEF RevealDeck, PInv, HashOK
  <2>. QED BY <1>1, <2>1, <2>2 DEF Reveal, Next, RevealSome
<1>2. CASE World
  BY <1>2, WorldIsNext DEF World, keeperVars
<1>3. CASE Send
  BY <1>3, SendFits DEF Send, PInv
<1>4. CASE Fetch \/ ReadMarkets \/ SendAborts \/ Drop \/ Elsewhere
  BY <1>4, ElsewhereRests DEF Fetch, ReadMarkets, SendAborts, Drop
<1>. QED BY <1>1, <1>2, <1>3, <1>4 DEF KeeperNext, Elsewhere

LEMMA NextContract == ASSUME PInv, [KeeperNext]_kvars PROVE IInv'
BY ContractSteps, StepIInv, SendIInv DEF PInv

LEMMA NextKeeperTypeOK == ASSUME PInv, [KeeperNext]_kvars PROVE KeeperTypeOK'
<1>0. /\ market \in [CardIdx -> Prices \cup {0}] /\ pass \in PassType
      /\ pass.at = "send" => pass.ready # {} /\ pass.ready \cap pass.done = {}
      /\ finalized \in BOOLEAN /\ revealed \in BOOLEAN
      /\ faults \in Nat /\ others \in Nat /\ faults + others <= MaxFaults /\ MaxFaults \in Nat
  BY KeeperAssumption DEF PInv, KeeperTypeOK
<1>1. faults' \in Nat /\ others' \in Nat /\ faults' + others' <= MaxFaults
  <2>1. \/ UNCHANGED <<faults, others>>
        \/ Disturbed /\ faults' = faults + 1 /\ others' = others
        \/ Disturbed /\ others' = others + 1 /\ faults' = faults
    BY DEF KeeperNext, Fetch, Reveal, ReadMarkets, Send, SendAborts, Drop, MarketSome, MarketSettles, PushedOut, OpenAccount, World, keeperVars, kvars
  <2>. QED BY <1>0, <2>1 DEF Disturbed
<1>2. market' \in [CardIdx -> Prices \cup {0}]
  <2>1. UNCHANGED market \/ \E i \in CardIdx, p \in Prices : market' = [market EXCEPT ![i] = p]
    BY DEF KeeperNext, Fetch, Reveal, ReadMarkets, Send, SendAborts, Drop, MarketSome, MarketSettles, PushedOut, OpenAccount, World, keeperVars, kvars
  <2>. QED BY <1>0, <2>1
<1>3. finalized' \in BOOLEAN /\ revealed' \in BOOLEAN
  <2>1. CASE SendAborts
    BY <1>0, <2>1, KeeperAssumption DEF SendAborts, Believes
  <2>2. CASE Fetch \/ Reveal \/ Drop
    BY <1>0, <2>2 DEF Fetch, Reveal, Drop
  <2>3. CASE Send
    BY <1>0, <2>3 DEF Send, Remember, WillFinalize
  <2>4. CASE ReadMarkets \/ World \/ Elsewhere
    BY <1>0, <2>4, ElsewhereRests DEF ReadMarkets, World, keeperVars
  <2>. QED BY <2>1, <2>2, <2>3, <2>4 DEF KeeperNext, Elsewhere
<1>4. /\ pass' \in PassType
      /\ pass'.at = "send" => pass'.ready # {} /\ pass'.ready \cap pass'.done = {}
  <2>1. CASE Fetch
    <3>1. settled \in SUBSET CardIdx
      BY DEF PInv, IInv, TypeOK, SettleOK
    <3>2. pass' \in {Resting, [at |-> "reveal"], [at |-> "read", done |-> settled]}
      BY <2>1 DEF Fetch
    <3>. QED BY <3>1, <3>2, PassForms
  <2>2. CASE Reveal \/ Send \/ SendAborts \/ Drop
    BY <2>2, PassForms DEF Reveal, Send, SendAborts, Drop
  <2>3. CASE ReadMarkets
    <3>1. PICK seen \in SUBSET Ready :
             \/ pass' = Resting
             \/ seen # {} /\ \E fed \in [seen -> PremiumReads] :
                   pass' = [at |-> "send", done |-> pass.done, ready |-> seen, fed |-> fed]
      BY <2>3 DEF ReadMarkets
    <3>2. pass.done \in SUBSET CardIdx /\ seen \in SUBSET CardIdx /\ seen \cap pass.done = {}
      <4>1. pass.done \in SUBSET CardIdx
        BY <1>0, <2>3, PassCases DEF ReadMarkets
      <4>2. 0..(deckSize - 1) \subseteq CardIdx
        BY SettledFinite DEF PInv, IInv
      <4>. QED BY <4>1, <4>2 DEF Ready
    <3>3. CASE pass' = Resting
      BY <3>3, PassForms
    <3>4. ASSUME seen # {}, NEW fed \in [seen -> PremiumReads],
                 pass' = [at |-> "send", done |-> pass.done, ready |-> seen, fed |-> fed]
          PROVE  /\ pass' \in PassType
                 /\ pass'.ready # {} /\ pass'.ready \cap pass'.done = {}
      <4>1. fed \in [seen -> [Side -> Premiums \cup {0}]]
        BY ReadsFit
      <4>2. pass' \in PassType
        BY <3>2, <3>4, <4>1, PassForms
      <4>. QED BY <3>2, <3>4, <4>2
    <3>. QED BY <3>1, <3>3, <3>4
  <2>4. CASE World \/ Elsewhere
    BY <1>0, <2>4, ElsewhereRests DEF World, keeperVars
  <2>. QED BY <2>1, <2>2, <2>3, <2>4 DEF KeeperNext, Elsewhere
<1>5. inWindow' \in BOOLEAN /\ wrapped' \subseteq Side /\ redeemAborts' \in BOOLEAN
  <2>0. inWindow \in BOOLEAN /\ wrapped \subseteq Side /\ redeemAborts \in BOOLEAN
    BY DEF PInv, KeeperTypeOK
  <2>1. CASE UNCHANGED worldVars
    BY <2>0, <2>1 DEF worldVars
  <2>2. CASE PushedOut \/ \E s \in Side : OpenAccount(s)
    BY <2>0, <2>2 DEF PushedOut, OpenAccount
  <2>. QED BY <2>1, <2>2 DEF KeeperNext, Fetch, Reveal, ReadMarkets, Send, SendAborts, Drop,
           MarketSome, MarketSettles, World, kvars
<1>. QED BY <1>1, <1>2, <1>3, <1>4, <1>5 DEF KeeperTypeOK

\* Nobody swipes once both players are done.
LEMMA DoneStays ==
    ASSUME IInv, [Next]_vars, Started, BothDone
    PROVE  BothDone'
<1>1. ~IsCreate /\ ~IsJoin
  BY DEF IsCreate, CreateInternal, IsJoin, JoinInternal, Started
<1>2. UNCHANGED identVars
  BY <1>1, Frames, IInvGuards DEF IInv
<1>3. ~IsSwipe
  <2> SUFFICES ASSUME NEW a \in Address, NEW i \in CardIdx, NEW up, NEW q, SwipeInternal(a, i, up, q)
               PROVE  FALSE
    BY DEF IsSwipe
  <2>1. i < deckSize /\ i = next[SideOf(a)] /\ SideOf(a) \in {"p0", "p1"}
    BY DEF SwipeInternal, InTurn, SideOf
  <2>. QED BY <2>1 DEF BothDone, CardIdx, IInv, TypeOK, IdentOK
<1>4. UNCHANGED next
  BY <1>3, Frames, IInvGuards DEF IInv, gameVars, IsReveal, RevealDeck
<1>. QED BY <1>2, <1>4 DEF BothDone, identVars

LEMMA NextPassPlayed == ASSUME PInv, [KeeperNext]_kvars PROVE PassPlayed'
<1>0. pass \in PassType /\ MonotoneStep /\ pass.at \in {"rest", "reveal", "read", "send"}
  BY KeeperMonotone, PassCases DEF PInv, KeeperTypeOK
<1>1. CASE pass' = Resting
  BY <1>1, PassForms DEF PassPlayed
<1>2. CASE Fetch /\ pass' # Resting
  <2>1. status = "active" /\ UNCHANGED vars
    BY <1>2 DEF Fetch
  <2>2. pass' = [at |-> "reveal"] \/ BothDone
    BY <1>2 DEF Fetch
  <2>3. Started' /\ (BothDone => BothDone')
    BY <2>1 DEF Started, BothDone, vars, identVars, gameVars
  <2>. QED BY <2>2, <2>3 DEF PassPlayed
<1>3. CASE ReadMarkets /\ pass' # Resting
  <2>1. pass.at = "read" /\ UNCHANGED vars
    BY <1>3 DEF ReadMarkets
  <2>2. Started /\ BothDone
    BY <2>1 DEF PInv, PassPlayed
  <2>. QED BY <2>1, <2>2 DEF PassPlayed, Started, BothDone, vars, identVars, gameVars
<1>4. CASE UNCHANGED pass
  <2>1. [Next]_vars \/ UNCHANGED vars \/ pass' = Resting
    BY ContractSteps
  <2>2. pass.at # "rest" => Started'
    BY <1>0 DEF PInv, PassPlayed, MonotoneStep
  <2>3. pass.at \in {"read", "send"} => BothDone' \/ pass' = Resting
    BY <2>1, DoneStays DEF PInv, PassPlayed
  <2>. QED BY <1>1, <1>4, <2>2, <2>3 DEF PassPlayed
<1>5. CASE Reveal \/ Send \/ SendAborts \/ Drop
  BY <1>1, <1>5 DEF Reveal, Send, SendAborts, Drop
<1>6. CASE World \/ Elsewhere
  BY <1>4, <1>6, ElsewhereRests DEF World, keeperVars
<1>. QED BY <1>1, <1>2, <1>3, <1>5, <1>6 DEF KeeperNext, Elsewhere

LEMMA NextHeldSwiped == ASSUME PInv, [KeeperNext]_kvars PROVE HeldSwiped'
<1>0. IInv /\ HeldSwiped
  BY DEF PInv
<1>1. CASE [Next]_vars
  <2> SUFFICES ASSUME NEW s \in Side, NEW i \in held'[s] PROVE swipes'[s][i] # NoSwipe
    BY DEF HeldSwiped
  <2>1. i \in CardIdx /\ held \in [Side -> SUBSET CardIdx]
    <3>1. TypeOK'
      BY <1>0, <1>1, StepIInv DEF IInv
    <3>. QED BY <1>0, <3>1 DEF IInv, TypeOK
  <2>2. CASE i \in held[s]
    <3>1. swipes[s][i] # NoSwipe
      BY <1>0, <2>2 DEF HeldSwiped
    <3>2. HistoryStep
      BY <1>0, <1>1, StepHistory
    <3>. QED BY <2>1, <3>1, <3>2 DEF HistoryStep
  <2>3. CASE i \notin held[s]
    <3>1. IsSwipe
      BY <1>0, <1>1, <2>1, <2>3, Frames, IInvGuards DEF IInv, RedeemSome, RedeemEarly
    <3>2. PICK a \in Address, j \in CardIdx, up \in BOOLEAN, q \in Nat \ {0} :
             /\ SwipeInternal(a, j, up, q)
             /\ held' \in {held, [held EXCEPT ![SideOf(a)] = @ \cup {j}]}
      BY <3>1 DEF IsSwipe
    <3>3. i = j /\ s = SideOf(a)
      BY <2>1, <2>3, <3>2
    <3>4. swipes' = [swipes EXCEPT ![s][i] = [up |-> up, quantity |-> q]]
      BY <3>2, <3>3 DEF SwipeInternal
    <3>5. swipes'[s][i] = [up |-> up, quantity |-> q]
      BY <1>0, <2>1, <3>4 DEF IInv, TypeOK, GameOK
    <3>6. [up |-> up, quantity |-> q] \in Swipe
      BY DEF Swipe
    <3>. QED BY <3>5, <3>6, DuelAssumption
  <2>. QED BY <2>2, <2>3
<1>2. CASE SettleAndRedeem
  <2>1. held' = [s \in Side |-> held[s] \ pass.ready] /\ UNCHANGED swipes
    BY <1>2 DEF SettleAndRedeem, gameVars
  <2>. QED BY <1>0, <2>1 DEF HeldSwiped
<1>3. CASE UNCHANGED vars
  BY <1>0, <1>3 DEF vars, gameVars, HeldSwiped
<1>. QED BY <1>1, <1>2, <1>3, ContractSteps

LEMMA NextPInv == PInv /\ [KeeperNext]_kvars => PInv'
<1>1. ASSUME PInv, [KeeperNext]_kvars PROVE HashOK'
  BY <1>1, KeeperMonotone DEF PInv, MonotoneStep
<1>. QED BY <1>1, NextContract, NextKeeperTypeOK, NextPassPlayed, NextHeldSwiped DEF PInv

-----------------------------------------------------------------------------
(* The keeper's transaction, seen from outside.                            *)

LEMMA SpecPInv == KeeperSpec => []PInv
<1>1. PInv /\ [KeeperNext]_kvars => PInv'
  BY NextPInv
<1>. QED BY InitPInv, <1>1, PTL DEF KeeperSpec

\* A transaction has something to settle and nothing its own snapshot saw
\* settled, and the keeper's sets and counters have their types.
THEOREM KeeperTypes == KeeperSpec => []KeeperTypeOK
<1>1. PInv => KeeperTypeOK
  BY DEF PInv
<1>. QED BY <1>1, SpecPInv, PTL

\* settle_card for several cards, finalize and the redeems in one transaction
\* leave the duel as separate calls would: its types, coins, counters, payouts,
\* swipes and verdict are as duel.move promises.
THEOREM KeeperKeepsContract ==
    KeeperSpec => [](/\ TypeOK /\ EveryCoinAccounted /\ SettledCountExact
                     /\ PayoutsAreProven /\ OutcomeFollowsPlay /\ SwipesFillPrefix)
<1>1. PInv => /\ TypeOK /\ EveryCoinAccounted /\ SettledCountExact
              /\ PayoutsAreProven /\ OutcomeFollowsPlay /\ SwipesFillPrefix
  BY DEF PInv, IInv
<1>. QED BY <1>1, SpecPInv, PTL

LEMMA SendHistory == ASSUME IInv, PassFits, SettleAndRedeem PROVE HistoryStep
<1>1. UNCHANGED <<cards, swipes>> /\ status = "active"
  BY Sendable DEF SettleAndRedeem, gameVars
<1>2. ASSUME NEW i \in settled
      PROVE  /\ i \in settled' /\ price'[i] = price[i]
             /\ \A s \in Side : pay'[s][i] = pay[s][i] /\ prem'[s][i] = prem[s][i]
  <2>1. i \notin pass.ready /\ i \in CardIdx
    BY Sendable DEF IInv, TypeOK, SettleOK
  <2>. QED BY <2>1 DEF SettleAndRedeem, PayAfter, PremAfter
<1>. QED BY <1>1, <1>2 DEF HistoryStep

LEMMA StillHistory == UNCHANGED vars => [HistoryStep]_vars
OBVIOUS

\* Nothing that was revealed, swiped, settled or paid is rewritten by the
\* keeper either, whatever its snapshot missed (settle_card's EAlreadySettled
\* aborts the whole transaction).
THEOREM KeeperKeepsHistory == KeeperSpec => HistoryKept
<1>1. PInv /\ [KeeperNext]_kvars => [HistoryStep]_vars
  BY ContractSteps, StepHistory, SendHistory DEF PInv
<1>. QED BY <1>1, SpecPInv, PTL DEF KeeperSpec, HistoryKept

\* What the keeper's transaction settles it settles on the pass's own cards.
LEMMA SettlesReady ==
    ASSUME PInv, [KeeperNext]_kvars, NEW i \in KeeperSettles
    PROVE  /\ SettleAndRedeem /\ i \in pass.ready /\ i \in CardIdx /\ pass.at = "send"
<1>1. pass' # pass /\ i \in settled' /\ i \notin settled
  BY DEF KeeperSettles
<1>2. ~UNCHANGED vars
  BY <1>1 DEF vars, settleVars
<1>3. CASE Send
  <2>1. SettleAndRedeem /\ pass.at = "send" /\ PassFits
    BY <1>3, SendFits DEF Send, PInv
  <2>2. settled' = settled \cup pass.ready
    BY <2>1 DEF SettleAndRedeem
  <2>. QED BY <1>1, <2>1, <2>2 DEF PassFits
<1>4. CASE Reveal
  BY <1>1, <1>2, <1>4 DEF Reveal, RevealDeck, settleVars
<1>. QED BY <1>1, <1>2, <1>3, <1>4
     DEF KeeperNext, Fetch, ReadMarkets, SendAborts, Drop, MarketSome, MarketSettles, PushedOut, OpenAccount, World,
         keeperVars, kvars

LEMMA StepCredits == PInv /\ [KeeperNext]_kvars => CreditStep
<1> SUFFICES ASSUME PInv, [KeeperNext]_kvars, NEW i \in KeeperSettles, NEW s \in Side
             PROVE  /\ price'[i] = market[i]
                    /\ i \in held[s] /\ swipes[s][i].up = (market[i] > cards[i])
                          => pay'[s][i] = swipes[s][i].quantity
  BY DEF CreditStep
<1>1. SettleAndRedeem /\ i \in pass.ready /\ i \in CardIdx
  BY SettlesReady
<1>2. price'[i] = market[i] /\ pay'[s][i] = Score(s, i, market[i], HoldsAtSettle(s, i))
  BY <1>1 DEF SettleAndRedeem, PayAfter
<1>3. i \in held[s] => swipes[s][i] # NoSwipe
  BY DEF PInv, HeldSwiped
<1>. QED BY <1>2, <1>3 DEF Score, HoldsAtSettle, ActualUp

\* Settles run before redeems: a position still in the account when the keeper
\* settles its card is paid in full if it called the market right, at the price
\* the market settled at (buildSettleTransaction's order of commands).
THEOREM PositionsCredited == KeeperSpec => LivePositionsCredited
<1>1. PInv /\ [KeeperNext]_kvars => [CreditStep]_kvars
  BY StepCredits
<1>. QED BY <1>1, SpecPInv, PTL DEF KeeperSpec, LivePositionsCredited

LEMMA NextFedBoth == ASSUME 0 \notin Premiums, PInv, FedBoth, [KeeperNext]_kvars PROVE FedBoth'
<1>1. CASE ReadMarkets
  <2>1. PICK seen \in SUBSET Ready :
           \/ pass' = Resting
           \/ \E fed \in [seen -> PremiumReads] :
                 pass' = [at |-> "send", done |-> pass.done, ready |-> seen, fed |-> fed]
    BY <1>1 DEF ReadMarkets
  <2>2. CASE pass' = Resting
    BY <2>2 DEF FedBoth, Resting
  <2>3. ASSUME NEW fed \in [seen -> PremiumReads],
               pass' = [at |-> "send", done |-> pass.done, ready |-> seen, fed |-> fed]
        PROVE  FedBoth'
    <3>1. \A i \in seen : fed[i] \in PremiumReads
      OBVIOUS
    <3>2. pass'.ready = seen /\ pass'.fed = fed
      BY <2>3
    <3>. QED BY <3>1, <3>2, ReadsFit DEF FedBoth
  <2>. QED BY <2>1, <2>2, <2>3
<1>2. CASE pass'.at # "send" \/ UNCHANGED pass
  BY <1>2 DEF FedBoth
<1>3. CASE Fetch \/ Reveal \/ Send \/ SendAborts \/ Drop
  <2>1. pass' \in {Resting, [at |-> "reveal"], [at |-> "read", done |-> settled]}
    BY <1>3 DEF Fetch, Reveal, Send, SendAborts, Drop
  <2>. QED BY <1>2, <2>1 DEF Resting
<1>. QED BY <1>1, <1>2, <1>3 DEF KeeperNext, MarketSome, MarketSettles, PushedOut, OpenAccount, World, keeperVars, kvars

LEMMA StepSymmetric == PInv /\ FedBoth /\ [KeeperNext]_kvars => SymmetricStep
<1> SUFFICES ASSUME PInv, FedBoth, [KeeperNext]_kvars, NEW i \in KeeperSettles
             PROVE  prem'["p0"][i] = 0 <=> prem'["p1"][i] = 0
  BY DEF SymmetricStep
<1>1. SettleAndRedeem /\ i \in pass.ready /\ i \in CardIdx /\ pass.at = "send"
  BY SettlesReady
<1>2. ASSUME NEW s \in Side PROVE prem'[s][i] = pass.fed[i][s]
  <2>1. prem'[s][i] = PremiumOf(s, i, pass.fed[i][s])
    BY <1>1 DEF SettleAndRedeem, PremAfter
  <2>2. PassFits /\ i \in 0..(deckSize - 1) /\ deckSize \in Nat
    BY <1>1, SendFits, Sendable DEF PInv, IInv, TypeOK, IdentOK
  <2>3. next[s] = deckSize
    BY <1>1 DEF PInv, PassPlayed, BothDone, Side
  <2>4. swipes[s][i] # NoSwipe
    BY <1>1, <2>2, <2>3 DEF PInv, IInv, SwipesFillPrefix
  <2>. QED BY <2>1, <2>4 DEF PremiumOf
<1>3. prem'["p0"][i] = pass.fed[i]["p0"] /\ prem'["p1"][i] = pass.fed[i]["p1"]
  BY <1>2 DEF Side
<1>. QED BY <1>1, <1>3 DEF FedBoth

\* A premium that cannot be read never biases a card: the keeper counts both
\* sides' or none (resolveCardPremiums).  A mint that cost nothing could not be
\* told from an unread one, hence the hypothesis.
THEOREM PremiumsAreSymmetric == 0 \notin Premiums => (KeeperSpec => PremiumsSymmetric)
<1> SUFFICES ASSUME 0 \notin Premiums PROVE KeeperSpec => PremiumsSymmetric
  OBVIOUS
<1>1. KeeperInit => FedBoth
  BY DEF KeeperInit, FedBoth, Resting
<1>2. PInv /\ FedBoth /\ [KeeperNext]_kvars => FedBoth'
  BY NextFedBoth
<1>3. PInv /\ FedBoth /\ [KeeperNext]_kvars => [SymmetricStep]_kvars
  BY StepSymmetric
<1>. QED BY <1>1, <1>2, <1>3, SpecPInv, PTL DEF KeeperSpec, PremiumsSymmetric
LEMMA SendEscrow ==
    ASSUME IInv, PassFits, SettleAndRedeem, IInv'
    PROVE  [MoneyView!EscrowNext]_(MoneyView!escrowVars)
<1>1. UNCHANGED <<stakeAmount, challenger>> /\ status = "active"
  BY Sendable DEF SettleAndRedeem, identVars
<1>2. CASE UNCHANGED <<status, moneyVars>>
  BY <1>2 DEF moneyVars, MoneyView!escrowVars
<1>3. ASSUME NEW w \in Side \cup {"tie"}, Closes("finalized", w) PROVE MoneyView!EscrowNext
  <2>1. status' = "complete"
    BY <1>3, CloseEmpties DEF Closes, IInv
  <2>2. challenger # NoAddress /\ stake = Money(stakeAmount, stakeAmount)
    BY <1>1 DEF IInv, Shape, EveryCoinAccounted
  <2>3. stake["p0"] = stakeAmount
    BY <2>2 DEF Money, Side
  <2>4. stake' = Money(0, 0)
        /\ paid' \in {Money(stakeAmount, stakeAmount), Money(2 * stakeAmount, 0),
                      Money(0, 2 * stakeAmount)}
    BY <1>1, <2>1, <2>2 DEF IInv, EveryCoinAccounted
  <2>5. \A x, y : MoneyView!Pair(x, y) = Money(x, y)
    BY DEF MoneyView!Pair, MoneyView!Party, Money, Side
  <2>. QED BY <1>1, <2>1, <2>2, <2>3, <2>4, <2>5 DEF MoneyView!EscrowNext, MoneyView!Resolve
<1>. QED BY <1>2, <1>3, SendEnds

\* The contract together with the keeper that drives it still implements the
\* two-party escrow: no transaction of the keeper moves money but to resolve.
THEOREM KeeperImplementsEscrow == KeeperSpec => ImplementsEscrow
<1>1. KeeperInit => MoneyView!EscrowInit
  BY DEF KeeperInit, Init, MoneyView!EscrowInit, MoneyView!Pair, MoneyView!Party, Side
<1>2. PInv /\ [KeeperNext]_kvars => PInv'
  BY NextPInv
<1>3. PInv /\ [KeeperNext]_kvars /\ PInv' => [MoneyView!EscrowNext]_(MoneyView!escrowVars)
  <2> SUFFICES ASSUME PInv, [KeeperNext]_kvars, PInv'
               PROVE  [MoneyView!EscrowNext]_(MoneyView!escrowVars)
    OBVIOUS
  <2>1. CASE UNCHANGED vars
    BY <2>1 DEF vars, moneyVars, identVars, MoneyView!escrowVars
  <2>2. IInv /\ IInv'
    BY DEF PInv
  <2>. QED BY <2>1, <2>2, ContractSteps, StepEscrow, SendEscrow
<1>. QED BY <1>1, <1>2, <1>3, InitPInv, PTL DEF KeeperSpec, ImplementsEscrow, MoneyView!EscrowSpec
=============================================================================
