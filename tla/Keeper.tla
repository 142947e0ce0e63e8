------------------------------- MODULE Keeper -------------------------------
(***************************************************************************)
(* The keeper of apps/server/src/keeper.ts driving one duel: the contract  *)
(* of Duel together with a service that polls it, reveals its deck and     *)
(* closes it.  tryClose reads a snapshot of the duel, then the market      *)
(* settlements, then the premiums, and sends ONE transaction; between      *)
(* these reads and the transaction anybody may act on the duel, which is   *)
(* why the transaction can fail.  inFlight admits one tryClose per duel,   *)
(* so one record `pass` is the whole of it.                                *)
(*                                                                         *)
(* The settlement price of each card's market is fixed once known.  Predict *)
(* (accounts, positions, premiums, markets) is external.  A position that  *)
(* `held` names sits in the account derived from its player, where the app *)
(* mints it and the keeper looks for it.                                   *)
(***************************************************************************)
EXTENDS Duel

CONSTANT MaxFaults  \* bound on lost calls, failed lookups, restarts and calls of others

ASSUME KeeperAssumption == MaxFaults \in Nat

VARIABLES
    market,     \* card -> settlement price the indexer reports, 0 before
    pass,       \* the tryClose in progress
    finalized,  \* the duel is in the keeper's `finalized` set
    revealed,   \* ... and in its `revealed` set
    faults,     \* faults so far
    others,     \* calls made by neither the players nor the keeper
    inWindow,   \* the duel is among the last 30 created
    wrapped,    \* sides whose player has a Predict account
    redeemAborts\* redeem_settled aborts on a position that is not there

keeperVars == <<market, pass, finalized, revealed, faults>>
worldVars  == <<inWindow, wrapped, redeemAborts>>
kvars == <<vars, keeperVars, others, worldVars>>

Resting == [at |-> "rest"]

KeeperInit ==
    /\ Init
    /\ market = [i \in CardIdx |-> 0]
    /\ pass = Resting
    /\ finalized = FALSE /\ revealed = FALSE
    /\ faults = 0 /\ others = 0
    /\ inWindow = TRUE /\ wrapped = {} /\ redeemAborts \in BOOLEAN

\* There may be one disturbance more.
Disturbed == faults + others < MaxFaults

-----------------------------------------------------------------------------
(* One pass of tryClose                                                    *)

\* SWEEP_QUERY: a sweep looks at the last 30 DuelCreated events and no further.
Swept == inWindow

\* fetchDuel.  A snapshot without cards goes to tryReveal and no further.
Fetch ==
    /\ pass = Resting
    /\ Swept
    /\ ~finalized
    /\ status \in {"active", "complete"}
    /\ finalized' = (status = "complete")
    /\ revealed' = (revealed \/ (status = "active" /\ cards # NoDeck))
    /\ pass' = IF status = "active" /\ cards = NoDeck /\ ~revealed THEN [at |-> "reveal"]
               ELSE IF status = "active" /\ cards # NoDeck /\ BothDone
                    THEN [at |-> "read", done |-> settled]
               ELSE Resting
    /\ UNCHANGED <<vars, market, faults, others, worldVars>>

\* isTerminalSettleError of an abort that was thrown: EDuelNotActive says that
\* the duel is closed.  The text of an abort inside Predict is Predict's own, and
\* may name decrease_position or carry a code 2, or not.
BelievesMutant(predict) == TRUE
Believes(predict) == status # "active" \/ predict

\* tryReveal past its await: reveal_deck lands; or there is no plaintext, or the
\* call fails and is logged, or its failure is thrown.  A failure that is reported
\* passes for EDeckAlreadyRevealed whenever a "16" is anywhere in its text.
Reveal ==
    /\ pass.at = "reveal"
    /\ pass' = Resting
    /\ \/ RevealDeck(deckHash) /\ revealed' = TRUE /\ UNCHANGED finalized
       \/ revealed' \in {revealed, TRUE} /\ UNCHANGED <<vars, finalized>>
       \/ Believes(FALSE) /\ finalized' = TRUE /\ UNCHANGED <<vars, revealed>>
    /\ UNCHANGED <<market, faults, others, worldVars>>

\* readyCardIndices: of the snapshot's open cards, those whose market settled.
ReadyMutant == {i \in 0..(deckSize - 1) : market[i] > 0}
ReadyButLastMutant == {i \in 0..(deckSize - 2) \ pass.done : market[i] > 0}
Ready == {i \in 0..(deckSize - 1) \ pass.done : market[i] > 0}

\* resolveCardPremiums: one failed read zeroes both sides.
ResolvePremiumsMutant(ok, real) == [s \in Side |-> IF s \in ok THEN real[s] ELSE 0]
ResolvePremiums(ok, real) == [s \in Side |-> IF ok = Side THEN real[s] ELSE 0]

PremiumReads == {ResolvePremiums(ok, real) : ok \in SUBSET Side, real \in [Side -> Premiums]}

\* readMarketSettlement fails closed: a failed read is a market not settled.
\* A player without an account stops the pass.
ReadMarkets ==
    /\ pass.at = "read"
    /\ \E seen \in SUBSET Ready :
          /\ IF seen = Ready THEN UNCHANGED faults ELSE Disturbed /\ faults' = faults + 1
          /\ IF seen = {} \/ wrapped # Side
             THEN pass' = Resting
             ELSE \E fed \in [seen -> PremiumReads] :
                    pass' = [at |-> "send", done |-> pass.done, ready |-> seen, fed |-> fed]
    /\ UNCHANGED <<vars, market, finalized, revealed, others, worldVars>>

WillFinalize == Cardinality(pass.done) + Cardinality(pass.ready) = deckSize

\* Settles come before redeems in the transaction: each is scored against the
\* positions held before it.
HoldsAtSettleMutant(s, i) == i \in held[s] \ pass.ready
HoldsAtSettle(s, i) == i \in held[s]

PayAfter  == [s \in Side |-> [i \in CardIdx |->
    IF i \in pass.ready THEN Score(s, i, market[i], HoldsAtSettle(s, i)) ELSE pay[s][i]]]
PremAfter == [s \in Side |-> [i \in CardIdx |->
    IF i \in pass.ready THEN PremiumOf(s, i, pass.fed[i][s]) ELSE prem[s][i]]]
CountAfter == settledCount + Cardinality(pass.ready)

\* No settle and no finalize of the transaction aborts.
CanSettleAll ==
    /\ tier = "staked"
    /\ \A i \in pass.ready : PreflightSettle(i, market[i])
    /\ NoOverflow(PayAfter) /\ NoOverflow(PremAfter)
    /\ WillFinalize => AllSettled(CountAfter)

\* A redeem that follows them does: its position was sold before.
RedeemFails == redeemAborts /\ \E i \in pass.ready, s \in Side : i \notin held[s]

CanSend == CanSettleAll /\ ~RedeemFails

\* The transaction: settle_card for each ready card, finalize if that was the
\* last one, redeem_settled for each recorded position; all or nothing.
SettleAndRedeem ==
    /\ CanSend
    /\ pay' = PayAfter /\ prem' = PremAfter
    /\ settled' = settled \cup pass.ready
    /\ settledCount' = CountAfter
    /\ price' = [i \in CardIdx |-> IF i \in pass.ready THEN market[i] ELSE price[i]]
    /\ IF WillFinalize
       THEN FinalizeInternal(CountAfter, PayAfter, PremAfter)
       ELSE UNCHANGED <<status, moneyVars>>
    /\ held' = [s \in Side |-> held[s] \ pass.ready]
    /\ UNCHANGED <<identVars, gameVars, elapsed>>

\* The transaction lands; waiting for it may still throw.
Remember == WillFinalize

Send ==
    /\ pass.at = "send"
    /\ SettleAndRedeem
    /\ pass' = Resting
    /\ \/ finalized' = Remember /\ UNCHANGED faults
       \/ Disturbed /\ faults' = faults + 1 /\ UNCHANGED finalized
    /\ UNCHANGED <<market, revealed, others, worldVars>>

\* The transaction aborts: the failure is returned and logged, or thrown.
SendAborts ==
    /\ pass.at = "send"
    /\ ~CanSend
    /\ pass' = Resting
    /\ finalized' \in {FALSE, Believes(CanSettleAll)}
    /\ UNCHANGED <<vars, market, revealed, faults, others, worldVars>>

\* An RPC error anywhere in a pass, or a restart, which empties both sets.
Drop ==
    /\ Disturbed
    /\ faults' = faults + 1
    /\ pass' = Resting
    /\ \/ pass # Resting /\ UNCHANGED <<finalized, revealed>>
       \/ finalized' = FALSE /\ revealed' = FALSE
    /\ UNCHANGED <<vars, market, others, worldVars>>

\* Predict publishes the settlement price of a card's market.
MarketSettles(i) ==
    /\ market[i] = 0
    /\ \E p \in Prices \ {0} : market' = [market EXCEPT ![i] = p]
    /\ UNCHANGED <<vars, pass, finalized, revealed, faults, others, worldVars>>

-----------------------------------------------------------------------------
\* The rest of the world: the two players, whose swipes mint only into an account
\* that exists, and everybody else, who may reveal, settle and finalize.
World ==
    /\ \/ /\ CreateSome \/ JoinSome \/ SwipeSome \/ RedeemSome \/ PlayerExit \/ Tick
          /\ \A s \in Side : held'[s] \subseteq held[s] \/ s \in wrapped
          /\ UNCHANGED others
       \/ /\ Disturbed /\ others' = others + 1
          /\ RevealSome \/ (\E i \in CardIdx : SettleSome(i)) \/ FinalizeSome
             \/ TestFinalizeSome
    /\ UNCHANGED <<keeperVars, worldVars>>

\* A player opens the Predict account that the app derives from the address.
OpenAccount(s) ==
    /\ s \notin wrapped
    /\ wrapped' = wrapped \cup {s}
    /\ UNCHANGED <<vars, keeperVars, others, inWindow, redeemAborts>>

\* Thirty newer duels are created: no sweep sees this one again.
PushedOut ==
    /\ inWindow /\ status # "absent"
    /\ Disturbed /\ others' = others + 1
    /\ inWindow' = FALSE
    /\ UNCHANGED <<vars, keeperVars, wrapped, redeemAborts>>

MarketSome == \E i \in CardIdx : MarketSettles(i)

KeeperNext ==
    \/ Fetch \/ Reveal \/ ReadMarkets \/ Send \/ SendAborts \/ Drop
    \/ MarketSome
    \/ World
    \/ \E s \in Side : OpenAccount(s)
    \/ PushedOut

KeeperSpec == KeeperInit /\ [][KeeperNext]_kvars

\* The poll loop comes back to every duel its sweep sees, the calls it makes are
\* answered, and markets settle; the players owe nothing.
KeeperFairness ==
    /\ WF_kvars(Fetch) /\ WF_kvars(Reveal) /\ WF_kvars(ReadMarkets)
    /\ WF_kvars(Send \/ SendAborts)
    /\ \A i \in CardIdx : WF_kvars(MarketSettles(i))

KeeperLiveSpec == KeeperSpec /\ KeeperFairness

-----------------------------------------------------------------------------
(* Properties                                                              *)

PassType ==
    {Resting, [at |-> "reveal"]}
    \cup [at : {"read"}, done : SUBSET CardIdx]
    \cup UNION {[at : {"send"}, done : SUBSET CardIdx, ready : {r},
                 fed : [r -> [Side -> Premiums \cup {0}]]] : r \in SUBSET CardIdx}

\* Every keeper variable has its type (the contract's are Duel's TypeOK), and a
\* transaction settles something and nothing its snapshot saw settled.
KeeperTypeOK ==
    /\ market \in [CardIdx -> Prices \cup {0}]
    /\ pass \in PassType
    /\ pass.at = "send" => pass.ready # {} /\ pass.ready \cap pass.done = {}
    /\ finalized \in BOOLEAN /\ revealed \in BOOLEAN
    /\ faults \in Nat /\ others \in Nat /\ faults + others <= MaxFaults
    /\ inWindow \in BOOLEAN /\ wrapped \subseteq Side /\ redeemAborts \in BOOLEAN

\* The keeper gives up a duel (the `finalized` set skips it for ever) only when
\* it is closed on chain, however old the snapshot behind the failed call is.  One
\* exception: a card's settle and finalize would have gone through, but a redeem
\* behind them aborts because the player sold the position early; the keeper may
\* then drop a duel that is still open ("Nothing more for the keeper to do").
SoldEarly == \E i \in pass.ready, s \in Side : i \notin held[s]

GivesUpStep ==
    finalized' /\ ~finalized =>
        \/ status' = "complete"
        \/ pass.at = "send" /\ redeemAborts /\ SoldEarly /\ CanSettleAll
ForgetsOnlyClosed == [][GivesUpStep]_kvars

\* The cards that this step's transaction of the keeper settles.
KeeperSettles == IF pass' = pass THEN {} ELSE settled' \ settled

\* "All settles MUST run before any redeem": a position that is live when its
\* card is settled by the keeper and called the market right is paid in full.
CreditStep ==
    \A i \in KeeperSettles, s \in Side :
        /\ price'[i] = market[i]
        /\ i \in held[s] /\ swipes[s][i].up = (market[i] > cards[i])
              => pay'[s][i] = swipes[s][i].quantity
LivePositionsCredited == [][CreditStep]_kvars

\* A premium that cannot be read never biases a card the keeper settles: both
\* sides count or none.
SymmetricStep == \A i \in KeeperSettles : prem'["p0"][i] = 0 <=> prem'["p1"][i] = 0
PremiumsSymmetric == [][SymmetricStep]_kvars

\* "for each duel that's not yet COMPLETE ... if both players finished all
\* swipes and every card's market has settled": a staked duel played to the end
\* by players who have accounts, with quantities that fit u64, is closed by the
\* keeper, however others interfere with its transactions, unless
\*  - 30 newer duels push it out of the sweep;
\*  - somebody else settles the last card and leaves it at that;
\*  - a position was sold early and Predict aborts on redeeming it: the keeper
\*    retries for ever, or gives up.
Blocked ==
    \/ ~inWindow
    \/ others > 0 /\ settledCount = deckSize
    \/ redeemAborts /\ (finalized \/ \E i \in Unsettled, s \in Side : i \notin held[s])

KeeperCloses ==
    (tier = "staked" /\ status = "active" /\ BothDone /\ wrapped = Side /\ Fits)
        ~> (status = "complete" \/ Blocked)
=============================================================================
