# Flicky: models, checks and proofs

The repository holds thirteen independent third-party projects under
`src/projects/`. This development is about one of them, **Flicky**
(`src/projects/flicky/`): a 1v1 prediction game on Sui. Two players stake a coin
each, swipe up or down on a deck of hidden cards (a market, a strike), and the
contract pays the pot to whoever predicted better. A TypeScript server finds
opponents, reveals decks, settles and closes duels, mirrors the chain and keeps
ratings. Flicky was chosen because it is the project with both a contract that
holds money and a concurrent service around it. The other twelve share no code
or state with it and are listed, unmodelled, in `PROJECT.json`.

Paths below are relative to `src/projects/flicky/apps/`.

## 1. The system

| component | code | state | operations | talks to |
|---|---|---|---|---|
| Duel contract | `contracts/sources/duel.move` | the shared `Duel<T>` object: status, players, two stake balances, cards, swipes, settlement, accumulators | create, join, reveal, swipe, settle a card, finalize, refund, claim of the reveal timeout | Predict (positions), the clock |
| Matchmaking | `server/src/ws/matchmaking.ts` (first half), `ws/handlers.ts`, `mmr.ts` (`findClosestOpponent`) | sockets and their addresses, a FIFO bucket per tier, pending pairs with 90 s timers, 15 s retry timers | hello, queue_join, queue_leave, close; deck ready or failed; timers; DuelCreated | deck generation, the indexer (`takeMatchedPair`) |
| Settlement keeper | `server/src/keeper.ts` | in memory: `finalized`, `revealed`, `inFlight` | poll; per duel: snapshot, reveal, read markets and premiums, one settle+finalize+redeem transaction | the duel contract, Predict |
| Indexer, mirror, ratings | `server/src/indexer.ts`, `mmr.ts`, `db.ts` | Postgres: a cursor per event type, duel rows, player ratings | poll: drain every tracker, refresh touched duels, apply outcomes; rebuild of the ratings | the chain, rooms, matchmaking |
| Duel rooms, match clock | `ws/matchmaking.ts` (second half), `ws/match-clock.ts`, `indexer.ts` (`refreshDuel`) | room subscriptions, grace timers of players who left, the mirror's row | hello, subscribe with a snapshot, unsubscribe, close, timer, broadcast, tick | indexer, database, clients |
| Chat | `ws/chat.ts`, `db.ts`; on the page `chat.tsx`, `use-flicky-socket.ts` | a table of messages, the registered sockets, what each page shows | send, history, prune, connect, drop | database, clients |
| Rate limiter | `ratelimit.ts` | a token bucket per key | consume, periodic sweep | handlers |
| Swap pool | `contracts/swap` | one pool object | create, deposit, withdraw, swap both ways | nobody |
| Season prizes | `contracts/season`, `server/src/scripts/season-distribute.ts`, `season.ts` | one pool object, receipt files | deposit, distribute, recover; a script run by hand | the chain, leaderboard and staked counts |
| Deck generation | `deckmaster.ts`, `mint-probe.ts` | deck store | choose markets and strikes, probe them | Predict, matchmaking, keeper |
| Sponsor, practice, oracle streams, HTTP APIs, database | `sponsor*.ts`, `ws/practice.ts`, `ws/oracle-stream.ts`, `index.ts`, `*-api.ts`, `db.ts` | tables | single requests | external services |

A match flows through them so: two `queue_join` messages pair two sockets
(Matchmaking); both are told `match_found` with a deck's hash; the creator sends
`create_duel`; the indexer sees DuelCreated and takes the pair, so the
challenger learns the duel's id and joins; the keeper reveals the deck; the
players swipe, minting a Predict position per swipe; as markets settle the
keeper settles cards and finalizes; the indexer mirrors the end and updates the
two ratings.

What is hard in it:

* the chain is a shared object everybody may call: reveal, settle and finalize
  are permissionless, and forfeits, refunds and finalization compete for one pot
  once deadlines pass;
* the server is one thread, but every `await` lets other handlers, timers and
  polls in; what was read before it may be stale after it;
* reads and writes fail, the process restarts and loses what is in memory, and
  the database's cursors run ahead of the work they stand for;
* nobody is obliged to act: a player may leave at any point.

The places where that bites are the `hazards` of `PROJECT.json`, each with its line.

## 2. What makes each component correct

* **Duel**: coins in = coins out, on every path; counters say what was really
  played and settled; each credited payout is proven by a swipe; the verdict
  follows from play; what was recorded is never rewritten; stakes are never
  locked for good.
* **Matchmaking**: the buckets and the sockets' own flags agree; a pairing and
  its timer live and die together; nobody waits for a peer for ever; a player
  stays queued until they leave (the last two do not hold, see section 4).
* **Keeper**: closes the played duels it sees; gives up only closed ones; settles
  before it redeems; never mixes a real premium with a substitute.
* **Indexer**: once it has caught up the mirror is the chain; rows never go
  back; each outcome counts once.
* **Rooms**: a player in the room is never declared lost; whoever is told that a
  player left is told how it ended; what a client shows never goes back, and
  in the end it is the end of the duel.
* **Chat**: no page doubles, misorders or loses a message, and every page gets to
  see every message recent enough for a history.
* **Rate limiter**: in any window at most a burst and the refill; the
  retry time it tells is true.
* **Swap**: no sequence of calls takes out more than its share, or strands coins.
* **Season**: one payout, whole or not at all, to eligible players in rank order,
  and receipts that tell the truth about it.

## 3. Modules

```
Escrow            what a duel promises about money
  ^ refined by
Duel   <---- Keeper (EXTENDS Duel)   Matchmaking        Indexer        RateLimit        Swap        Rooms        Chat        Season
  ^            ^                       ^                  ^              ^                ^           ^            ^           ^
KeeperProofs (both)                  MatchmakingProofs  IndexerProofs  RateLimitProofs  SwapProofs  RoomsProofs  ChatProofs  SeasonProofs
MCDuel       MCKeeper                MCMatchmaking      MCIndexer      MCRateLimit      MCSwap      MCRooms      MCChat      MCSeason
```

The `MC` modules add the values of constants that a `.cfg` cannot write, symmetry
sets, and for the keeper and the queue the behaviours that symmetry leaves to be explored. Operators named
`...Mutant` (and `EndCursorPastMutant` and the like) are plausible slips of the
code, each next to the operator it would replace; no definition uses them, and
each shows that one property notices the slip.

### Duel, Escrow

One `Duel` object. A Move call is atomic and an assertion that fails undoes it,
so each public function is one action whose guard is its assertions
(`CreateDuel`, `JoinDuel`, `RevealDeck`, `RecordSwipe`, `SettleCard`, `Finalize`,
`FinalizeTestOnePrice`, `RefundDuel`, `ClaimRevealTimeout` and the `_free`
variants). `finalize_internal` is `FinalizeInternal`, with its three branches:
forfeit, scored, stuck. `Draw` is `pay_player`'s withdrawal from two balances.
The accumulators are bounded by `MaxU64`, so that an overflow aborts here as in
the code. Abstracted: the clock is the time since the join and stops one tick
after the last deadline; a deck's hash is the deck it commits to; the cumulative
payouts and premiums are kept per card and summed where the code reads them.
A settle scores any wrapper that holds the order; `given` are the sides for which its caller passed
such a one (`HoldsIn`). `RedeemEarly` is external: a player may sell a position before it is settled.
Nobody is bound to act, and a stuck or partly played duel waits for a hand-signed refund; what is
claimed is that a way out is open (`NeverStranded`).

`Escrow` is the abstract specification: two equal stakes go in and come out once,
as they went in or all to one side.

### Matchmaking

What runs between two awaits is one action. A call in progress is a record in a
slot of `task`: `JoinQueue` (up to the first await), `RatingRead` (snapshot of
the bucket), `PickOpponent` or `PickNobody` (after the candidates' ratings are
read, with the unguarded `splice`), then `DeckReady` or `DeckFailed`; a rejected rating
read ends the call where it is (`RatingFails`). Any handler or timer may run between two of these
steps. `retries` are the 15 s timers of failed pairs, each its own, `timers` the 90 s teardowns.
`SpliceOut` is `q.splice(q.indexOf(w), 1)`, including what it does when `indexOf` is -1. `heard`
is the last message of a socket about its search. `Lookup` holds what a call in one of
the two rating lookups carries; its `Candidates` are who waited, each with its position in the
bucket, and the code's `find` by address takes the first of several sockets of one address.
`harmed` is a history: the sockets that one of the four races of joinQueue's awaits
has hit (a second entry during an own lookup; matched from a stale snapshot; spliced out in the place
of an opponent who had gone, `Displaced`; a rejected read). Ratings are abstracted to a free
choice among the candidates. Gates that only refuse a join (rate limit,
balance, market preflight) leave no state and are left out.

### Keeper

The contract of `Duel` and one service that polls it. `pass` is the `tryClose`
in progress: `Fetch` takes the snapshot of a duel the sweep sees, `Reveal` calls `reveal_deck`,
`ReadMarkets` picks the ready cards and resolves their premiums, `Send` runs the
one transaction (settle each ready card, finalize with the last batch, redeem),
`SendAborts` classifies the error by its text (`Believes`), `Drop` is an RPC
error or a restart. Between these steps `World` lets the players act on the duel
and, within the bound `MaxFaults` that faults and interferences share (`Disturbed`),
anybody else reveal, settle or finalize. `PushedOut` is the thirtieth newer duel, after which
no sweep returns to this one. A player without a Predict account (`wrapped`, `OpenAccount`) stops every
pass. Whether Predict aborts on redeeming a position that was sold is unknown and fixed by the
initial state (`redeemAborts`); so is what the text of such an abort says, which may
name `decrease_position` or carry a code 2.

### Indexer

`Tick` opens the first tracker; `Page` takes an event, `SaveCursor` its cursor;
`Fetch` and `Upsert` refresh a touched duel; `SetWinner`, `RateFirst` and
`RateSecond` apply an outcome; `Take` queues it with the players of its row, or with none if the row
is missing or its read fails; `Restart` loses memory and seeds trackers without a
cursor; `RecomputeRatings` is the rebuild script. What may fail is chosen by
`Faults`. A page holds one event, and four trackers stand for the eight: the
swipe, reveal and settle trackers only touch their duel, as `joined` does here,
and `refunded` ends a duel with no result. The price and premium mirrors and the
rating arithmetic are left out.

### RateLimit

`consume` is `Admit` or `Refuse`, over the bucket's `Level` after the refill, and
`Sweep` is the timer with its `Drops`. Tokens are measured in the time they take to
refill, so the code's fractions are exact. `Colon` holds the keys whose route has
a colon of its own, for which the sweep finds no limit. `admitted` is a
history of the calls let through, and `promise` what the last refusal told.

### Swap

One pool; `LpToMint`, `Proportion`, `Bought` and `sqrt` are the code's formulas
with its roundings, and a call that would leave 64 or 128 bits is no step. Who
holds shares is left out: the code burns whatever coin it is handed.

### Rooms

The room of one duel. A handler runs up to its query of the database; queries wait
in `queries`, are executed (`Executes`) and then answered (`SnapshotReply`,
`ClockReply`, `MirrorReply`), so that what is sent may be older than what was
broadcast meanwhile. A query that overtakes another, a failed read or write and a
restart are mishaps, bounded by `MaxMishaps`. A snapshot whose read fails is not sent
(`SnapshotFails`); the clock ticks all the same (`ClockReadFails`). `RefreshDuel` and `Broadcasts` are the
indexer's side, `OnSocketClose` and `PeerForfeit` the grace of a player who left.
`view` and `left` are what a socket's client shows.

### Chat

A message is its rank among those stored, the table a range of ranks. `ChatSend`
and `Hello` ask the database, `Executes` carries the call out and `InsertReply` and
`HistoryReply` send what came of it; `Upsert` is what the page does with a
broadcast, and a history replaces what the page shows. `Prune` moves the oldest
message kept, `Restart` drops the sockets and calls of the process, `Fails` loses a call before
or after it was executed. Texts and emoji reactions, which keep no state, are left out.

### Season

The contract's `deposit`, `distribute` and `withdraw_remainder` and any number of
runs of `season-distribute`: `ReadBoard` and `Plan` read the leaderboard and the
staked counts one after the other (a plan is what it pays each player, since no address is
on the board twice), `Submit` sends the plan, `Answered` or `Stops`
end the wait while the transaction may still be on its way, `WriteReceipt` is the
file. Amounts are whole in MIST, so that the rounding of `prize * 1e9` changes none; a split with finer
amounts could pay up to half a MIST a prize more than the headline. `Rated` and `DuelCounted` move ratings and counts under the runs.

## 4. Runs

| run | what it explores | distinct states, time | properties |
|---|---|---|---|
| `duel_safety` | 3 accounts, up to 2 cards, staked and free, wrong deck sizes, prices and quantities 0, any wrapper, accumulators that overflow | 358,389, 66 s | EveryCoinAccounted, SettledCountExact, PayoutsAreProven, OutcomeFollowsPlay, NeverStranded, ImplementsEscrow |
| `match` | 3 sockets, 2 addresses, 2 tiers, 2 calls at a time that interleave anywhere, 3 joins, a failed deck, a failed rating read, with the teardown timers' fairness | 847,040, 137 s | TypeOK, HandshakeOwnsPair, QueueSound, PairCleared |
| `keeper` | 2 cards, one fault, restart or interference, or 30 newer duels; players who sell early, have no account or swipe more than fits; with fairness | 530,610, 166 s | KeeperTypeOK, ForgetsOnlyClosed, PremiumsSymmetric, LivePositionsCredited, KeeperCloses |
| `indexer` | 2 duels, one page per tick, one fault of any kind, with fairness | 1.28 million, 116 s | TypeOK, MirrorCaughtUp, RatedAtMostOnce, MirrorNeverGoesBack, FinishedIsMirrored, KnownOutcomeRated |
| `rate` | a key the sweep knows and one it forgets, two sweeps | 581,000, 22 s | WindowBound, RetryHonest |
| `swap` | coins and shares up to 24, products up to 2000, four fees | 18,305, 6 s | NothingStranded, ShareValueKept, RoundTripNeverProfits, FirstDepositFair |
| `rooms` | a player's 2 sockets, a duel of 2 versions, 2 reads in flight, one mishap, with fairness | 435,724, 70 s | ForfeitMeansAway, GoneIsWatched, ViewNeverGoesBack, NoTickAfterComplete, RoomCatchesUp |
| `chat` | 2 pages, 3 messages, a history and a table of 2, 2 calls in flight, one mishap, with fairness | 73,839, 20 s | Chronological, NothingVanishes, ReachesAll |
| `match_queue`, `match_watched`, `rate_swept` | the disagreements below | | StaysQueued, MatchedIsWatched, SweptIsIdle |
| `season` | 3 players, 2 runs of the script, a pool of at most 4, one change of the standings | 1.48 million, 70 s | TypeOK, OnePlanPaid, ReceiptsTrue, PrizesFollowRank |

Properties that are proved for all constants and that others in a run lean on (the
types of Duel, RateLimit, Swap, Rooms and Chat, SwipesFillPrefix, HistoryKept, NeverDoubled,
BacklogServed) are not listed again in a run.

The safety runs use symmetry over accounts and players where there is any.
Deadlock is checked for `chat` and `season`; elsewhere a finished duel, a caught-up
indexer, an idle queue or room, or the end of the bounded time are states in which
the system may stop.

**Why the bounds are enough.** Two cards are the least with which cards settle in
different batches and in either order; `DeckSizes` goes to 3 and 0 to try the
refused ones. Three accounts are two players and a stranger. A deadline of one
tick has a state before, at and after it. Three sockets are the least with which
a pair and a bystander share a bucket, and with two addresses two of them belong
to one player. Two duels are the least for which one page can push another out of a
tick. In `rate` the sweep comes twice, so that a bucket is dropped, filled and
dropped again between calls of one window. In `swap` 24 is small enough to be
reached by deposits, so that the 64 bit limit refuses some, and large enough for
every rounding to leave a remainder. Two sockets of one player are the least whose
closes and subscriptions can cross; two reads in flight the least that can
overtake. A third message is the least that a history or a table of two leaves
out. Three players are the least with an ineligible one between a first and a
second prize. Where a run allows one fault or mishap, each property
names the kinds it does not bear and holds for all others, and the list of deviations below says what
these do; a second fault adds
nothing new to most, since each kind is remembered, but is not explored. The bounds `MaxJoins`,
`MaxDeckFailures`, `MaxReadFailures`, `MaxFaults`, `MaxU64`, `MaxPages`, `MaxTime`, `MaxSockets`, `MaxReads`,
`MaxMishaps`, `MaxMessages`, `MaxCalls`, `MaxRating`, `MaxFunds` and `MaxChanges` are
constants. In `keeper` and `match` symmetry would hide what liveness needs, so `MCKeeper` and
`MCMatchmaking` explore one representative: accounts are interchangeable, and one of them creates the
duel; the sides of a duel are treated alike, so the creator is the one whose quantities may not fit, and the
challenger the one who sells early or opens an account late (and then only before the join or after the last
swipe, which is where it makes a difference); of interchangeable sockets one belongs to one
address and the others to the other, one of them may rebind, and the first
join is for one given tier. All sockets say hello before the first join there: until it does a socket's joins
are refused.

**Fairness.** None for `Duel`: no player and no account has to call anything. `Matchmaking`: a timer that
is not cleared fires; no read has to answer, and nobody has to join, leave or create
a duel. `Keeper`: the poll loop (`setTimeout` after each pass, with every error caught) comes back to a
duel that its sweep sees, its calls are answered, well or not, and markets settle. `Indexer`: the poll
loop never stops and each await ends.
`Rooms`: the indexer's poll as before, and the database executes and answers the oldest
query. `Chat`: the same of the oldest call. Nothing is assumed of clients. `RateLimit`,
`Swap` and `Season` claim safety only.

### Where code and comments disagree

| run | what happens | what is said |
|---|---|---|
| `match_watched` | the creator closes while ratings are read; the challenger hears `match_found` and no teardown is armed | the timeout is there because "the challenger waited forever" (`ws/matchmaking.ts:387-392`) |
| `match_queue` | a waiting player leaves while a joiner reads its rating, another joins the bucket; `splice(-1, 1)` (`ws/matchmaking.ts:282`) takes that other one out, who still counts as queued | "the player stays queued until they `queue_leave` or disconnect" (`ws/matchmaking.ts:11-12`) |
| `rate_swept` | the sweep drops a bucket that was emptied a moment ago, since it looks for the limit of `ws:chat_send` under `ws`; every sweep gives each such key a fresh burst | the sweep drops "fully-refilled buckets (no longer constraining anything)" (`ratelimit.ts:15-16`) |

More deviations, met while modelling, that no run of its own shows. Each is an exception that
a property above names:

* **Queue, the other races of the lookup.** Two overlapping `queue_join` of one socket push it
  twice, and its close removes one entry; an opponent who was picked from a stale snapshot may leave,
  rejoin or be picked twice; a rejected rating read (`ws/matchmaking.ts:265`, `:274`) leaves the socket
  marked as queued and in no bucket. QueueSound shows that nobody else is touched.
* **Keeper, last card settled by somebody else.** `tryClose` returns when no card is
  newly ready (`keeper.ts:505`), before it looks whether all are settled, so no later pass
  finalizes the duel, although the header (`:6-14`) has it close each duel that is not
  yet complete. KeeperCloses carries that exception.
* **Keeper, thirty newer duels.** A sweep sees the last 30 DuelCreated events (`keeper.ts:41`); an older duel
  that is still open is never looked at again.
* **Keeper, error texts.** An abort of a redeem command whose text names `decrease_position`
  (`keeper.ts:123`) or carries a code 2 makes the keeper give up a duel whose cards it could have settled.
  The comment at `:105-108` calls that error terminal. ForgetsOnlyClosed allows exactly this case.
* **Keeper, account missing.** A player without a Predict account stops every pass over the duel
  (`keeper.ts:520`).
* **Duel, amounts beyond u64.** If the quantities of the right swipes do not fit, `settle_card` aborts
  for ever, and a duel that both played out cannot be refunded. NeverStranded assumes they fit.
* **Indexer, unrated games.** A duel created, joined and finalized within one tick has
  no row when its finalization is read (`indexer.ts:575`) and is never rated; the comment
  at `:570-571` takes the row to be written by DuelCreated. The same happens when the read of the row fails
  (`:576`), although the row is there.
* **Indexer, crash.** The cursor is saved before the row is refreshed, so a restart leaves
  the row behind until the duel moves again; a tracker that had no cursor is seeded with
  the latest event at every restart.
* **Indexer, a cursor that cannot be saved.** The page's finalizations are kept and read
  again by the next tick: both players are rated twice.
* **Indexer, rebuild.** It counts rows that are ahead of the cursor, whose finalization is
  then counted again, and rows of refunded duels.
* **Indexer, failed rating write.** One of the two players keeps the game, the other
  never gets it.
* **Rate limiter, sponsor keys.** Tokens are refilled only by a call, which takes one, so a
  bucket whose limit is found is never full when the sweep looks, and is never dropped.
* **Rooms, overtaken query.** A snapshot read before the final write and sent after the
  final broadcast is never corrected (comment at `ws/matchmaking.ts:528-530`); a failed write lets
  the broadcast out all the same, and later snapshots are older than what was shown.
* **Rooms, subscribing before hello.** The grace of the player's address stays armed and
  the room is told of a loss, against the comment at `ws/matchmaking.ts:639-640`.
* **Clock, failed read.** It calls any duel PENDING, also one its room was shown as COMPLETE
  (`ws/match-clock.ts:48-60`). The web client takes only the server's time from a tick.
* **Chat, order.** The page speaks of a stable sort (`chat.tsx:42-45`) but sorts nothing;
  an overtaken insert is shown out of order, and an overtaken history takes a message off the page.
* **Chat, reach.** `docs/prd.md:115` has "All connected sockets receive every message", but
  only those that said hello do; an insert stored with its answer lost is told to its
  sender as not stored. A reaction goes to both players, `docs/prd.md:116` says to the other only.
* **Season.** A payout that executed after its run stopped never gets a receipt: a later
  run aborts on the lock. Prizes follow the board as it was read, not as it is when paid.

## 5. Proofs

TLC shows the properties on the instances above; the theorems hold for all
values of the constants that meet the named assumptions (`DuelAssumption`,
`KeeperAssumption`, `MatchmakingAssumption`, `IndexerAssumption`,
`RateLimitAssumption`, `SwapAssumption`, `RoomsAssumption`, `ChatAssumption`,
`SeasonAssumption`), which say that numbers are numbers, that sentinels are none of the values
they stand beside, for the pool that 128 bits hold a product of two 64 bit numbers, and
for the season that players are finitely many and no tier of the split ends before it starts
(`env.ts` checks only that the three numbers are finite).

Every safety property of a passing run is stated by a theorem. `KeeperProofs` holds the proofs
about Duel and, since the keeper drives that contract, those about both.

* **Duel** (DuelTypes, DuelCoins, DuelSwipes, DuelCounts, DuelPayouts, DuelOutcome): the
  invariants of `duel_safety` but NeverStranded, the type and the prefix of swipes. None but the type is inductive
  alone. `IInv` is their conjunction with `Shape` (nothing is played before the
  join, a free duel escrows nothing, an active duel has a challenger). The count
  is needed for the verdict (finalize trusts `settled_count`), the prefix of
  swipes for the forfeit, the money for the payouts. Each step is reduced to
  which call it is (`StepCases`) and what that call leaves alone (`Frames`).
* **DuelHistoryKept**: no call rewrites a revealed card, a swipe, a settlement or a
  verdict; from `IInv`.
* **DuelImplementsEscrow**: under the mapping of `MoneyView` every step is a step of
  `Escrow` or a stutter; from `IInv`, which gives that both stakes are equal.
* **DuelNeverStranded**: past the deadlines a refund is due, or the score is, or every open card can be
  settled at any price. From `IInv` and sums: what is booked for a side is at most the
  quantities it swiped, so that under `Fits` no accumulator overflows.
* **MatchHandshake**: HandshakeOwnsPair, over the types of what calls in progress carry from one
  await to the next (`CarryOK`); the contents of the buckets do not matter to it.
* **MatchTypes, MatchQueueSound**: the types (`BaseOK`) are inductive by themselves. QueueSound has no
  hypothesis: anything runs between the awaits. It speaks of the sockets that are not `harmed`, and so does
  its strengthening `Fine`, of one socket at a time: it waits in its bucket once, or is in one lookup of its
  own, never in both. Each step leaves such a socket alone, enters it in its bucket, takes it
  out of the search or harms it. That the two of a match or a retry
  differ (`TwoSockets`) is needed for a retry to take out both. The lemmas about `splice` and the
  first index of a socket stand at the head of that part.
* **KeeperForgetsOnlyClosed**: the keeper gives up closed duels only, but for the one case in which a card's
  settle and the finalize would have gone through and Predict aborts on redeeming a position of the
  batch that was sold. A started duel stays started, a closed one closed and a revealed deck revealed
  (`MonotoneStep`, for every call of the contract), and a pass beyond its first read
  belongs to a started duel, so "not active" can only mean closed.
* **KeeperTypes, KeeperKeepsContract, KeeperKeepsHistory, KeeperImplementsEscrow**: what the
  contract promises it promises with the keeper at work. `PInv` is Duel's `IInv`, which
  the keeper's many-card transaction keeps because it is a sequence of the contract's own calls
  (`SendIInv`), with `PassPlayed` (a pass that saw the duel played out is right for good, as
  swipes are never taken back) and `HeldSwiped` (a held position belongs to a swipe).
* **PositionsCredited, PremiumsAreSymmetric**: the two step properties of the keeper, from
  `PInv`. A pass reads both premiums of a card as real or substitutes both; `FedBoth` says
  so of what it carries to its transaction. The second has the hypothesis `0 \notin Premiums`:
  for a position that was minted for nothing a real premium looks like a missing one.
* **MirrorMonotone**: no mirror row goes back. A row is written from an older read, so the
  step property needs that what was read lies between the row and the chain
  (`SeenBetween`) and that no row is ahead of the chain (`RowBehindChain`).
* **TypeSafe, MirrorCatchesUp, RatedOnce, KnownOutcomesRated**: layers on that invariant.
  `TInv` relates the phase of a tick to its position and queues; `DInv` says that a duel
  is decided by one event; `MInv` that every row behind the chain has somebody who will write it
  (an event past the cursor, the touched set, or the refresh in progress), which with an
  empty queue is MirrorCaughtUp; `RInv` that an outcome is ahead of the cursor, queued, or
  rated, and in one place only unless a write failed. KnownOutcomesRated covers both ends of the queue: what is
  taken while the row names both players is queued with them (`TakenKnown`), and leaves rated (`LeavesRated`).
* **RateLimitTypes, RateLimitWindows, RateLimitRetries**: WindowBound speaks about pairs of
  past calls, so the invariant adds `Potential`: for every past call, the calls since and
  what the bucket still holds are together within the allowance up to now. `Promised` says of the
  time told with a refusal that the bucket will hold a token then.
* **SwapTypes, SwapNothingStranded, SwapShareValue, SwapRoundTripNeverProfits**: from
  `NothingStranded` (no division by zero) and facts about rounded quotients and products,
  which are nonlinear and are proved by hand as lemmas.
* **SwapFirstDepositFair**: `SqrtRoot`, what the loop of `sqrt` returns for every natural. The
  loop is a recursive function; that its equation has a solution is proved (`DescendExists`), and
  then that a point reached from above ends at the root (`Descending`, `AverageAbove`).
* **RoomsTypes, RoomsForfeit, RoomsGone, RoomsViewOrder, RoomsTick**: `InOrder` is the invariant
  behind the last two: as long as nothing was overtaken and no write failed, the answers
  in flight are executed from the front, never decrease from the front to the back, and lie
  between what any client shows and the row. RoomsTick is then about ticks whose lookup was answered.
* **ChatTypes, ChatNeverDoubled, ChatChronological, ChatBacklogServed, ChatNothingVanishes**:
  `AnswersOK` bounds what a call in flight has read, `Retained` relates the prune to it, and
  `InOrder` says that without an overtaken call the answers in flight are executed from the
  front and each is no older than what it may add to a page.
  Lemmas about library operators on sequences are proved beside them.
* **SeasonTypes, SeasonOnePlanPaid, SeasonReceipts, SeasonPrizesFollowRank**: `IInv` says that
  a run's plan is what its board and counts give from the moment it may be sent (`RunOK`), and that
  the wallets are empty while the lock is open and then hold the plan of the run that
  closed it (`Wallets`). The counts a run read are at most those of now, so nobody unqualified
  is paid. That the headline total covers a plan (`HeadlineCovers`) counts the players of each
  tier: their ranks differ (`RankGrows`) and a tier is as wide as its ranks. The last theorem
  has the hypothesis `PrizesDescend`, that no lower rank is promised more, which the default
  split of `env.ts` and that of the run meet.

Where a proof needs an induction (the loop of `sqrt`, sums over finite sets, the first index in a
bucket) it takes the least counterexample: the library's `WFMin`, which has no operator as a
parameter, gives the least member of a set of naturals (`NatMin`) and a smallest member
of a family of finite sets (`SmallestSubset`).

Only model-checked: liveness (`PairCleared`, `KeeperCloses`,
`FinishedIsMirrored`, `RoomCatchesUp`, `ReachesAll`), since fairness and ENABLED are beyond
the prover. No module declares a RECURSIVE operator.

## 6. Not modelled

Oracle streams only show prices; deck selection, the sponsor, practice, HTTP and the
database layer keep little state of their own, or are pure calls of external
services; where the modelled parts depend on them, their answers and failures
are inputs. The web client is represented by what it may send and, for the chat,
by what its page shows. Predict is external: `RedeemEarly`, the markets' settlement, the players' accounts,
and whether a redeem of a missing position aborts and with which text, all left
open. Rating arithmetic is floating point; the price
and premium mirrors of the indexer feed displays. Restarts of the server are
in Keeper, Indexer, Rooms and Chat; Matchmaking models one life of the process (its
pairings are in memory and are gone after a restart). The other projects of the
repository are independent programs of their own.

## 7. Plan

Done: Duel with Escrow, Matchmaking, Keeper over Duel, Indexer, RateLimit, Swap, Rooms with
the match clock, Chat, Season, their runs and the theorems above. Left, in this order:

1. More proofs: what the recorded deviations break exactly, as QueueSound and ForgetsOnlyClosed do, for
   the overtaken queries of Rooms and Chat.
2. Deck selection of `deckmaster.ts` as pure operators.
3. Composition: Indexer feeding `takeMatchedPair` of Matchmaking, so that a
   challenger is told its duel through a cursor that lags.
4. Oracle streams, on the pattern of Rooms.

## 8. Running

`tlc -config MCDuel_safety.cfg MCDuel`, and likewise for the other pairs of
`PROJECT.json`; `tlapm KeeperProofs.tla` and likewise for the other `*Proofs` modules. The longest run
takes about three minutes, the longest proof a few minutes.
