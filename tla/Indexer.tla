------------------------------ MODULE Indexer ------------------------------
(***************************************************************************)
(* The event indexer of apps/server/src/indexer.ts: per-tracker cursors,   *)
(* the duel mirror and the rating updates of mmr.ts.                       *)
(*                                                                         *)
(* One tick drains every tracker page by page, refreshes each touched duel *)
(* from chain, then applies the outcomes of the finalizations it saw.  The *)
(* steps of a tick are separated by awaits: the chain moves on, a query or *)
(* a write may fail, and the process may die.  What is in memory (touched, *)
(* fin, the position) dies with it; cursors, mirror and ratings do not.    *)
(*                                                                         *)
(* A page holds one event.  Four trackers stand for the eight: joined      *)
(* stands for every tracker of a duel under way, refunded for those that   *)
(* end it with no result.                                                  *)
(***************************************************************************)
EXTENDS Naturals, Sequences, FiniteSets

CONSTANTS
    Duel,
    Winner,         \* the results tried, of p0, p1 and tie
    MaxPages,       \* pages per tracker and tick: 10 in the code
    History,        \* were there events of every kind before the first boot?
    Faults,         \* kinds of faults, and of operator's runs, that may occur
    MaxFaults       \* ... each once, and how many in all

FaultKinds == {"query", "mirror", "save", "refresh", "winner", "rating", "crash", "backfill"}

ASSUME IndexerAssumption ==
    /\ Winner \subseteq {"p0", "p1", "tie"}
    /\ MaxPages \in Nat \ {0} /\ History \in BOOLEAN
    /\ Faults \subseteq FaultKinds /\ MaxFaults \in Nat

VARIABLES
    chain, log,             \* external: the duels and their events by tracker
    cursor,                 \* event_cursor: events of a tracker already taken
    row, rowWinner,         \* duel mirror: status and winner
    rated,                  \* outcomes counted for the player of each side
    at, pos, pages,         \* the tick: phase, position in the tracker, pages
    touched, fin,           \* its results
    faults                  \* kinds of the faults so far

chainVars == <<chain, log>>
dbVars    == <<cursor, row, rowWinner, rated>>
vars == <<chainVars, dbVars, at, pos, pages, touched, fin, faults>>

Trackers == <<"created", "joined", "finalized", "refunded">>
Tracker  == {"created", "joined", "finalized", "refunded"}
Side     == {"p0", "p1"}

Idle     == [do |-> "idle"]
Refreshing == [do |-> "refresh"]
Drain(n) == [do |-> "drain", n |-> n]

Init ==
    /\ chain = [d \in Duel |-> [status |-> "absent", winner |-> "none"]]
    /\ log = [t \in Tracker |-> <<>>]
    /\ cursor = [t \in Tracker |-> 0]
    /\ row = [d \in Duel |-> "absent"]
    /\ rowWinner = [d \in Duel |-> "none"]
    /\ rated = [d \in Duel |-> [s \in Side |-> 0]]
    /\ at = Idle /\ pos = 0 /\ pages = 0
    /\ touched = {} /\ fin = <<>>
    /\ faults = {}

Fault(kind) ==
    /\ kind \in Faults \ faults
    /\ Cardinality(faults) < MaxFaults
    /\ faults' = faults \cup {kind}

-----------------------------------------------------------------------------
(* The chain                                                               *)

Emit(d, from, to, winner, t) ==
    /\ chain[d].status \in from
    /\ chain' = [chain EXCEPT ![d] = [status |-> to, winner |-> winner]]
    /\ log' = [log EXCEPT ![t] = Append(@, d)]
    /\ UNCHANGED <<dbVars, at, pos, pages, touched, fin, faults>>

DuelCreated(d)      == Emit(d, {"absent"}, "pending", "none", "created")
DuelJoined(d)       == Emit(d, {"pending"}, "active", "none", "joined")
DuelFinalized(d, w) == Emit(d, {"active"}, "complete", w, "finalized")
DuelRefunded(d)     == Emit(d, {"pending", "active"}, "complete", "none", "refunded")

-----------------------------------------------------------------------------
(* tick: draining the trackers                                             *)

\* drainTracker starts at the stored cursor.
OpenTracker(n) ==
    /\ at' = Drain(n)
    /\ pos' = cursor[Trackers[n]]
    /\ pages' = 0

NextTracker(n) ==
    IF n < Len(Trackers) THEN OpenTracker(n + 1)
    ELSE at' = Refreshing /\ UNCHANGED <<pos, pages>>

Tick ==
    /\ at = Idle
    /\ OpenTracker(1)
    /\ touched' = {} /\ fin' = <<>>
    /\ UNCHANGED <<chainVars, dbVars, faults>>

TouchMutant(d) == {d}
Touch(d) == touched \cup {d}

\* Only DuelFinalized carries a result.
Decides(t) == t = "finalized"

\* A finalization takes its players from the mirror row as it is now; getDuel's
\* failure is caught and leaves them unknown, as a missing row does.
Take(d, players) == fin' = Append(fin, [duel |-> d, players |-> players])

\* Whether there is a next page is what the query said.
Page ==
    /\ at.do = "drain"
    /\ LET t == Trackers[at.n] IN
          /\ pos < Len(log[t])
          /\ LET d == log[t][pos + 1] IN
                /\ touched' = Touch(d)
                /\ \/ ~Decides(t) /\ UNCHANGED <<fin, faults>>
                   \/ Decides(t) /\ Take(d, row[d]) /\ UNCHANGED faults
                   \/ Decides(t) /\ Take(d, "absent") /\ Fault("mirror")
          /\ at' = [do |-> "save", n |-> at.n, more |-> pos + 1 < Len(log[t])]
    /\ UNCHANGED <<chainVars, dbVars, pos, pages>>

NothingNew ==
    /\ at.do = "drain"
    /\ pos = Len(log[Trackers[at.n]])
    /\ NextTracker(at.n)
    /\ UNCHANGED <<chainVars, dbVars, touched, fin, faults>>

QueryFails ==
    /\ at.do = "drain"
    /\ Fault("query")
    /\ NextTracker(at.n)
    /\ UNCHANGED <<chainVars, dbVars, touched, fin>>

\* The cursor saved after a page points behind its last event.
EndCursorMutant == pos
EndCursorPastMutant == pos + 2
EndCursor == pos + 1

SaveCursor ==
    /\ at.do = "save"
    /\ cursor' = [cursor EXCEPT ![Trackers[at.n]] = EndCursor]
    /\ IF at.more /\ pages + 1 < MaxPages
       THEN at' = Drain(at.n) /\ pos' = EndCursor /\ pages' = pages + 1
       ELSE NextTracker(at.n)
    /\ UNCHANGED <<chainVars, row, rowWinner, rated, touched, fin, faults>>

\* The page's results stay in touched and fin.
SaveFails ==
    /\ at.do = "save"
    /\ Fault("save")
    /\ NextTracker(at.n)
    /\ UNCHANGED <<chainVars, dbVars, touched, fin>>

-----------------------------------------------------------------------------
(* refreshDuel: read the chain, then write the row                         *)

Fetch(d) ==
    /\ at = Refreshing /\ d \in touched
    /\ touched' = touched \ {d}
    /\ at' = [do |-> "upsert", duel |-> d, saw |-> chain[d].status]
    /\ UNCHANGED <<chainVars, dbVars, pos, pages, fin, faults>>

\* No object: return, and the row stays.
NoObjectMutant(d) == row' = [row EXCEPT ![d] = "absent"]
NoObject(d) == UNCHANGED row

FetchFails(d) ==
    /\ at = Refreshing /\ d \in touched
    /\ Fault("refresh")
    /\ touched' = touched \ {d}
    /\ NoObject(d)
    /\ UNCHANGED <<chainVars, cursor, rowWinner, rated, at, pos, pages, fin>>

Upsert ==
    /\ at.do = "upsert"
    /\ \/ row' = [row EXCEPT ![at.duel] = at.saw] /\ UNCHANGED faults
       \/ Fault("refresh") /\ UNCHANGED row
    /\ at' = Refreshing
    /\ UNCHANGED <<chainVars, cursor, rowWinner, rated, pos, pages, touched, fin>>

-----------------------------------------------------------------------------
(* Outcomes: setDuelWinner, then applyDuelOutcome's two upserts            *)

Refreshed == touched = {}

\* Mutant: an outcome whose row already shows the finished duel is skipped.
SkipOutcomeMutant == Head(fin).players = "absent" \/ row[Head(fin).duel] = "complete"
SkipOutcome == Head(fin).players = "absent"

SkipRating ==
    /\ at = Refreshing /\ Refreshed /\ fin # <<>>
    /\ SkipOutcome
    /\ fin' = Tail(fin)
    /\ UNCHANGED <<chainVars, dbVars, at, pos, pages, touched, faults>>

\* setDuelWinner logs its failure and returns.
SetWinner ==
    /\ at = Refreshing /\ Refreshed /\ fin # <<>>
    /\ ~SkipOutcome
    /\ LET d == Head(fin).duel IN
          \/ rowWinner' = [rowWinner EXCEPT ![d] = IF row[d] = "absent" THEN @ ELSE chain[d].winner]
             /\ UNCHANGED faults
          \/ Fault("winner") /\ UNCHANGED rowWinner
    /\ at' = [do |-> "rate"]
    /\ UNCHANGED <<chainVars, cursor, row, rated, pos, pages, touched, fin>>

RateFirst ==
    /\ at = [do |-> "rate"]
    /\ \/ rated' = [rated EXCEPT ![Head(fin).duel]["p0"] = @ + 1]
          /\ at' = [do |-> "rate2"]
          /\ UNCHANGED <<fin, faults>>
       \/ Fault("rating") /\ at' = Refreshing /\ fin' = Tail(fin) /\ UNCHANGED rated
    /\ UNCHANGED <<chainVars, cursor, row, rowWinner, pos, pages, touched>>

\* A row mirrored before the join names the zero address as challenger.
RateSecond ==
    /\ at = [do |-> "rate2"]
    /\ \/ /\ rated' = IF Head(fin).players = "pending" THEN rated
                      ELSE [rated EXCEPT ![Head(fin).duel]["p1"] = @ + 1]
          /\ UNCHANGED faults
       \/ Fault("rating") /\ UNCHANGED rated
    /\ fin' = Tail(fin)
    /\ at' = Refreshing
    /\ UNCHANGED <<chainVars, cursor, row, rowWinner, pos, pages, touched>>

TickDone ==
    /\ at = Refreshing /\ touched = {} /\ fin = <<>>
    /\ at' = Idle
    /\ UNCHANGED <<chainVars, dbVars, pos, pages, touched, fin, faults>>

-----------------------------------------------------------------------------
(* Restarts, and the script that rebuilds the ratings                      *)

\* start() seeds each tracker that has no cursor with the latest event; a seed
\* that fails is only logged.
Restart ==
    /\ Fault("crash")
    /\ \E seeded \in SUBSET {t \in Tracker : ~History /\ cursor[t] = 0} :
          cursor' = [t \in Tracker |-> IF t \in seeded THEN Len(log[t]) ELSE cursor[t]]
    /\ at' = Idle
    /\ touched' = {} /\ fin' = <<>>
    /\ UNCHANGED <<chainVars, row, rowWinner, rated, pos, pages>>

\* recomputeRatingsFromMirror, run with the indexer stopped: every COMPLETE row
\* counts once, for both players it names.
RecomputeRatings ==
    /\ at = Idle
    /\ Fault("backfill")
    /\ rated' = [d \in Duel |-> [s \in Side |-> IF row[d] = "complete" THEN 1 ELSE 0]]
    /\ UNCHANGED <<chainVars, cursor, row, rowWinner, at, pos, pages, touched, fin>>

-----------------------------------------------------------------------------
ChainMoves == \E d \in Duel : \/ DuelCreated(d) \/ DuelJoined(d) \/ DuelRefunded(d)
                             \/ \E w \in Winner : DuelFinalized(d, w)

RefreshDuel == Upsert \/ \E d \in Duel : Fetch(d) \/ FetchFails(d)
ApplyOutcomes == SkipRating \/ SetWinner \/ RateFirst \/ RateSecond \/ TickDone

Next ==
    \/ ChainMoves
    \/ Tick \/ Page \/ NothingNew \/ QueryFails \/ SaveCursor \/ SaveFails
    \/ RefreshDuel \/ ApplyOutcomes
    \/ Restart \/ RecomputeRatings

Spec == Init /\ [][Next]_vars

\* The poll loop never stops: each await ends, well or not.
Fairness ==
    /\ WF_vars(Tick) /\ WF_vars(Page \/ NothingNew) /\ WF_vars(SaveCursor \/ SaveFails)
    /\ WF_vars(RefreshDuel) /\ WF_vars(ApplyOutcomes)

LiveSpec == Spec /\ Fairness

-----------------------------------------------------------------------------
(* Properties                                                              *)

Status == {"absent", "pending", "active", "complete"}
Phase  ==
    {Idle, Refreshing, [do |-> "rate"], [do |-> "rate2"]}
    \cup [do : {"drain"}, n : 1..Len(Trackers)]
    \cup [do : {"save"}, n : 1..Len(Trackers), more : BOOLEAN]
    \cup [do : {"upsert"}, duel : Duel, saw : Status]

\* Every variable has its type, and no cursor is beyond its tracker's events.
TypeOK ==
    /\ chain \in [Duel -> [status : Status, winner : Winner \cup {"none"}]]
    /\ log \in [Tracker -> Seq(Duel)]
    /\ cursor \in [Tracker -> Nat]
    /\ \A t \in Tracker : cursor[t] <= Len(log[t])
    /\ row \in [Duel -> Status] /\ rowWinner \in [Duel -> Winner \cup {"none"}]
    /\ rated \in [Duel -> [Side -> Nat]]
    /\ at \in Phase /\ pos \in Nat /\ pages \in 0..MaxPages
    /\ touched \subseteq Duel
    /\ fin \in Seq([duel : Duel, players : Status])
    /\ faults \subseteq Faults /\ Cardinality(faults) <= MaxFaults

CaughtUp == at = Idle /\ \A t \in Tracker : cursor[t] = Len(log[t])

\* No fault of these kinds so far.
Without(kinds) == faults \cap kinds = {}

\* Whenever a tick has left no event behind, the mirror shows each duel as it is
\* on chain, although rows are read and written while the chain moves; only a
\* failed refresh and a restart can leave a row behind.  At any time a duel that
\* shows a winner shows as finished unless its refresh failed ("Apply ELO updates
\* after the mirror is refreshed"), and the winner is the one on chain.
MirrorCaughtUp ==
    /\ Without({"refresh", "crash"}) /\ CaughtUp => \A d \in Duel : row[d] = chain[d].status
    /\ \A d \in Duel : rowWinner[d] # "none" =>
          /\ rowWinner[d] = chain[d].winner
          /\ Without({"refresh"}) => row[d] = "complete"

\* The mirror never goes back to an earlier state of a duel, although each row
\* is written after the chain was read and events are drained out of order.
Later == [absent |-> 0, pending |-> 1, active |-> 2, complete |-> 3]
MirrorNeverGoesBack == [][\A d \in Duel : Later[row[d]] <= Later[row'[d]]]_vars

\* A duel counts at most once in the record of each player, through failing
\* queries, refreshes, rating writes and restarts, and in nobody's if it was
\* refunded.
RatedAtMostOnce ==
    Without({"backfill"}) =>
        \A d \in Duel, s \in Side :
            /\ Without({"save"}) => rated[d][s] <= 1
            /\ rated[d][s] > 0 => chain[d].winner # "none"

\* A finished duel is eventually shown as finished, whatever queries and cursor
\* writes fail on the way.
FinishedIsMirrored ==
    \A d \in Duel : chain[d].status = "complete" ~>
        (row[d] = "complete" \/ ~Without({"refresh", "crash"}))

\* The rows that name both players of a duel with a result.
NamesBoth == {"active", "complete"}

Known(d) == \E i \in DOMAIN fin : fin[i].duel = d /\ fin[i].players \in NamesBoth

\* A finalization taken while the row of its duel names both players is queued
\* with them unless the read of the row fails, and is not let go before it counts
\* for both, whatever was refreshed, written or failed since it was taken; only a
\* failed rating write and a restart lose it then.
KnownOutcomeRated ==
    [][\A d \in Duel :
          /\ /\ Len(fin') > Len(fin) /\ fin'[Len(fin')].duel = d
             /\ row[d] \in NamesBoth
             => Known(d)' \/ ~Without({"mirror"})'
          /\ Known(d) /\ ~Known(d)'
             => (\A s \in Side : rated'[d][s] > 0) \/ ~Without({"rating", "crash"})']_vars
=============================================================================
