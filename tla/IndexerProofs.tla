--------------------------- MODULE IndexerProofs ---------------------------
(***************************************************************************)
(* The duel mirror and the ratings, whatever fails and whenever the        *)
(* process restarts: no row goes back, the mirror catches up with the      *)
(* chain, an outcome counts once, and a known one is not lost.             *)
(*                                                                         *)
(* The invariant is built in layers, each inductive on those before it:    *)
(*   IInv  a row is behind the chain, and what a refresh saw lies between  *)
(*   TInv  types, and what the phase of a tick says of position and queue  *)
(*   DInv  a duel is decided once, and only decided duels are queued       *)
(*   MInv  every row that is behind has somebody who will write it         *)
(*   RInv  an outcome is ahead of the cursor, queued, or rated             *)
(***************************************************************************)
EXTENDS Indexer, FiniteSetTheorems, TLAPS

-----------------------------------------------------------------------------
(* Rows.  MirrorNeverGoesBack speaks of one step, and by itself it is not  *)
(* kept: an Upsert writes what an earlier Fetch saw.  Between the two      *)
(* nobody else writes the row, so what was seen lies between row and chain.*)

\* a is not later than b in the life of a duel.
Upto(a, b) == Later[a] <= Later[b]

ChainType == chain \in [Duel -> [status : Status, winner : Winner \cup {"none"}]]
RowType == row \in [Duel -> Status]
SeenType == at.do = "upsert" => at.duel \in Duel /\ at.saw \in Status

RowBehindChain == \A d \in Duel : Upto(row[d], chain[d].status)
SeenBetween ==
    at.do = "upsert" => /\ Upto(row[at.duel], at.saw)
                        /\ Upto(at.saw, chain[at.duel].status)

IInv == ChainType /\ RowType /\ SeenType /\ RowBehindChain /\ SeenBetween

RowKept == \A d \in Duel : Later[row[d]] <= Later[row'[d]]

-----------------------------------------------------------------------------
\* The order on the states of a duel is an order.
LEMMA UptoOrder ==
    /\ \A a \in Status : Upto(a, a)
    /\ \A a, b, c \in Status : Upto(a, b) /\ Upto(b, c) => Upto(a, c)
BY DEF Upto, Later, Status

\* A step of the chain moves one duel on and leaves mirror and indexer alone.
LEMMA EmitKeeps ==
    ASSUME IInv, NEW d \in Duel, NEW from \in SUBSET Status, NEW to \in Status,
           NEW w \in Winner \cup {"none"}, NEW t,
           \A a \in from : Upto(a, to),
           Emit(d, from, to, w, t)
    PROVE  IInv' /\ RowKept
<1>1. /\ chain' = [chain EXCEPT ![d] = [status |-> to, winner |-> w]]
      /\ chain[d].status \in from
      /\ UNCHANGED <<row, at>>
  BY DEF Emit, dbVars
<1>2. \A e \in Duel : chain[e].status \in Status /\ chain'[e].status \in Status /\ Upto(chain[e].status, chain'[e].status)
  BY <1>1, UptoOrder DEF IInv, ChainType
<1>3. ChainType' /\ RowType' /\ SeenType'
  BY <1>1 DEF IInv, ChainType, RowType, SeenType
<1>4. RowBehindChain'
  BY <1>1, <1>2, UptoOrder DEF IInv, RowType, RowBehindChain
<1>5. SeenBetween'
  BY <1>1, <1>2, UptoOrder DEF IInv, SeenType, RowType, SeenBetween
<1>6. RowKept
  BY <1>1, UptoOrder DEF IInv, RowType, RowKept, Upto
<1> QED BY <1>3, <1>4, <1>5, <1>6 DEF IInv

\* A step that writes no row and does not stop between Fetch and Upsert.
LEMMA RowUntouched ==
    ASSUME IInv, UNCHANGED <<chain, row>>, at'.do # "upsert" \/ UNCHANGED at
    PROVE  IInv' /\ RowKept
<1>1. ChainType' /\ RowType' /\ RowBehindChain'
  BY DEF IInv, ChainType, RowType, RowBehindChain
<1>2. SeenType' /\ SeenBetween'
  BY DEF IInv, SeenType, SeenBetween
<1>3. RowKept
  BY UptoOrder DEF IInv, RowType, RowKept, Upto
<1> QED BY <1>1, <1>2, <1>3 DEF IInv

\* Leaving a tracker, for the next one or for the refreshes.
LEMMA NextTrackerPhase ==
    ASSUME NEW n, NextTracker(n)
    PROVE  at'.do # "upsert"
BY DEF NextTracker, OpenTracker, Drain, Refreshing

\* Initially every row is absent, as is its duel.
LEMMA InitIInv == Init => IInv
<1> SUFFICES ASSUME Init PROVE IInv
  OBVIOUS
<1>1. ChainType /\ RowType
  BY DEF Init, ChainType, RowType, Status
<1>2. SeenType /\ SeenBetween
  BY DEF Init, SeenType, SeenBetween, Idle
<1>3. RowBehindChain
  BY UptoOrder DEF Init, RowBehindChain, Status
<1> QED BY <1>1, <1>2, <1>3 DEF IInv

\* Every step keeps the invariant and takes no row back.
LEMMA NextIInv == IInv /\ [Next]_vars => IInv' /\ RowKept
<1> SUFFICES ASSUME IInv, [Next]_vars PROVE IInv' /\ RowKept
  OBVIOUS
<1>1. CASE ChainMoves
  <2>1. /\ Upto("absent", "pending") /\ Upto("pending", "active")
        /\ Upto("active", "complete") /\ Upto("pending", "complete")
    BY DEF Upto, Later
  <2>2. ASSUME NEW d \in Duel, DuelCreated(d) PROVE IInv' /\ RowKept
    <3>1. Emit(d, {"absent"}, "pending", "none", "created")
      BY <2>2 DEF DuelCreated
    <3>2. {"absent"} \in SUBSET Status /\ "pending" \in Status
      BY DEF Status
    <3> QED BY <2>1, <3>1, <3>2, EmitKeeps
  <2>3. ASSUME NEW d \in Duel, DuelJoined(d) PROVE IInv' /\ RowKept
    <3>1. Emit(d, {"pending"}, "active", "none", "joined")
      BY <2>3 DEF DuelJoined
    <3>2. {"pending"} \in SUBSET Status /\ "active" \in Status
      BY DEF Status
    <3> QED BY <2>1, <3>1, <3>2, EmitKeeps
  <2>4. ASSUME NEW d \in Duel, DuelRefunded(d) PROVE IInv' /\ RowKept
    <3>1. Emit(d, {"pending", "active"}, "complete", "none", "refunded")
      BY <2>4 DEF DuelRefunded
    <3>2. {"pending", "active"} \in SUBSET Status /\ "complete" \in Status
      BY DEF Status
    <3> QED BY <2>1, <3>1, <3>2, EmitKeeps
  <2>5. ASSUME NEW d \in Duel, NEW w \in Winner, DuelFinalized(d, w) PROVE IInv' /\ RowKept
    <3>1. Emit(d, {"active"}, "complete", w, "finalized")
      BY <2>5 DEF DuelFinalized
    <3>2. {"active"} \in SUBSET Status /\ "complete" \in Status
      BY DEF Status
    <3> QED BY <2>1, <3>1, <3>2, EmitKeeps
  <2> QED BY <1>1, <2>2, <2>3, <2>4, <2>5 DEF ChainMoves
<1>2. CASE Tick
  BY <1>2, RowUntouched DEF Tick, OpenTracker, Drain, chainVars, dbVars
<1>3. CASE Page
  BY <1>3, RowUntouched DEF Page, chainVars, dbVars
<1>4. CASE NothingNew
  BY <1>4, RowUntouched, NextTrackerPhase DEF NothingNew, chainVars, dbVars
<1>5. CASE QueryFails
  BY <1>5, RowUntouched, NextTrackerPhase DEF QueryFails, chainVars, dbVars
<1>6. CASE SaveCursor
  BY <1>6, RowUntouched, NextTrackerPhase DEF SaveCursor, Drain, chainVars
<1>7. CASE SaveFails
  BY <1>7, RowUntouched, NextTrackerPhase DEF SaveFails, chainVars, dbVars
<1>8. CASE RefreshDuel
  <2>1. CASE Upsert
    <3>1. CASE row' = [row EXCEPT ![at.duel] = at.saw]
      <4>1. UNCHANGED chain /\ at'.do # "upsert" /\ at.duel \in Duel /\ at.saw \in Status
        BY <2>1 DEF Upsert, Refreshing, chainVars, IInv, SeenType
      <4>2. ChainType' /\ RowType' /\ SeenType' /\ SeenBetween'
        BY <3>1, <4>1 DEF IInv, ChainType, RowType, SeenType, SeenBetween
      <4>3. RowBehindChain'
        BY <2>1, <3>1, <4>1 DEF Upsert, IInv, RowType, RowBehindChain, SeenBetween
      <4>4. RowKept
        BY <2>1, <3>1, <4>1, UptoOrder DEF Upsert, IInv, RowType, SeenBetween, RowKept, Upto
      <4> QED BY <4>2, <4>3, <4>4 DEF IInv
    <3>2. CASE UNCHANGED row
      BY <2>1, <3>2, RowUntouched DEF Upsert, Refreshing, chainVars
    <3> QED BY <2>1, <3>1, <3>2 DEF Upsert
  <2>2. ASSUME NEW d \in Duel, Fetch(d) PROVE IInv' /\ RowKept
    <3>1. /\ UNCHANGED <<chain, row>>
          /\ at' = [do |-> "upsert", duel |-> d, saw |-> chain[d].status]
          /\ chain[d].status \in Status
      BY <2>2 DEF Fetch, chainVars, dbVars, IInv, ChainType
    <3>2. ChainType' /\ RowType' /\ RowBehindChain' /\ SeenType'
      BY <3>1 DEF IInv, ChainType, RowType, RowBehindChain, SeenType
    <3>3. SeenBetween'
      BY <3>1, UptoOrder DEF IInv, RowBehindChain, SeenBetween
    <3>4. RowKept
      BY <3>1, UptoOrder DEF IInv, RowType, RowKept, Upto
    <3> QED BY <3>2, <3>3, <3>4 DEF IInv
  <2>3. ASSUME NEW d \in Duel, FetchFails(d) PROVE IInv' /\ RowKept
    BY <2>3, RowUntouched DEF FetchFails, NoObject, chainVars
  <2> QED BY <1>8, <2>1, <2>2, <2>3 DEF RefreshDuel
<1>9. CASE ApplyOutcomes
  <2>1. UNCHANGED <<chain, row>> /\ (at'.do # "upsert" \/ UNCHANGED at)
    BY <1>9 DEF ApplyOutcomes, SkipRating, SetWinner, RateFirst, RateSecond, TickDone, Idle, Refreshing, chainVars, dbVars
  <2> QED BY <2>1, RowUntouched
<1>10. CASE Restart
  BY <1>10, RowUntouched DEF Restart, Idle, chainVars
<1>11. CASE RecomputeRatings
  BY <1>11, RowUntouched DEF RecomputeRatings, chainVars
<1>12. CASE UNCHANGED vars
  BY <1>12, RowUntouched DEF vars, chainVars, dbVars
<1> QED BY <1>1, <1>2, <1>3, <1>4, <1>5, <1>6, <1>7, <1>8, <1>9, <1>10, <1>11, <1>12 DEF Next

\* No row of the mirror goes back to an earlier state of its duel, whatever
\* the queries, writes and restarts between reading the chain and writing it.
THEOREM MirrorMonotone == Spec => MirrorNeverGoesBack
<1>1. IInv /\ [Next]_vars => [RowKept]_vars
  BY NextIInv
<1>2. IInv /\ [Next]_vars => IInv'
  BY NextIInv
<1> QED BY InitIInv, <1>1, <1>2, PTL DEF Spec, MirrorNeverGoesBack, RowKept
-----------------------------------------------------------------------------
(* Types, and where a tick stands.                                         *)

FinalLog == log["finalized"]

\* What the phase of a tick says of its position and of its results.
Place ==
    /\ at.do \in {"drain", "save"} => pos = cursor[Trackers[at.n]]
    /\ at.do = "save" => /\ pos < Len(log[Trackers[at.n]])
                         /\ log[Trackers[at.n]][pos + 1] \in touched
    /\ at.do = "idle" => touched = {} /\ fin = <<>>
    /\ at.do \in {"rate", "rate2"} => fin # <<>> /\ touched = {}

TInv == TypeOK /\ Place

LogType == log \in [Tracker -> Seq(Duel)]
CursorType == cursor \in [Tracker -> Nat] /\ \A t \in Tracker : cursor[t] <= Len(log[t])
DisplayType == row \in [Duel -> Status] /\ rowWinner \in [Duel -> Winner \cup {"none"}]
RatedType == rated \in [Duel -> [Side -> Nat]]
PhaseType == at \in Phase /\ pos \in Nat /\ pages \in 0..MaxPages
ResultType == touched \subseteq Duel /\ fin \in Seq([duel : Duel, players : Status])
FaultType == faults \subseteq Faults /\ Cardinality(faults) <= MaxFaults

LEMMA TypeParts ==
    /\ TypeOK <=> /\ ChainType /\ LogType /\ CursorType /\ DisplayType
                  /\ RatedType /\ PhaseType /\ ResultType /\ FaultType
    /\ TypeOK' <=> /\ ChainType' /\ LogType' /\ CursorType' /\ DisplayType'
                   /\ RatedType' /\ PhaseType' /\ ResultType' /\ FaultType'
BY DEF TypeOK, ChainType, LogType, CursorType, DisplayType, RatedType, PhaseType, ResultType, FaultType

\* The trackers of a tick are the trackers, each once.
LEMMA TrackerOrder ==
    /\ Len(Trackers) = 4
    /\ \A n \in 1..4 : Trackers[n] \in Tracker /\ (Trackers[n] = "finalized" <=> n = 3)
    /\ \A m, n \in 1..4 : Trackers[m] = Trackers[n] => m = n
BY DEF Trackers, Tracker

\* What a phase carries.
LEMMA PhaseParts ==
    ASSUME NEW p \in Phase
    PROVE  /\ p.do = "idle" <=> p = Idle
           /\ p.do = "refresh" <=> p = Refreshing
           /\ p.do = "rate" <=> p = [do |-> "rate"]
           /\ p.do = "rate2" <=> p = [do |-> "rate2"]
           /\ p.do \in {"drain", "save"} => p.n \in 1..4
           /\ p.do = "save" => p.more \in BOOLEAN
           /\ p.do = "upsert" => p.duel \in Duel /\ p.saw \in Status
BY TrackerOrder DEF Phase, Idle, Refreshing

LEMMA PhaseForms ==
    /\ Idle \in Phase /\ Refreshing \in Phase /\ [do |-> "rate"] \in Phase /\ [do |-> "rate2"] \in Phase
    /\ \A n \in 1..4 : Drain(n) \in Phase /\ \A b \in BOOLEAN : [do |-> "save", n |-> n, more |-> b] \in Phase
    /\ \A d \in Duel, s \in Status : [do |-> "upsert", duel |-> d, saw |-> s] \in Phase
    /\ Idle.do = "idle" /\ Refreshing.do = "refresh"
    /\ \A n \in 1..4 : Drain(n).do = "drain" /\ Drain(n).n = n
BY TrackerOrder DEF Phase, Idle, Refreshing, Drain

\* The kinds of faults are finitely many.
LEMMA FaultsFinite == IsFiniteSet(Faults)
<1> DEFINE tries  == ({"query"} \cup {"mirror"}) \cup {"save"}
           reads  == {"refresh"} \cup {"winner"}
           writes == {"rating"} \cup {"crash"}
<1>1. IsFiniteSet(tries) /\ IsFiniteSet(reads) /\ IsFiniteSet(writes) /\ IsFiniteSet({"backfill"})
  BY FS_Singleton, FS_AddElement
<1>2. IsFiniteSet(tries \cup reads) /\ IsFiniteSet(writes \cup {"backfill"})
  BY <1>1, FS_Union
<1>3. IsFiniteSet((tries \cup reads) \cup (writes \cup {"backfill"}))
  BY <1>2, FS_Union
<1>4. FaultKinds = (tries \cup reads) \cup (writes \cup {"backfill"})
  BY DEF FaultKinds
<1>5. IsFiniteSet(FaultKinds)
  BY <1>3, <1>4
<1> QED BY <1>5, FS_Subset, IndexerAssumption

\* A fault keeps to the bound, and adds its kind.
LEMMA FaultKeeps ==
    ASSUME FaultType, NEW kind, Fault(kind)
    PROVE  FaultType' /\ faults' = faults \cup {kind}
<1>1. IsFiniteSet(faults) /\ Cardinality(faults) \in Nat
  BY FaultsFinite, FS_Subset, FS_CardinalityType DEF FaultType
<1>2. kind \notin faults /\ kind \in Faults /\ faults' = faults \cup {kind} /\ Cardinality(faults) < MaxFaults
  BY DEF Fault
<1>3. Cardinality(faults') = Cardinality(faults) + 1
  BY <1>1, <1>2, FS_AddElement
<1> QED BY <1>1, <1>2, <1>3, IndexerAssumption DEF FaultType

\* A step of the chain, whichever it is.
LEMMA ChainStep ==
    ASSUME ChainMoves
    PROVE  \E d \in Duel, t \in Tracker, to \in Status, w \in Winner \cup {"none"} :
              /\ chain[d].status \notin {to, "complete"}
              /\ chain' = [chain EXCEPT ![d] = [status |-> to, winner |-> w]]
              /\ log' = [log EXCEPT ![t] = Append(@, d)]
              /\ t = "finalized" <=> w # "none"
              /\ w # "none" => to = "complete"
              /\ UNCHANGED <<dbVars, at, pos, pages, touched, fin, faults>>
<1>1. ASSUME NEW d \in Duel, DuelCreated(d) \/ DuelJoined(d) \/ DuelRefunded(d)
      PROVE  \E t \in Tracker, to \in Status :
                /\ chain[d].status \notin {to, "complete"}
                /\ chain' = [chain EXCEPT ![d] = [status |-> to, winner |-> "none"]]
                /\ log' = [log EXCEPT ![t] = Append(@, d)]
                /\ t # "finalized"
                /\ UNCHANGED <<dbVars, at, pos, pages, touched, fin, faults>>
  BY <1>1 DEF DuelCreated, DuelJoined, DuelRefunded, Emit, Tracker, Status
<1>2. ASSUME NEW d \in Duel, NEW w \in Winner, DuelFinalized(d, w)
      PROVE  /\ chain[d].status = "active"
             /\ chain' = [chain EXCEPT ![d] = [status |-> "complete", winner |-> w]]
             /\ log' = [log EXCEPT !["finalized"] = Append(@, d)]
             /\ UNCHANGED <<dbVars, at, pos, pages, touched, fin, faults>>
             /\ w # "none"
  BY <1>2, IndexerAssumption DEF DuelFinalized, Emit
<1>3. CASE \E d \in Duel : DuelCreated(d) \/ DuelJoined(d) \/ DuelRefunded(d)
  BY <1>1, <1>3
<1>4. CASE \E d \in Duel, w \in Winner : DuelFinalized(d, w)
  <2>1. PICK d \in Duel, w \in Winner : DuelFinalized(d, w)
    BY <1>4
  <2>2. "finalized" \in Tracker /\ "complete" \in Status
    BY DEF Tracker, Status
  <2> QED BY <1>2, <2>1, <2>2
<1> QED BY <1>3, <1>4 DEF ChainMoves

\* An event is appended: nothing already logged changes.
LEMMA LogGrows ==
    ASSUME LogType, NEW d \in Duel, NEW t \in Tracker,
           log' = [log EXCEPT ![t] = Append(@, d)]
    PROVE  /\ LogType'
           /\ log'[t] = Append(log[t], d) /\ \A u \in Tracker \ {t} : log'[u] = log[u]
           /\ \A u \in Tracker : /\ Len(log[u]) \in Nat /\ Len(log[u]) <= Len(log'[u])
                                 /\ \A i \in 1..Len(log[u]) : log'[u][i] = log[u][i]
BY DEF LogType

\* Leaving a tracker for the next one or for the refreshes.
LEMMA NextTrackerKeeps ==
    ASSUME CursorType, PhaseType, NEW n \in 1..4, NextTracker(n),
           \A t \in Tracker : t = Trackers[n] \/ cursor'[t] = cursor[t]
    PROVE  /\ PhaseType' /\ at'.do \in {"drain", "refresh"}
           /\ at'.do = "drain" => pos' = cursor'[Trackers[at'.n]]
<1>1. CASE n < 4
  <2>1. at' = Drain(n + 1) /\ pos' = cursor[Trackers[n + 1]] /\ pages' = 0 /\ n + 1 \in 1..4
    BY <1>1, TrackerOrder DEF NextTracker, OpenTracker
  <2>2. cursor'[Trackers[n + 1]] = cursor[Trackers[n + 1]] /\ cursor[Trackers[n + 1]] \in Nat
    BY <2>1, TrackerOrder DEF CursorType
  <2> QED BY <2>1, <2>2, PhaseForms, IndexerAssumption DEF PhaseType
<1>2. CASE n = 4
  BY <1>2, TrackerOrder, PhaseForms DEF NextTracker, PhaseType
<1> QED BY <1>1, <1>2

\* The first entry of a queue, the rest of it, and one more at its end.
LEMMA QueueFacts ==
    ASSUME NEW S, NEW q \in Seq(S)
    PROVE  /\ DOMAIN q = 1..Len(q) /\ Len(q) \in Nat /\ \A i \in DOMAIN q : q[i] \in S
           /\ q # <<>> => /\ Head(q) = q[1] /\ 1 \in DOMAIN q /\ q[1] \in S
                          /\ Tail(q) \in Seq(S)
                          /\ \A i \in DOMAIN Tail(q) : i + 1 \in DOMAIN q /\ Tail(q)[i] = q[i + 1]
                          /\ \A i \in DOMAIN q \ {1} : i - 1 \in DOMAIN Tail(q) /\ Tail(q)[i - 1] = q[i]
           /\ \A e \in S : /\ Append(q, e) \in Seq(S)
                           /\ DOMAIN Append(q, e) = DOMAIN q \cup {Len(q) + 1}
                           /\ Append(q, e)[Len(q) + 1] = e
                           /\ \A i \in DOMAIN q : Append(q, e)[i] = q[i]
OBVIOUS

LEMMA InitTInv == Init => TInv
<1> SUFFICES ASSUME Init PROVE TInv
  OBVIOUS
<1>1. ChainType /\ LogType /\ CursorType /\ DisplayType /\ RatedType /\ ResultType
  BY DEF Init, ChainType, LogType, CursorType, DisplayType, RatedType, ResultType, Status
<1>2. PhaseType /\ Place
  BY PhaseForms, IndexerAssumption DEF Init, PhaseType, Place
<1>3. FaultType
  BY FS_EmptySet, IndexerAssumption DEF Init, FaultType
<1> QED BY <1>1, <1>2, <1>3, TypeParts DEF TInv

LEMMA FinEntries ==
    ASSUME ResultType, NEW i \in DOMAIN fin
    PROVE  fin[i].duel \in Duel /\ fin[i].players \in Status
<1> DEFINE Result == [duel : Duel, players : Status]
<1>1. fin \in Seq(Result) /\ \A r \in Result : r.duel \in Duel /\ r.players \in Status
  BY DEF ResultType
<1> HIDE DEF Result
<1> QED BY <1>1, QueueFacts

\* What TInv says of a tick by its phase.
LEMMA Standing ==
    ASSUME TInv
    PROVE  /\ at \in Phase
           /\ at.do = "idle" <=> at = Idle
           /\ at.do = "refresh" <=> at = Refreshing
           /\ at.do = "rate" <=> at = [do |-> "rate"]
           /\ at.do = "rate2" <=> at = [do |-> "rate2"]
           /\ at.do \in {"drain", "save"} => /\ at.n \in 1..4 /\ Trackers[at.n] \in Tracker
                                             /\ pos = cursor[Trackers[at.n]]
           /\ at.do = "save" => /\ pos < Len(log[Trackers[at.n]])
                                /\ log[Trackers[at.n]][pos + 1] \in touched
           /\ at.do = "upsert" => at.duel \in Duel /\ at.saw \in Status
           /\ at.do \in {"rate", "rate2"} => touched = {}
           /\ fin # <<>> => /\ Head(fin) = fin[1] /\ 1 \in DOMAIN fin
                            /\ fin[1].duel \in Duel /\ fin[1].players \in Status
                            /\ Tail(fin) \in Seq([duel : Duel, players : Status])
<1>1. at \in Phase /\ ResultType
  BY TypeParts DEF TInv, PhaseType
<1>2. at.do = "save" => at.n \in 1..4
  BY <1>1, PhaseParts
<1>3. fin # <<>> => /\ Head(fin) = fin[1] /\ 1 \in DOMAIN fin
                    /\ fin[1].duel \in Duel /\ fin[1].players \in Status
                    /\ Tail(fin) \in Seq([duel : Duel, players : Status])
  <2> DEFINE Result == [duel : Duel, players : Status]
  <2>1. fin \in Seq(Result) /\ \A r \in Result : r.duel \in Duel /\ r.players \in Status
    BY <1>1 DEF ResultType
  <2> HIDE DEF Result
  <2>2. fin # <<>> => Head(fin) = fin[1] /\ 1 \in DOMAIN fin /\ fin[1] \in Result /\ Tail(fin) \in Seq(Result)
    BY <2>1, QueueFacts
  <2> QED BY <2>1, <2>2 DEF Result
<1> QED BY <1>1, <1>3, PhaseParts, TrackerOrder DEF TInv, Place

\* Steps of the chain.
LEMMA ChainTInv == TInv /\ ChainMoves => TInv'
<1> SUFFICES ASSUME TInv, ChainMoves PROVE TInv'
  OBVIOUS
<1>0. /\ ChainType /\ LogType /\ CursorType /\ DisplayType
      /\ RatedType /\ PhaseType /\ ResultType /\ FaultType
  BY TypeParts DEF TInv
<1>1. PICK d \in Duel, t \in Tracker, to \in Status, w \in Winner \cup {"none"} :
         /\ chain' = [chain EXCEPT ![d] = [status |-> to, winner |-> w]]
         /\ log' = [log EXCEPT ![t] = Append(@, d)]
         /\ UNCHANGED <<dbVars, at, pos, pages, touched, fin, faults>>
  BY ChainStep
<1>2. UNCHANGED <<cursor, row, rowWinner, rated, at, pos, pages, touched, fin, faults>>
  BY <1>1 DEF dbVars
<1>3. /\ LogType'
      /\ \A u \in Tracker : /\ Len(log[u]) \in Nat /\ Len(log'[u]) \in Nat /\ Len(log[u]) <= Len(log'[u])
                            /\ \A i \in 1..Len(log[u]) : log'[u][i] = log[u][i]
  BY <1>0, <1>1, LogGrows DEF LogType
<1>4. ChainType' /\ CursorType'
  BY <1>0, <1>1, <1>2, <1>3 DEF ChainType, CursorType
<1>5. DisplayType' /\ RatedType' /\ PhaseType' /\ ResultType' /\ FaultType'
  BY <1>0, <1>2 DEF DisplayType, RatedType, PhaseType, ResultType, FaultType
<1>6. Place'
  <2>1. ASSUME at.do = "save"
        PROVE  /\ pos < Len(log'[Trackers[at.n]])
               /\ log'[Trackers[at.n]][pos + 1] \in touched
    <3> DEFINE u == Trackers[at.n]
    <3>1. u \in Tracker /\ pos \in Nat /\ pos < Len(log[u]) /\ log[u][pos + 1] \in touched
      BY <2>1, <1>0, Standing DEF PhaseType
    <3>2. pos + 1 \in 1..Len(log[u]) /\ pos < Len(log'[u])
      BY <3>1, <1>3
    <3> QED BY <3>1, <3>2, <1>3
  <2> QED BY <1>2, <2>1 DEF TInv, Place
<1> QED BY <1>3, <1>4, <1>5, <1>6, TypeParts DEF TInv

\* Steps that drain a tracker.
LEMMA DrainTInv == TInv /\ (Tick \/ Page \/ NothingNew \/ QueryFails \/ SaveCursor \/ SaveFails) => TInv'
<1> SUFFICES ASSUME TInv, Tick \/ Page \/ NothingNew \/ QueryFails \/ SaveCursor \/ SaveFails
             PROVE  TInv'
  OBVIOUS
<1>0. /\ ChainType /\ LogType /\ CursorType /\ DisplayType
      /\ RatedType /\ PhaseType /\ ResultType /\ FaultType
  BY TypeParts DEF TInv
<1>1. UNCHANGED <<chain, log, row, rowWinner, rated>>
  BY DEF Tick, Page, NothingNew, QueryFails, SaveCursor, SaveFails, chainVars, dbVars
<1>2. ChainType' /\ LogType' /\ DisplayType' /\ RatedType'
  BY <1>0, <1>1 DEF ChainType, LogType, DisplayType, RatedType
<1>3. FaultType'
  <2>1. Fault("query") \/ Fault("mirror") \/ Fault("save") \/ UNCHANGED faults
    BY DEF Tick, Page, NothingNew, QueryFails, SaveCursor, SaveFails
  <2> QED BY <2>1, <1>0, FaultKeeps DEF FaultType
<1>4. CASE Tick
  <2>1. /\ at' = Drain(1) /\ pos' = cursor[Trackers[1]] /\ pages' = 0
        /\ touched' = {} /\ fin' = <<>> /\ UNCHANGED cursor
    BY <1>4 DEF Tick, OpenTracker, dbVars
  <2>2. CursorType' /\ PhaseType' /\ ResultType'
    BY <1>0, <1>1, <2>1, PhaseForms, TrackerOrder, IndexerAssumption DEF CursorType, PhaseType, ResultType
  <2>3. Place'
    BY <2>1, PhaseForms DEF Place
  <2> QED BY <1>2, <1>3, <2>2, <2>3, TypeParts DEF TInv
<1>5. CASE Page
  <2> DEFINE t == Trackers[at.n]
             d == log[t][pos + 1]
  <2>1. /\ at.do = "drain" /\ pos < Len(log[t]) /\ touched' = touched \cup {d}
        /\ UNCHANGED fin \/ \E p \in {row[d], "absent"} : Take(d, p)
        /\ at' = [do |-> "save", n |-> at.n, more |-> pos + 1 < Len(log[t])]
        /\ UNCHANGED <<cursor, pos, pages>>
    BY <1>5 DEF Page, Touch, dbVars
  <2>2. at.n \in 1..4 /\ t \in Tracker /\ pos \in Nat /\ d \in Duel /\ row[d] \in Status
    BY <1>0, <2>1, Standing DEF LogType, PhaseType, DisplayType
  <2>3. CursorType' /\ PhaseType'
    <3>1. (pos + 1 < Len(log[t])) \in BOOLEAN
      OBVIOUS
    <3>2. at' \in Phase
      BY <2>1, <2>2, <3>1, PhaseForms
    <3> QED BY <1>0, <1>1, <2>1, <3>2 DEF CursorType, PhaseType
  <2>4. ResultType'
    <3> DEFINE Result == [duel : Duel, players : Status]
    <3>1. fin \in Seq(Result) /\ \A p \in {row[d], "absent"} : [duel |-> d, players |-> p] \in Result
      BY <1>0, <2>2 DEF ResultType, Status
    <3> HIDE DEF Result
    <3>2. ASSUME UNCHANGED fin PROVE fin' \in Seq(Result)
      BY <3>1, <3>2
    <3>3. ASSUME NEW p \in {row[d], "absent"}, Take(d, p) PROVE fin' \in Seq(Result)
      <4>1. fin' = Append(fin, [duel |-> d, players |-> p])
        BY <3>3 DEF Take
      <4>2. [duel |-> d, players |-> p] \in Result
        BY <3>1
      <4> QED BY <3>1, <4>1, <4>2, QueueFacts
    <3>4. fin' \in Seq(Result)
      BY <2>1, <3>2, <3>3
    <3> QED BY <1>0, <2>1, <2>2, <3>4 DEF ResultType, Result
  <2>5. Place'
    BY <1>1, <2>1, <2>2, Standing DEF Place
  <2> QED BY <1>2, <1>3, <2>3, <2>4, <2>5, TypeParts DEF TInv
<1>6. ASSUME NothingNew \/ QueryFails \/ SaveFails PROVE TInv'
  <2>1. /\ at.do \in {"drain", "save"} /\ NextTracker(at.n) /\ UNCHANGED <<cursor, touched, fin>>
    BY <1>6 DEF NothingNew, QueryFails, SaveFails, dbVars
  <2>2. PhaseType' /\ at'.do \in {"drain", "refresh"} /\ (at'.do = "drain" => pos' = cursor'[Trackers[at'.n]])
    BY <1>0, <2>1, Standing, NextTrackerKeeps
  <2>3. CursorType' /\ ResultType' /\ Place'
    BY <1>0, <1>1, <2>1, <2>2 DEF CursorType, ResultType, Place
  <2> QED BY <1>2, <1>3, <2>2, <2>3, TypeParts DEF TInv
<1>7. CASE SaveCursor
  <2> DEFINE t == Trackers[at.n]
  <2>1. /\ at.do = "save" /\ cursor' = [cursor EXCEPT ![t] = pos + 1] /\ UNCHANGED <<touched, fin>>
    BY <1>7 DEF SaveCursor, EndCursor
  <2>2. at.n \in 1..4 /\ t \in Tracker /\ pos \in Nat /\ pos < Len(log[t])
    BY <1>0, <2>1, Standing DEF PhaseType
  <2>3. CursorType' /\ ResultType'
    BY <1>0, <1>1, <2>1, <2>2 DEF CursorType, ResultType, LogType
  <2>4. CASE at' = Drain(at.n) /\ pos' = pos + 1 /\ pages' = pages + 1 /\ pages + 1 < MaxPages
    <3>1. PhaseType'
      BY <1>0, <2>2, <2>4, PhaseForms, IndexerAssumption DEF PhaseType
    <3>2. Place'
      BY <1>0, <2>1, <2>2, <2>4, PhaseForms DEF Place, CursorType
    <3> QED BY <1>2, <1>3, <2>3, <3>1, <3>2, TypeParts DEF TInv
  <2>5. CASE NextTracker(at.n)
    <3>1. PhaseType' /\ at'.do \in {"drain", "refresh"} /\ (at'.do = "drain" => pos' = cursor'[Trackers[at'.n]])
      BY <1>0, <2>1, <2>2, <2>5, NextTrackerKeeps DEF CursorType
    <3>2. Place'
      BY <3>1 DEF Place
    <3> QED BY <1>2, <1>3, <2>3, <3>1, <3>2, TypeParts DEF TInv
  <2> QED BY <1>7, <2>4, <2>5 DEF SaveCursor, EndCursor
<1> QED BY <1>4, <1>5, <1>6, <1>7

\* Steps that refresh a row.
LEMMA RefreshTInv == TInv /\ RefreshDuel => TInv'
<1> SUFFICES ASSUME TInv, RefreshDuel PROVE TInv'
  OBVIOUS
<1>0. /\ ChainType /\ LogType /\ CursorType /\ DisplayType
      /\ RatedType /\ PhaseType /\ ResultType /\ FaultType
  BY TypeParts DEF TInv
<1>1. UNCHANGED <<chain, log, cursor, rowWinner, rated, pos, pages, fin>>
  BY DEF RefreshDuel, Upsert, Fetch, FetchFails, chainVars, dbVars
<1>2. ChainType' /\ LogType' /\ CursorType' /\ RatedType'
  BY <1>0, <1>1 DEF ChainType, LogType, CursorType, RatedType
<1>3. FaultType'
  <2>1. Fault("refresh") \/ UNCHANGED faults
    BY DEF RefreshDuel, Upsert, Fetch, FetchFails
  <2> QED BY <2>1, <1>0, FaultKeeps DEF FaultType
<1>4. touched' \subseteq touched /\ ResultType'
  BY <1>0, <1>1 DEF RefreshDuel, Upsert, Fetch, FetchFails, ResultType
<1>5. DisplayType' /\ at'.do \in {"refresh", "upsert"} /\ PhaseType'
  <2>1. CASE Upsert
    <3>1. at.duel \in Duel /\ at.saw \in Status /\ at' = Refreshing
      BY <2>1, Standing DEF Upsert
    <3> QED BY <2>1, <3>1, <1>0, <1>1, PhaseForms DEF Upsert, DisplayType, PhaseType
  <2>2. ASSUME NEW d \in Duel, Fetch(d)
        PROVE  DisplayType' /\ at'.do \in {"refresh", "upsert"} /\ PhaseType'
    <3>1. at' = [do |-> "upsert", duel |-> d, saw |-> chain[d].status] /\ chain[d].status \in Status /\ UNCHANGED row
      BY <2>2, <1>0 DEF Fetch, ChainType, dbVars
    <3> QED BY <3>1, <1>0, <1>1, PhaseForms DEF DisplayType, PhaseType
  <2>3. ASSUME NEW d \in Duel, FetchFails(d)
        PROVE  DisplayType' /\ at'.do \in {"refresh", "upsert"} /\ PhaseType'
    BY <2>3, <1>0, <1>1, PhaseForms DEF FetchFails, NoObject, DisplayType, PhaseType
  <2> QED BY <2>1, <2>2, <2>3 DEF RefreshDuel
<1>6. Place'
  BY <1>5 DEF Place
<1> QED BY <1>2, <1>3, <1>4, <1>5, <1>6, TypeParts DEF TInv

\* Steps that apply an outcome, and the end of the tick.
LEMMA ApplyTInv == TInv /\ ApplyOutcomes => TInv'
<1> SUFFICES ASSUME TInv, ApplyOutcomes PROVE TInv'
  OBVIOUS
<1>0. /\ ChainType /\ LogType /\ CursorType /\ DisplayType
      /\ RatedType /\ PhaseType /\ ResultType /\ FaultType
  BY TypeParts DEF TInv
<1>1. UNCHANGED <<chain, log, cursor, row, pos, pages, touched>>
  BY DEF ApplyOutcomes, SkipRating, SetWinner, RateFirst, RateSecond, TickDone, chainVars, dbVars
<1>2. ChainType' /\ LogType' /\ CursorType'
  BY <1>0, <1>1 DEF ChainType, LogType, CursorType
<1>3. FaultType'
  <2>1. Fault("winner") \/ Fault("rating") \/ UNCHANGED faults
    BY DEF ApplyOutcomes, SkipRating, SetWinner, RateFirst, RateSecond, TickDone
  <2> QED BY <2>1, <1>0, FaultKeeps DEF FaultType
<1>4. fin # <<>> => Head(fin).duel \in Duel
  BY Standing
<1>5. DisplayType'
  <2>1. CASE SetWinner
    BY <2>1, <1>0, <1>1, <1>4 DEF SetWinner, DisplayType, ChainType
  <2>2. CASE ~SetWinner
    BY <2>2, <1>0, <1>1 DEF ApplyOutcomes, SkipRating, RateFirst, RateSecond, TickDone, DisplayType, dbVars
  <2> QED BY <2>1, <2>2
<1>6. RatedType'
  <2> DEFINE d == Head(fin).duel
  <2>1. \A s \in Side : d \in Duel => [rated EXCEPT ![d][s] = @ + 1] \in [Duel -> [Side -> Nat]]
    BY <1>0 DEF RatedType
  <2>2. at.do \in {"rate", "rate2"} => d \in Duel
    BY <1>4 DEF TInv, Place
  <2>3. "p0" \in Side /\ "p1" \in Side
    BY DEF Side
  <2>4. CASE RateFirst \/ RateSecond
    <3>1. at.do \in {"rate", "rate2"}
      BY <2>4 DEF RateFirst, RateSecond
    <3>2. \/ UNCHANGED rated
          \/ rated' = [rated EXCEPT ![d]["p0"] = @ + 1] \/ rated' = [rated EXCEPT ![d]["p1"] = @ + 1]
      BY <2>4 DEF RateFirst, RateSecond
    <3> QED BY <2>1, <2>2, <2>3, <3>1, <3>2, <1>0 DEF RatedType
  <2>5. CASE ~(RateFirst \/ RateSecond)
    BY <2>5, <1>0 DEF ApplyOutcomes, SkipRating, SetWinner, TickDone, dbVars, RatedType
  <2> QED BY <2>4, <2>5
<1>7. at' \in {Idle, Refreshing, [do |-> "rate"], [do |-> "rate2"]} /\ PhaseType'
  <2>1. at' \in {Idle, Refreshing, [do |-> "rate"], [do |-> "rate2"]} \/ UNCHANGED at
    BY DEF ApplyOutcomes, SkipRating, SetWinner, RateFirst, RateSecond, TickDone
  <2>2. at \in {Idle, Refreshing, [do |-> "rate"], [do |-> "rate2"]}
    BY DEF ApplyOutcomes, SkipRating, SetWinner, RateFirst, RateSecond, TickDone
  <2> QED BY <2>1, <2>2, <1>0, <1>1, PhaseForms DEF PhaseType
<1>8. ResultType'
  <2>1. fin' = fin \/ (fin # <<>> /\ fin' = Tail(fin))
    BY DEF ApplyOutcomes, SkipRating, SetWinner, RateFirst, RateSecond, TickDone, TInv, Place
  <2> QED BY <2>1, <1>0, <1>1, Standing DEF ResultType
<1>9. Place'
  <2>1. at'.do = "idle" => touched' = {} /\ fin' = <<>>
    BY PhaseForms DEF ApplyOutcomes, SkipRating, SetWinner, RateFirst, RateSecond, TickDone
  <2>2. at'.do \in {"rate", "rate2"} => fin' # <<>> /\ touched' = {}
    BY PhaseForms, Standing DEF ApplyOutcomes, SkipRating, SetWinner, RateFirst, RateSecond, TickDone, TInv, Place, Refreshed
  <2> QED BY <1>7, <2>1, <2>2, PhaseForms DEF Place
<1> QED BY <1>2, <1>3, <1>5, <1>6, <1>7, <1>8, <1>9, TypeParts DEF TInv

\* The process dies and starts again, or the ratings are rebuilt.
LEMMA OperatorTInv == TInv /\ (Restart \/ RecomputeRatings) => TInv'
<1> SUFFICES ASSUME TInv, Restart \/ RecomputeRatings PROVE TInv'
  OBVIOUS
<1>0. /\ ChainType /\ LogType /\ CursorType /\ DisplayType
      /\ RatedType /\ PhaseType /\ ResultType /\ FaultType
  BY TypeParts DEF TInv
<1>1. UNCHANGED <<chain, log, row, rowWinner, pos, pages>>
  BY DEF Restart, RecomputeRatings, chainVars
<1>2. ChainType' /\ LogType' /\ DisplayType'
  BY <1>0, <1>1 DEF ChainType, LogType, DisplayType
<1>3. FaultType'
  BY <1>0, FaultKeeps DEF Restart, RecomputeRatings
<1>4. at' = Idle /\ touched' = {} /\ fin' = <<>>
  BY Standing, PhaseForms DEF Restart, RecomputeRatings, TInv, Place
<1>5. PhaseType' /\ ResultType' /\ Place'
  BY <1>0, <1>1, <1>4, PhaseForms DEF PhaseType, ResultType, Place
<1>6. CursorType'
  <2>1. CASE Restart
    <3>1. PICK seeded \in SUBSET Tracker :
             cursor' = [t \in Tracker |-> IF t \in seeded THEN Len(log[t]) ELSE cursor[t]]
      BY <2>1 DEF Restart
    <3>2. \A t \in Tracker : Len(log[t]) \in Nat
      BY <1>0 DEF LogType
    <3> QED BY <3>1, <3>2, <1>0, <1>1 DEF CursorType
  <2>2. CASE RecomputeRatings
    BY <2>2, <1>0, <1>1 DEF RecomputeRatings, CursorType
  <2> QED BY <2>1, <2>2
<1>7. RatedType'
  BY <1>0 DEF Restart, RecomputeRatings, RatedType
<1> QED BY <1>2, <1>3, <1>5, <1>6, <1>7, TypeParts DEF TInv

LEMMA NextTInv == TInv /\ [Next]_vars => TInv'
<1>1. TInv /\ UNCHANGED vars => TInv'
  BY DEF vars, chainVars, dbVars, TInv, TypeOK, Place
<1> QED BY <1>1, ChainTInv, DrainTInv, RefreshTInv, ApplyTInv, OperatorTInv DEF Next

\* Every variable keeps its type, no cursor passes the events of its tracker, no
\* page the bound, and no more faults happen than assumed.
THEOREM TypeSafe == Spec => []TypeOK
<1>1. TInv => TypeOK
  BY DEF TInv
<1> QED BY InitTInv, NextTInv, <1>1, PTL DEF Spec

-----------------------------------------------------------------------------
(* The chain decides a duel once, and the indexer takes only decided ones. *)

ResultFinal == \A d \in Duel : chain[d].winner # "none" => chain[d].status = "complete"
LogDecided  == \A k \in DOMAIN FinalLog : chain[FinalLog[k]].winner # "none"
LogOnce     == \A j, k \in DOMAIN FinalLog : FinalLog[j] = FinalLog[k] => j = k
FinDecided  == \A i \in DOMAIN fin : chain[fin[i].duel].winner # "none"

DInv == ResultFinal /\ LogDecided /\ LogOnce /\ FinDecided

\* The chain stands still unless it moves, and faults are not forgotten.
LEMMA FaultsAndChain ==
    ASSUME TInv, [Next]_vars
    PROVE  /\ faults \subseteq faults'
           /\ ChainMoves \/ UNCHANGED chainVars
<1>1. CASE ChainMoves
  BY <1>1, ChainStep
<1>2. CASE Tick \/ Page \/ NothingNew \/ QueryFails \/ SaveCursor \/ SaveFails
  BY <1>2 DEF Tick, Page, NothingNew, QueryFails, SaveCursor, SaveFails, Fault
<1>3. CASE RefreshDuel
  BY <1>3 DEF RefreshDuel, Upsert, Fetch, FetchFails, Fault
<1>4. CASE ApplyOutcomes
  BY <1>4 DEF ApplyOutcomes, SkipRating, SetWinner, RateFirst, RateSecond, TickDone, Fault
<1>5. CASE Restart \/ RecomputeRatings
  BY <1>5 DEF Restart, RecomputeRatings, Fault
<1>6. CASE UNCHANGED vars
  BY <1>6 DEF vars
<1> QED BY <1>1, <1>2, <1>3, <1>4, <1>5, <1>6 DEF Next

\* A page adds the next finalization to the queue, with the players of its row
\* unless the row could not be read.
Queues(p) ==
    /\ Page /\ at.n = 3 /\ pos + 1 \in DOMAIN FinalLog
    /\ fin' = Append(fin, [duel |-> FinalLog[pos + 1], players |-> p])
    /\ p = row[FinalLog[pos + 1]] \/ Fault("mirror")

\* Outcomes wait in a queue: a step adds one at its end, takes the first or
\* drops them all.
LEMMA FinStep ==
    ASSUME TInv, [Next]_vars
    PROVE  \/ fin' = fin
           \/ fin' = <<>> /\ (Tick \/ Restart)
           \/ fin # <<>> /\ fin' = Tail(fin) /\ (SkipRating \/ RateFirst \/ RateSecond)
           \/ \E p \in Status : Queues(p)
<1>1. CASE ChainMoves
  BY <1>1, ChainStep
<1>2. CASE Page
  <2>1. at.n \in 1..4 /\ LogType /\ pos \in Nat
    BY <1>2, Standing, TypeParts DEF Page, TInv, PhaseType
  <2>2. CASE at.n = 3
    <3>1. Trackers[at.n] = "finalized" /\ pos < Len(FinalLog) /\ FinalLog \in Seq(Duel)
      BY <1>2, <2>1, <2>2, TrackerOrder DEF Page, LogType, FinalLog
    <3>2. pos + 1 \in DOMAIN FinalLog
      BY <2>1, <3>1
    <3>3. row[FinalLog[pos + 1]] \in Status /\ "absent" \in Status
      BY <3>1, <3>2, TypeParts DEF TInv, DisplayType, Status
    <3>4. Decides(Trackers[at.n]) /\ log[Trackers[at.n]] = FinalLog
      BY <3>1 DEF Decides, FinalLog
    <3>5. \/ Take(FinalLog[pos + 1], row[FinalLog[pos + 1]])
          \/ Take(FinalLog[pos + 1], "absent") /\ Fault("mirror")
      <4> HIDE DEF FinalLog
      <4> QED BY <1>2, <3>4, Zenon DEF Page
    <3> QED BY <1>2, <2>2, <3>2, <3>3, <3>5 DEF Queues, Take
  <2>3. CASE at.n # 3
    <3>1. Trackers[at.n] # "finalized"
      BY <2>1, <2>3, TrackerOrder
    <3> QED BY <1>2, <3>1 DEF Page, Decides
  <2> QED BY <2>2, <2>3
<1>3. CASE Tick \/ NothingNew \/ QueryFails \/ SaveCursor \/ SaveFails
  BY <1>3 DEF Tick, NothingNew, QueryFails, SaveCursor, SaveFails
<1>4. CASE RefreshDuel
  BY <1>4 DEF RefreshDuel, Upsert, Fetch, FetchFails
<1>5. CASE ApplyOutcomes
  BY <1>5, PhaseForms DEF ApplyOutcomes, SkipRating, SetWinner, RateFirst, RateSecond, TickDone, TInv, Place
<1>6. CASE Restart \/ RecomputeRatings
  BY <1>6 DEF Restart, RecomputeRatings
<1>7. CASE UNCHANGED vars
  BY <1>7 DEF vars
<1> QED BY <1>1, <1>2, <1>3, <1>4, <1>5, <1>6, <1>7 DEF Next

\* A decided duel never changes, and neither do the finalizations already logged.
LEMMA DecidedStays ==
    ASSUME TInv, DInv, [Next]_vars
    PROVE  /\ \A d \in Duel : chain[d].winner # "none" => chain'[d] = chain[d]
           /\ DOMAIN FinalLog = 1..Len(FinalLog) /\ Len(FinalLog) \in Nat
           /\ DOMAIN FinalLog \subseteq DOMAIN FinalLog'
           /\ \A k \in DOMAIN FinalLog : FinalLog[k] \in Duel /\ FinalLog'[k] = FinalLog[k]
<1>0. ChainType /\ LogType /\ FinalLog \in Seq(Duel)
  BY TypeParts DEF TInv, LogType, FinalLog, Tracker
<1>1. CASE UNCHANGED chainVars
  BY <1>0, <1>1 DEF chainVars, FinalLog
<1>2. CASE ChainMoves
  <2>1. PICK d \in Duel, t \in Tracker, to \in Status, w \in Winner \cup {"none"} :
           /\ chain[d].status # "complete"
           /\ chain' = [chain EXCEPT ![d] = [status |-> to, winner |-> w]]
           /\ log' = [log EXCEPT ![t] = Append(@, d)]
    BY <1>2, ChainStep
  <2>2. \A e \in Duel : chain[e].winner # "none" => chain'[e] = chain[e]
    BY <1>0, <2>1 DEF ChainType, DInv, ResultFinal
  <2>3. "finalized" \in Tracker
    BY DEF Tracker
  <2>4. LogType' /\ Len(FinalLog) <= Len(FinalLog') /\ \A k \in 1..Len(FinalLog) : FinalLog'[k] = FinalLog[k]
    BY <1>0, <2>1, <2>3, LogGrows DEF FinalLog
  <2>5. FinalLog' \in Seq(Duel)
    BY <2>3, <2>4 DEF LogType, FinalLog
  <2> QED BY <1>0, <2>2, <2>4, <2>5
<1> QED BY <1>1, <1>2, FaultsAndChain

LEMMA InitDInv == Init => DInv
BY DEF Init, DInv, ResultFinal, LogDecided, LogOnce, FinDecided, FinalLog, Tracker

LEMMA NextDInv == TInv /\ DInv /\ [Next]_vars => DInv'
<1> SUFFICES ASSUME TInv, DInv, [Next]_vars PROVE DInv'
  OBVIOUS
<1>0. ChainType /\ LogType /\ FinalLog \in Seq(Duel) /\ ResultType
  BY TypeParts DEF TInv, LogType, FinalLog, Tracker
<1>1. ResultFinal' /\ LogDecided' /\ LogOnce'
  <2>1. CASE UNCHANGED chainVars
    BY <2>1 DEF chainVars, DInv, ResultFinal, LogDecided, LogOnce, FinalLog
  <2>2. CASE ChainMoves
    <3>1. PICK d \in Duel, t \in Tracker, to \in Status, w \in Winner \cup {"none"} :
             /\ chain[d].status # "complete"
             /\ chain' = [chain EXCEPT ![d] = [status |-> to, winner |-> w]]
             /\ log' = [log EXCEPT ![t] = Append(@, d)]
             /\ t = "finalized" <=> w # "none"
             /\ w # "none" => to = "complete"
      BY <2>2, ChainStep
    <3>2. ResultFinal'
      BY <1>0, <3>1 DEF ChainType, DInv, ResultFinal
    <3>3. \A k \in DOMAIN FinalLog : FinalLog[k] # d
      BY <3>1 DEF DInv, ResultFinal, LogDecided
    <3>4. CASE t = "finalized"
      <4>1. FinalLog' = Append(FinalLog, d) /\ chain'[d].winner # "none"
        BY <1>0, <3>1, <3>4 DEF FinalLog, LogType, ChainType
      <4>2. /\ DOMAIN FinalLog' = DOMAIN FinalLog \cup {Len(FinalLog) + 1}
            /\ FinalLog'[Len(FinalLog) + 1] = d
            /\ \A k \in DOMAIN FinalLog : FinalLog'[k] = FinalLog[k] /\ FinalLog[k] \in Duel
        BY <1>0, <4>1, QueueFacts
      <4>3. LogDecided'
        BY <4>1, <4>2, DecidedStays DEF DInv, LogDecided
      <4>4. LogOnce'
        BY <4>2, <3>3 DEF DInv, LogOnce
      <4> QED BY <3>2, <4>3, <4>4
    <3>5. CASE t # "finalized"
      <4>1. FinalLog' = FinalLog
        BY <1>0, <3>1, <3>5 DEF FinalLog, LogType, Tracker
      <4> QED BY <3>2, <4>1, DecidedStays DEF DInv, LogDecided, LogOnce
    <3> QED BY <3>4, <3>5
  <2> QED BY <2>1, <2>2, FaultsAndChain
<1>2. FinDecided'
  <2>0. \A i \in DOMAIN fin : fin[i].duel \in Duel
    BY <1>0, FinEntries
  <2>1. CASE fin' = fin
    BY <2>0, <2>1, DecidedStays DEF DInv, FinDecided
  <2>2. CASE fin' = <<>>
    BY <2>2 DEF FinDecided
  <2>3. CASE fin # <<>> /\ fin' = Tail(fin)
    <3>1. \A i \in DOMAIN fin' : i + 1 \in DOMAIN fin /\ fin'[i] = fin[i + 1]
      BY <1>0, <2>3, QueueFacts DEF ResultType
    <3> QED BY <2>0, <3>1, DecidedStays DEF DInv, FinDecided
  <2>4. ASSUME NEW p \in Status, Queues(p) PROVE FinDecided'
    <3> DEFINE d == FinalLog[pos + 1]
    <3>0. pos + 1 \in DOMAIN FinalLog /\ fin' = Append(fin, [duel |-> d, players |-> p])
      BY <2>4 DEF Queues
    <3>1. d \in Duel /\ chain[d].winner # "none"
      BY <1>0, <3>0, DecidedStays DEF DInv, LogDecided
    <3>2. /\ DOMAIN fin' = DOMAIN fin \cup {Len(fin) + 1}
          /\ fin'[Len(fin) + 1].duel = d
          /\ \A i \in DOMAIN fin : fin'[i] = fin[i]
      BY <1>0, <3>0, <3>1, QueueFacts DEF ResultType
    <3> QED BY <2>0, <3>1, <3>2, DecidedStays DEF DInv, FinDecided
  <2> QED BY <2>1, <2>2, <2>3, <2>4, FinStep
<1> QED BY <1>1, <1>2 DEF DInv

-----------------------------------------------------------------------------
(* The mirror catches up.                                                  *)
(*                                                                         *)
(* A row that differs from the chain has somebody who will write it: an    *)
(* event not taken yet, an entry of touched, or the refresh under way.     *)
(* The duel of an outcome is still to be refreshed or shows as finished,   *)
(* so a winner is only ever written beside a finished duel.                *)

Unread(d) == \E t \in Tracker : \E i \in DOMAIN log[t] : cursor[t] < i /\ log[t][i] = d
Fresh(d) ==
    \/ d \in touched \/ row[d] = "complete"
    \/ at.do = "upsert" /\ at.duel = d /\ at.saw = "complete"

Noticed ==
    Without({"refresh", "crash"}) => \A d \in Duel :
        \/ row[d] = chain[d].status \/ Unread(d) \/ d \in touched
        \/ at.do = "upsert" /\ at.duel = d /\ at.saw = chain[d].status
FinRefreshed == Without({"refresh"}) => \A i \in DOMAIN fin : Fresh(fin[i].duel)
WinnerShown ==
    \A d \in Duel : rowWinner[d] # "none" =>
        /\ rowWinner[d] = chain[d].winner
        /\ Without({"refresh"}) => row[d] = "complete"

MInv == Noticed /\ FinRefreshed /\ WinnerShown
BaseInv == IInv /\ TInv /\ DInv

LEMMA UptoBoth == \A a, b \in Status : Upto(a, b) /\ Upto(b, a) => a = b
BY DEF Upto, Later, Status

LEMMA FaultKnown ==
    ASSUME TInv, NEW kind, Fault(kind)
    PROVE  kind \in faults'
BY DEF Fault

LEMMA CleanBefore ==
    ASSUME TInv, [Next]_vars, NEW kinds, Without(kinds)'
    PROVE  Without(kinds)
BY FaultsAndChain DEF Without

LEMMA InitMInv == Init => MInv
BY DEF Init, MInv, Noticed, FinRefreshed, WinnerShown

\* Only a page taken hides an event, and its duel is then touched.
LEMMA UnreadStays ==
    ASSUME TInv, [Next]_vars, NEW d \in Duel, Unread(d), "crash" \notin faults'
    PROVE  Unread(d)' \/ d \in touched'
<1>0. LogType /\ CursorType
  BY TypeParts DEF TInv
<1>1. PICK t \in Tracker : \E i \in DOMAIN log[t] : cursor[t] < i /\ log[t][i] = d
  BY DEF Unread
<1>2. PICK i \in DOMAIN log[t] : cursor[t] < i /\ log[t][i] = d
  BY <1>1
<1>3. CASE ChainMoves
  <2>1. PICK e \in Duel, u \in Tracker : log' = [log EXCEPT ![u] = Append(@, e)] /\ UNCHANGED dbVars
    BY <1>3, ChainStep
  <2>2. Len(log[t]) \in Nat /\ Len(log'[t]) \in Nat /\ Len(log[t]) <= Len(log'[t]) /\ log'[t][i] = log[t][i] /\ i \in 1..Len(log[t])
    BY <1>0, <1>2, <2>1, LogGrows DEF LogType
  <2>3. i \in DOMAIN log'[t]
    BY <1>0, <2>1, <2>2, LogGrows DEF LogType
  <2> QED BY <1>2, <2>1, <2>2, <2>3 DEF Unread, dbVars
<1>4. CASE SaveCursor
  <2> DEFINE u == Trackers[at.n]
  <2>1. UNCHANGED <<log, touched>> /\ cursor' = [cursor EXCEPT ![u] = pos + 1]
    BY <1>4 DEF SaveCursor, EndCursor, chainVars
  <2>2. pos = cursor[u] /\ log[u][pos + 1] \in touched /\ u \in Tracker /\ pos \in Nat
    BY <1>4, Standing, TypeParts DEF SaveCursor, TInv, PhaseType
  <2>3. i \in Nat
    BY <1>0, <1>2 DEF LogType
  <2>4. CASE t = u /\ i = pos + 1
    BY <1>2, <2>1, <2>2, <2>4
  <2>5. CASE t # u \/ i # pos + 1
    <3>1. cursor'[t] < i
      BY <1>0, <1>2, <2>1, <2>2, <2>3, <2>5 DEF CursorType
    <3> QED BY <1>2, <2>1, <3>1 DEF Unread
  <2> QED BY <2>4, <2>5
<1>5. CASE Restart
  BY <1>5, FaultKnown DEF Restart
<1>6. CASE ~(ChainMoves \/ SaveCursor \/ Restart)
  <2>1. UNCHANGED <<log, cursor>>
    BY <1>6 DEF Next, Tick, Page, NothingNew, QueryFails, SaveFails, RefreshDuel, Upsert, Fetch, FetchFails, ApplyOutcomes, SkipRating, SetWinner, RateFirst, RateSecond, TickDone, RecomputeRatings, chainVars, dbVars, vars
  <2> QED BY <1>2, <2>1 DEF Unread
<1> QED BY <1>3, <1>4, <1>5, <1>6

LEMMA NextNoticed ==
    ASSUME BaseInv, Noticed, [Next]_vars
    PROVE  Noticed'
<1> SUFFICES ASSUME Without({"refresh", "crash"})', NEW d \in Duel
             PROVE  \/ row'[d] = chain'[d].status \/ Unread(d)' \/ d \in touched'
                    \/ at'.do = "upsert" /\ at'.duel = d /\ at'.saw = chain'[d].status
  BY DEF Noticed
<1>0. TInv /\ ChainType /\ LogType /\ CursorType /\ DisplayType
  BY TypeParts DEF BaseInv, TInv
<1>1. \/ row[d] = chain[d].status \/ Unread(d) \/ d \in touched
      \/ at.do = "upsert" /\ at.duel = d /\ at.saw = chain[d].status
  BY <1>0, CleanBefore DEF Noticed
<1>2. "refresh" \notin faults' /\ "crash" \notin faults'
  BY DEF Without
<1>3. Unread(d) => Unread(d)' \/ d \in touched'
  BY <1>0, <1>2, UnreadStays
<1>4. CASE ChainMoves
  <2>1. PICK e \in Duel, t \in Tracker, to \in Status, w \in Winner \cup {"none"} :
           /\ chain' = [chain EXCEPT ![e] = [status |-> to, winner |-> w]]
           /\ log' = [log EXCEPT ![t] = Append(@, e)]
           /\ UNCHANGED <<dbVars, at, pos, pages, touched, fin, faults>>
    BY <1>4, ChainStep
  <2>2. CASE d = e
    <3>1. Len(log[t]) \in Nat /\ DOMAIN log'[t] = DOMAIN log[t] \cup {Len(log[t]) + 1} /\ log'[t][Len(log[t]) + 1] = d
      BY <1>0, <2>1, <2>2, LogGrows, QueueFacts DEF LogType
    <3>2. cursor'[t] < Len(log[t]) + 1
      BY <1>0, <2>1, <3>1 DEF dbVars, CursorType
    <3> QED BY <3>1, <3>2 DEF Unread
  <2>3. CASE d # e
    <3>1. chain'[d] = chain[d] /\ row' = row /\ touched' = touched /\ at' = at
      BY <1>0, <2>1, <2>3 DEF dbVars, ChainType
    <3> QED BY <1>1, <1>3, <3>1
  <2> QED BY <2>2, <2>3
<1>5. CASE Tick \/ Page \/ NothingNew \/ QueryFails \/ SaveCursor \/ SaveFails
  <2>1. UNCHANGED <<chain, row>> /\ at.do # "upsert" /\ touched \subseteq touched'
    BY <1>0, <1>5, Standing, PhaseForms DEF Tick, Page, Touch, NothingNew, QueryFails, SaveCursor, SaveFails, chainVars, dbVars, TInv, Place
  <2> QED BY <1>1, <1>3, <2>1
<1>6. CASE RefreshDuel
  <2>1. CASE Upsert
    <3>1. /\ at.do = "upsert" /\ row' = [row EXCEPT ![at.duel] = at.saw]
          /\ UNCHANGED <<chain, touched>> /\ at.duel \in Duel /\ at.saw \in Status
      BY <1>0, <1>2, <2>1, FaultKnown, Standing DEF Upsert, chainVars
    <3>2. CASE d = at.duel /\ row[d] = chain[d].status
      BY <1>0, <3>1, <3>2, UptoBoth DEF BaseInv, IInv, SeenBetween, DisplayType
    <3>3. CASE d # at.duel \/ row[d] # chain[d].status
      BY <1>0, <1>1, <1>3, <3>1, <3>3 DEF DisplayType
    <3> QED BY <3>2, <3>3
  <2>2. ASSUME NEW e \in Duel, Fetch(e)
        PROVE  \/ row'[d] = chain'[d].status \/ Unread(d)' \/ d \in touched'
               \/ at'.do = "upsert" /\ at'.duel = d /\ at'.saw = chain'[d].status
    <3>1. /\ at.do = "refresh" /\ UNCHANGED <<chain, row>> /\ touched' = touched \ {e}
          /\ at' = [do |-> "upsert", duel |-> e, saw |-> chain[e].status]
      BY <2>2, PhaseForms DEF Fetch, chainVars, dbVars
    <3> QED BY <1>1, <1>3, <3>1
  <2>3. ASSUME NEW e \in Duel, FetchFails(e) PROVE FALSE
    BY <1>0, <1>2, <2>3, FaultKnown DEF FetchFails
  <2> QED BY <1>6, <2>1, <2>2, <2>3 DEF RefreshDuel
<1>7. CASE ApplyOutcomes
  <2>1. UNCHANGED <<chain, row, touched>> /\ at.do # "upsert"
    BY <1>7, PhaseForms DEF ApplyOutcomes, SkipRating, SetWinner, RateFirst, RateSecond, TickDone, chainVars, dbVars
  <2> QED BY <1>1, <1>3, <2>1
<1>8. CASE Restart
  BY <1>0, <1>2, <1>8, FaultKnown DEF Restart
<1>9. CASE RecomputeRatings \/ UNCHANGED vars
  <2>1. UNCHANGED <<chain, row, touched, at>>
    BY <1>9 DEF RecomputeRatings, vars, chainVars, dbVars
  <2> QED BY <1>1, <1>3, <2>1
<1> QED BY <1>4, <1>5, <1>6, <1>7, <1>8, <1>9 DEF Next

\* The duel of an outcome stays fresh until the refreshes are done, unless one
\* of them fails or the outcomes are dropped.
LEMMA FreshStays ==
    ASSUME BaseInv, [Next]_vars, NEW d \in Duel, Fresh(d), chain[d].winner # "none",
           "refresh" \notin faults', fin # <<>>
    PROVE  Fresh(d)' \/ fin' = <<>>
<1>0. TInv /\ ChainType /\ DisplayType
  BY TypeParts DEF BaseInv, TInv
<1>1. row[d] = "complete" => row'[d] = "complete"
  <2>1. row'[d] \in Status /\ RowKept
    BY NextIInv DEF BaseInv, IInv, RowType
  <2> QED BY <2>1 DEF RowKept, Later, Status
<1>2. CASE ChainMoves
  BY <1>2, ChainStep DEF Fresh, dbVars
<1>3. CASE Tick \/ Page \/ NothingNew \/ QueryFails \/ SaveCursor \/ SaveFails
  <2>1. at.do # "upsert" /\ touched \subseteq touched'
    BY <1>0, <1>3, PhaseForms DEF Tick, Page, Touch, NothingNew, QueryFails, SaveCursor, SaveFails, TInv, Place
  <2> QED BY <1>1, <2>1 DEF Fresh
<1>4. CASE RefreshDuel
  <2>1. CASE Upsert
    <3>1. row' = [row EXCEPT ![at.duel] = at.saw] /\ UNCHANGED touched /\ at.duel \in Duel
      BY <1>0, <2>1, FaultKnown, Standing DEF Upsert
    <3> QED BY <1>0, <1>1, <3>1 DEF Fresh, DisplayType
  <2>2. ASSUME NEW e \in Duel, Fetch(e) PROVE Fresh(d)'
    <3>1. /\ at.do = "refresh" /\ touched' = touched \ {e}
          /\ at' = [do |-> "upsert", duel |-> e, saw |-> chain[e].status]
      BY <2>2, PhaseForms DEF Fetch
    <3>2. chain[d].status = "complete"
      BY DEF BaseInv, DInv, ResultFinal
    <3> QED BY <1>1, <3>1, <3>2 DEF Fresh
  <2>3. ASSUME NEW e \in Duel, FetchFails(e) PROVE FALSE
    BY <1>0, <2>3, FaultKnown DEF FetchFails
  <2> QED BY <1>4, <2>1, <2>2, <2>3 DEF RefreshDuel
<1>5. CASE ApplyOutcomes
  <2>1. UNCHANGED touched /\ at.do # "upsert"
    BY <1>5, PhaseForms DEF ApplyOutcomes, SkipRating, SetWinner, RateFirst, RateSecond, TickDone
  <2> QED BY <1>1, <2>1 DEF Fresh
<1>6. CASE Restart
  BY <1>6 DEF Restart
<1>7. CASE RecomputeRatings \/ UNCHANGED vars
  BY <1>7 DEF RecomputeRatings, vars, dbVars, Fresh
<1> QED BY <1>2, <1>3, <1>4, <1>5, <1>6, <1>7 DEF Next

LEMMA NextFinRefreshed ==
    ASSUME BaseInv, FinRefreshed, [Next]_vars
    PROVE  FinRefreshed'
<1> SUFFICES ASSUME Without({"refresh"})', NEW i \in DOMAIN fin', NEW e, e = fin'[i].duel
             PROVE  Fresh(e)'
  BY DEF FinRefreshed, Fresh
<1>0. TInv /\ ResultType
  BY TypeParts DEF BaseInv, TInv
<1>1. "refresh" \notin faults' /\ \A j \in DOMAIN fin : Fresh(fin[j].duel)
  BY <1>0, CleanBefore DEF FinRefreshed, Without
<1>2. ASSUME NEW j \in DOMAIN fin, fin'[i] = fin[j] PROVE Fresh(e)'
  <2>1. fin # <<>> /\ e \in Duel /\ e = fin[j].duel /\ chain[e].winner # "none"
    BY <1>0, <1>2, FinEntries, QueueFacts DEF ResultType, BaseInv, DInv, FinDecided
  <2>2. fin' # <<>>
    OBVIOUS
  <2> QED BY <1>1, <1>2, <2>1, <2>2, FreshStays
<1>3. CASE fin' = fin
  BY <1>2, <1>3
<1>4. CASE fin' = <<>>
  BY <1>4
<1>5. CASE fin # <<>> /\ fin' = Tail(fin)
  BY <1>0, <1>2, <1>5, QueueFacts DEF ResultType
<1>6. ASSUME NEW p \in Status, Queues(p) PROVE Fresh(e)'
  <2> DEFINE d == FinalLog[pos + 1]
  <2>0. /\ Page /\ at.n = 3 /\ pos + 1 \in DOMAIN FinalLog
        /\ fin' = Append(fin, [duel |-> d, players |-> p])
    BY <1>6 DEF Queues
  <2>1. d \in Duel
    BY <2>0, DecidedStays DEF BaseInv
  <2>2. /\ DOMAIN fin' = DOMAIN fin \cup {Len(fin) + 1}
        /\ fin'[Len(fin) + 1].duel = d
        /\ \A j \in DOMAIN fin : fin'[j] = fin[j]
    BY <1>0, <2>0, <2>1, QueueFacts DEF ResultType
  <2>3. d \in touched'
    <3>1. Trackers[at.n] = "finalized"
      BY <2>0, TrackerOrder
    <3> QED BY <2>0, <3>1 DEF Page, Touch, FinalLog
  <2> QED BY <1>2, <2>2, <2>3 DEF Fresh
<1> QED BY <1>0, <1>3, <1>4, <1>5, <1>6, FinStep

LEMMA NextWinnerShown ==
    ASSUME BaseInv, FinRefreshed, WinnerShown, [Next]_vars
    PROVE  WinnerShown'
<1> SUFFICES ASSUME NEW d \in Duel, rowWinner'[d] # "none"
             PROVE  /\ rowWinner'[d] = chain'[d].winner
                    /\ Without({"refresh"})' => row'[d] = "complete"
  BY DEF WinnerShown
<1>0. TInv /\ ChainType /\ DisplayType /\ ResultType
  BY TypeParts DEF BaseInv, TInv
<1>1. Without({"refresh"})' => Without({"refresh"})
  BY <1>0, CleanBefore
<1>2. row[d] = "complete" => row'[d] = "complete"
  <2>1. row'[d] \in Status /\ RowKept
    BY NextIInv DEF BaseInv, IInv, RowType
  <2> QED BY <2>1 DEF RowKept, Later, Status
<1>3. CASE rowWinner'[d] = rowWinner[d]
  <2>1. chain'[d] = chain[d]
    BY <1>0, <1>3, DecidedStays DEF BaseInv, WinnerShown
  <2> QED BY <1>1, <1>2, <1>3, <2>1 DEF WinnerShown
<1>4. CASE rowWinner'[d] # rowWinner[d]
  <2>1. SetWinner
    BY <1>4, ChainStep DEF Next, Tick, Page, NothingNew, QueryFails, SaveCursor, SaveFails, RefreshDuel, Upsert, Fetch, FetchFails, ApplyOutcomes, SkipRating, RateFirst, RateSecond, TickDone, Restart, RecomputeRatings, dbVars, vars
  <2>2. /\ at.do = "refresh" /\ touched = {} /\ fin # <<>> /\ d = Head(fin).duel
        /\ rowWinner'[d] = chain[d].winner /\ UNCHANGED <<chain, row>>
    BY <1>0, <1>4, <2>1, Standing, PhaseForms DEF SetWinner, Refreshed, chainVars, DisplayType
  <2>3. Without({"refresh"}) => Fresh(d)
    BY <1>0, <2>2, Standing DEF FinRefreshed
  <2> QED BY <1>1, <2>2, <2>3 DEF Fresh
<1> QED BY <1>3, <1>4

LEMMA NextBase == BaseInv /\ [Next]_vars => BaseInv'
BY NextIInv, NextTInv, NextDInv DEF BaseInv

LEMMA NextMInv == BaseInv /\ MInv /\ [Next]_vars => MInv'
BY NextNoticed, NextFinRefreshed, NextWinnerShown DEF MInv

\* Whenever a tick has left no event behind, the mirror shows every duel as it
\* is on chain, although rows are read and written while the chain moves; and a
\* winner is shown on a finished duel only, and is the one on chain.
THEOREM MirrorCatchesUp == Spec => []MirrorCaughtUp
<1>1. BaseInv /\ MInv => MirrorCaughtUp
  <2> SUFFICES ASSUME BaseInv, MInv PROVE MirrorCaughtUp
    OBVIOUS
  <2>1. ASSUME Without({"refresh", "crash"}), CaughtUp, NEW d \in Duel
        PROVE  row[d] = chain[d].status
    <3>1. touched = {} /\ at.do = "idle" /\ LogType
      BY <2>1, PhaseForms, TypeParts DEF CaughtUp, BaseInv, TInv, Place
    <3>2. ~Unread(d)
      BY <2>1, <3>1 DEF Unread, CaughtUp, LogType
    <3> QED BY <2>1, <3>1, <3>2 DEF MInv, Noticed
  <2> QED BY <2>1 DEF MInv, WinnerShown, MirrorCaughtUp
<1>2. Init => BaseInv /\ MInv
  BY InitIInv, InitTInv, InitDInv, InitMInv DEF BaseInv
<1> QED BY <1>1, <1>2, NextBase, NextMInv, PTL DEF Spec

-----------------------------------------------------------------------------
(* Ratings.                                                                *)
(*                                                                         *)
(* While every cursor write succeeds, an outcome is in one place only: in  *)
(* the log ahead of the cursor, in the queue, or in the ratings.           *)

\* Finalizations whose page was processed, its cursor written or not.
TakenUpto == IF at.do = "save" /\ at.n = 3 THEN pos + 1 ELSE cursor["finalized"]

RatedDecided ==
    Without({"backfill"}) =>
        \A d \in Duel, s \in Side : rated[d][s] > 0 => chain[d].winner # "none"
FinTaken ==
    Without({"save"}) =>
        /\ \A i, j \in DOMAIN fin : fin[i].duel = fin[j].duel => i = j
        /\ \A i \in DOMAIN fin : \E k \in DOMAIN FinalLog :
              k <= TakenUpto /\ FinalLog[k] = fin[i].duel
RatedTaken ==
    Without({"save", "backfill"}) =>
        \A d \in Duel, s \in Side :
            /\ rated[d][s] <= 1
            /\ rated[d][s] > 0 =>
                  /\ \E k \in DOMAIN FinalLog : k <= cursor["finalized"] /\ FinalLog[k] = d
                  /\ \A i \in DOMAIN fin :
                        fin[i].duel = d => at.do = "rate2" /\ i = 1 /\ s = "p0"
HalfRated == at.do = "rate2" => rated[fin[1].duel]["p0"] > 0

RInv == RatedDecided /\ FinTaken /\ RatedTaken /\ HalfRated

LEMMA InitRInv == Init => RInv
BY DEF Init, RInv, RatedDecided, FinTaken, RatedTaken, HalfRated, Idle

\* The ratings move only when an outcome is applied or they are rebuilt.
LEMMA RatedStep ==
    ASSUME TInv, [Next]_vars
    PROVE  \/ UNCHANGED rated \/ "backfill" \in faults'
           \/ /\ at.do = "rate" /\ at'.do = "rate2" /\ UNCHANGED <<fin, cursor, log>>
              /\ rated' = [rated EXCEPT ![fin[1].duel]["p0"] = @ + 1]
           \/ /\ at.do = "rate2" /\ at'.do = "refresh" /\ fin' = Tail(fin) /\ UNCHANGED <<cursor, log>>
              /\ rated' = [rated EXCEPT ![fin[1].duel]["p1"] = @ + 1]
<1>1. CASE ChainMoves
  BY <1>1, ChainStep DEF dbVars
<1>2. CASE RateFirst
  <2>1. at.do = "rate" /\ Head(fin) = fin[1]
    BY <1>2, Standing DEF RateFirst, TInv, Place
  <2> QED BY <1>2, <2>1 DEF RateFirst, chainVars
<1>3. CASE RateSecond
  <2>1. at.do = "rate2" /\ Head(fin) = fin[1]
    BY <1>3, Standing DEF RateSecond, TInv, Place
  <2> QED BY <1>3, <2>1, PhaseForms DEF RateSecond, chainVars
<1>4. CASE RecomputeRatings
  BY <1>4, FaultKnown DEF RecomputeRatings
<1>5. CASE ~(ChainMoves \/ RateFirst \/ RateSecond \/ RecomputeRatings)
  BY <1>5 DEF Next, Tick, Page, NothingNew, QueryFails, SaveCursor, SaveFails, RefreshDuel, Upsert, Fetch, FetchFails, ApplyOutcomes, SkipRating, SetWinner, TickDone, Restart, dbVars, vars
<1> QED BY <1>1, <1>2, <1>3, <1>4, <1>5

LEMMA NextRatedDecided ==
    ASSUME BaseInv, RatedDecided, [Next]_vars
    PROVE  RatedDecided'
<1> SUFFICES ASSUME Without({"backfill"})', NEW d \in Duel, NEW s \in Side, rated'[d][s] > 0
             PROVE  chain'[d].winner # "none"
  BY DEF RatedDecided
<1>0. TInv /\ RatedType /\ ResultType /\ "backfill" \notin faults'
  BY TypeParts DEF BaseInv, TInv, Without
<1>1. CASE rated'[d][s] = rated[d][s]
  BY <1>0, <1>1, CleanBefore, DecidedStays DEF BaseInv, RatedDecided
<1>2. CASE rated'[d][s] # rated[d][s]
  <2>1. at.do \in {"rate", "rate2"} /\ d = fin[1].duel
    BY <1>0, <1>2, RatedStep DEF RatedType
  <2>2. chain[d].winner # "none"
    BY <1>0, <2>1, Standing DEF TInv, Place, BaseInv, DInv, FinDecided
  <2> QED BY <2>2, DecidedStays DEF BaseInv
<1> QED BY <1>1, <1>2

\* No page is given back once taken, except by a failed cursor write.
LEMMA TakenGrows ==
    ASSUME TInv, [Next]_vars, "save" \notin faults', fin' # <<>>
    PROVE  /\ TakenUpto \in Nat /\ TakenUpto' \in Nat /\ TakenUpto <= TakenUpto'
           /\ Page /\ at.n = 3 => TakenUpto = pos /\ TakenUpto' = pos + 1
<1>0. CursorType /\ CursorType' /\ PhaseType /\ PhaseType' /\ TInv'
  BY NextTInv, TypeParts DEF TInv
<1>1. /\ cursor["finalized"] \in Nat /\ cursor'["finalized"] \in Nat /\ "finalized" \in Tracker
      /\ TakenUpto \in Nat /\ TakenUpto' \in Nat /\ pos \in Nat
  <2>1. "finalized" \in Tracker
    BY DEF Tracker
  <2>2. cursor["finalized"] \in Nat /\ cursor'["finalized"] \in Nat /\ pos \in Nat /\ pos' \in Nat
    BY <1>0, <2>1 DEF CursorType, PhaseType
  <2>3. TakenUpto = pos + 1 \/ TakenUpto = cursor["finalized"]
    BY DEF TakenUpto
  <2>4. TakenUpto' = pos' + 1 \/ TakenUpto' = cursor'["finalized"]
    BY DEF TakenUpto
  <2> QED BY <2>1, <2>2, <2>3, <2>4
<1>2. CASE ChainMoves
  <2>1. UNCHANGED <<at, pos, cursor>>
    BY <1>2, ChainStep DEF dbVars
  <2> QED BY <1>1, <1>2, <2>1, ChainStep DEF TakenUpto, Page
<1>3. CASE Page
  <2>1. /\ at.do = "drain" /\ at'.do = "save" /\ at'.n = at.n /\ UNCHANGED <<pos, cursor>>
        /\ at.n = 3 => pos = cursor["finalized"]
    BY <1>3, Standing, TrackerOrder DEF Page, dbVars
  <2> QED BY <1>1, <2>1 DEF TakenUpto
<1>4. CASE SaveCursor
  <2>1. at.do = "save" /\ at.n \in 1..4 /\ cursor' = [cursor EXCEPT ![Trackers[at.n]] = pos + 1] /\ at'.do # "save"
    BY <1>0, <1>4, Standing, NextTrackerKeeps, PhaseForms DEF SaveCursor, EndCursor, CursorType
  <2>2. TakenUpto' = cursor'["finalized"]
    BY <2>1 DEF TakenUpto
  <2>3. CASE at.n = 3
    <3>1. Trackers[at.n] = "finalized" /\ TakenUpto = pos + 1
      BY <2>1, <2>3, TrackerOrder DEF TakenUpto
    <3>2. cursor'["finalized"] = pos + 1
      BY <1>0, <1>1, <2>1, <3>1 DEF CursorType
    <3>3. ~Page
      BY <2>1 DEF Page
    <3> QED BY <1>1, <2>2, <3>1, <3>2, <3>3
  <2>4. CASE at.n # 3
    BY <1>0, <1>1, <2>1, <2>2, <2>4, TrackerOrder DEF TakenUpto, CursorType
  <2> QED BY <1>1, <2>1, <2>3, <2>4 DEF Page
<1>5. CASE SaveFails
  BY <1>5, FaultKnown DEF SaveFails
<1>6. CASE Tick \/ Restart
  BY <1>6 DEF Tick, Restart
<1>7. CASE NothingNew \/ QueryFails \/ RefreshDuel \/ ApplyOutcomes \/ RecomputeRatings
  <2>1. UNCHANGED cursor /\ at.do # "save"
    BY <1>7, PhaseForms DEF NothingNew, QueryFails, RefreshDuel, Upsert, Fetch, FetchFails, ApplyOutcomes, SkipRating, SetWinner, RateFirst, RateSecond, TickDone, RecomputeRatings, dbVars
  <2>2. at'.do # "save"
    <3>1. CASE NothingNew \/ QueryFails
      BY <1>0, <3>1, <2>1, Standing, NextTrackerKeeps DEF NothingNew, QueryFails, dbVars
    <3>2. CASE ~(NothingNew \/ QueryFails)
      BY <1>7, <3>2, PhaseForms DEF RefreshDuel, Upsert, Fetch, FetchFails, ApplyOutcomes, SkipRating, SetWinner, RateFirst, RateSecond, TickDone, RecomputeRatings
    <3> QED BY <3>1, <3>2
  <2>3. TakenUpto' = TakenUpto
    BY <2>1, <2>2 DEF TakenUpto
  <2>4. CASE Page
    BY <1>3, <2>4
  <2> QED BY <1>1, <2>3, <2>4
<1>8. CASE UNCHANGED vars
  <2>1. TakenUpto' = TakenUpto /\ ~Page
    <3>1. UNCHANGED <<at, pos, cursor>>
      BY <1>8 DEF vars, dbVars
    <3> QED BY <3>1, Standing DEF TakenUpto, Page
  <2> QED BY <1>1, <2>1
<1> QED BY <1>2, <1>3, <1>4, <1>5, <1>6, <1>7, <1>8 DEF Next

\* Cursors only move on.
LEMMA CursorGrows ==
    ASSUME TInv, [Next]_vars
    PROVE  /\ cursor["finalized"] \in Nat /\ cursor'["finalized"] \in Nat
           /\ cursor["finalized"] <= cursor'["finalized"]
<1>0. CursorType /\ CursorType' /\ PhaseType /\ LogType /\ "finalized" \in Tracker
  BY NextTInv, TypeParts DEF TInv, Tracker
<1>1. cursor["finalized"] \in Nat /\ cursor'["finalized"] \in Nat
  BY <1>0 DEF CursorType
<1>2. CASE SaveCursor
  <2>1. Trackers[at.n] \in Tracker /\ pos = cursor[Trackers[at.n]] /\ cursor' = [cursor EXCEPT ![Trackers[at.n]] = pos + 1]
    BY <1>2, Standing DEF SaveCursor, EndCursor
  <2> QED BY <1>0, <1>1, <2>1 DEF CursorType
<1>3. CASE Restart
  <2>1. PICK seeded \in SUBSET Tracker :
           cursor' = [t \in Tracker |-> IF t \in seeded THEN Len(log[t]) ELSE cursor[t]]
    BY <1>3 DEF Restart
  <2> QED BY <1>0, <1>1, <2>1 DEF CursorType
<1>4. CASE ~(SaveCursor \/ Restart)
  <2>1. UNCHANGED cursor
    BY <1>4, ChainStep DEF Next, Tick, Page, NothingNew, QueryFails, SaveFails, RefreshDuel, Upsert, Fetch, FetchFails, ApplyOutcomes, SkipRating, SetWinner, RateFirst, RateSecond, TickDone, RecomputeRatings, dbVars, vars
  <2> QED BY <1>1, <2>1
<1> QED BY <1>2, <1>3, <1>4

\* Between the two writes of an outcome nothing takes it from the queue but
\* the second write and a restart.
LEMMA KeepsRating ==
    ASSUME TInv, [Next]_vars, at.do = "rate2"
    PROVE  \/ UNCHANGED <<at, fin, rated>>
           \/ RateSecond /\ fin' = Tail(fin) /\ at' = Refreshing
           \/ Restart /\ fin' = <<>> /\ at' = Idle
<1>1. ~(Tick \/ Page \/ NothingNew \/ QueryFails \/ SaveCursor \/ SaveFails)
  BY PhaseForms DEF Tick, Page, NothingNew, QueryFails, SaveCursor, SaveFails
<1>2. ~(RefreshDuel \/ SkipRating \/ SetWinner \/ RateFirst \/ TickDone \/ RecomputeRatings)
  BY PhaseForms DEF RefreshDuel, Upsert, Fetch, FetchFails, SkipRating, SetWinner, RateFirst, TickDone, RecomputeRatings
<1>3. RateSecond => fin' = Tail(fin) /\ at' = Refreshing
  BY DEF RateSecond
<1>4. Restart => fin' = <<>> /\ at' = Idle
  BY DEF Restart
<1>5. ChainMoves \/ UNCHANGED vars => UNCHANGED <<at, fin, rated>>
  BY ChainStep DEF vars, dbVars
<1> QED BY <1>1, <1>2, <1>3, <1>4, <1>5 DEF Next, ApplyOutcomes

LEMMA NextFinTaken ==
    ASSUME BaseInv, FinTaken, [Next]_vars
    PROVE  FinTaken'
<1> SUFFICES ASSUME Without({"save"})'
             PROVE  /\ \A i, j \in DOMAIN fin' : fin'[i].duel = fin'[j].duel => i = j
                    /\ \A i \in DOMAIN fin' : \E k \in DOMAIN FinalLog' :
                          k <= TakenUpto' /\ FinalLog'[k] = fin'[i].duel
  BY DEF FinTaken
<1>0. TInv /\ ResultType /\ "save" \notin faults'
  BY TypeParts DEF BaseInv, TInv, Without
<1>1. /\ \A i, j \in DOMAIN fin : fin[i].duel = fin[j].duel => i = j
      /\ \A i \in DOMAIN fin : \E k \in DOMAIN FinalLog : k <= TakenUpto /\ FinalLog[k] = fin[i].duel
  BY <1>0, CleanBefore DEF FinTaken
<1>2. /\ DOMAIN FinalLog = 1..Len(FinalLog) /\ Len(FinalLog) \in Nat
      /\ DOMAIN FinalLog \subseteq DOMAIN FinalLog'
      /\ \A k \in DOMAIN FinalLog : FinalLog[k] \in Duel /\ FinalLog'[k] = FinalLog[k]
  BY DecidedStays DEF BaseInv
<1>3. ASSUME NEW i \in DOMAIN fin, fin' # <<>>
      PROVE  \E k \in DOMAIN FinalLog' : k <= TakenUpto' /\ FinalLog'[k] = fin[i].duel
  <2>1. PICK k \in DOMAIN FinalLog : k <= TakenUpto /\ FinalLog[k] = fin[i].duel
    BY <1>1
  <2>2. k \in Nat /\ k <= TakenUpto'
    BY <1>0, <1>2, <1>3, <2>1, TakenGrows
  <2> QED BY <1>2, <2>1, <2>2
<1>4. CASE fin' = <<>>
  BY <1>4
<1>5. CASE fin' = fin /\ fin' # <<>>
  BY <1>1, <1>3, <1>5
<1>6. CASE fin # <<>> /\ fin' = Tail(fin) /\ fin' # <<>>
  <2>1. \A i \in DOMAIN fin' : i \in Nat /\ i + 1 \in DOMAIN fin /\ fin'[i] = fin[i + 1]
    BY <1>0, <1>6, QueueFacts DEF ResultType
  <2>2. \A i, j \in DOMAIN fin' : fin'[i].duel = fin'[j].duel => i = j
    <3> SUFFICES ASSUME NEW i \in DOMAIN fin', NEW j \in DOMAIN fin', fin'[i].duel = fin'[j].duel
                 PROVE  i = j
      OBVIOUS
    <3>1. i + 1 = j + 1
      BY <1>1, <2>1
    <3> QED BY <2>1, <3>1
  <2> QED BY <1>3, <1>6, <2>1, <2>2
<1>7. CASE \E p \in Status : Queues(p)
  <2> DEFINE d == FinalLog[pos + 1]
  <2>0. PICK p \in Status :
           /\ Page /\ at.n = 3 /\ pos + 1 \in DOMAIN FinalLog
           /\ fin' = Append(fin, [duel |-> d, players |-> p])
    BY <1>7 DEF Queues
  <2>1. d \in Duel /\ pos \in Nat
    BY <1>0, <1>2, <2>0, TypeParts DEF TInv, PhaseType
  <2>2. /\ DOMAIN fin' = DOMAIN fin \cup {Len(fin) + 1} /\ Len(fin) + 1 \in DOMAIN fin'
        /\ fin'[Len(fin) + 1].duel = d
        /\ \A j \in DOMAIN fin : fin'[j] = fin[j]
    BY <1>0, <2>0, <2>1, QueueFacts DEF ResultType
  <2>3. fin' # <<>>
    BY <2>2
  <2>4. TakenUpto = pos /\ TakenUpto' = pos + 1
    BY <1>0, <2>0, <2>3, TakenGrows
  <2>5. \A i \in DOMAIN fin : fin[i].duel # d
    <3> SUFFICES ASSUME NEW i \in DOMAIN fin, fin[i].duel = d PROVE FALSE
      OBVIOUS
    <3>1. PICK k \in DOMAIN FinalLog : k <= pos /\ FinalLog[k] = d
      BY <1>1, <2>4
    <3>2. k = pos + 1
      BY <2>0, <3>1 DEF BaseInv, DInv, LogOnce
    <3> QED BY <2>1, <3>1, <3>2
  <2>6. \A i, j \in DOMAIN fin' : fin'[i].duel = fin'[j].duel => i = j
    BY <1>1, <2>2, <2>5
  <2>7. \E k \in DOMAIN FinalLog' : k <= TakenUpto' /\ FinalLog'[k] = d
    BY <1>2, <2>0, <2>1, <2>4
  <2> QED BY <1>3, <2>2, <2>3, <2>6, <2>7
<1> QED BY <1>0, <1>4, <1>5, <1>6, <1>7, FinStep

LEMMA NextRatedTaken ==
    ASSUME BaseInv, FinTaken, RatedTaken, [Next]_vars
    PROVE  RatedTaken'
<1> SUFFICES ASSUME Without({"save", "backfill"})', NEW d \in Duel, NEW s \in Side
             PROVE  /\ rated'[d][s] <= 1
                    /\ rated'[d][s] > 0 =>
                          /\ \E k \in DOMAIN FinalLog' : k <= cursor'["finalized"] /\ FinalLog'[k] = d
                          /\ \A i \in DOMAIN fin' :
                                fin'[i].duel = d => at'.do = "rate2" /\ i = 1 /\ s = "p0"
  BY DEF RatedTaken
<1>0. /\ TInv /\ ResultType /\ RatedType /\ CursorType /\ "save" \notin faults' /\ "backfill" \notin faults'
      /\ Without({"save"})
  BY CleanBefore, TypeParts DEF BaseInv, TInv, Without
<1>1. /\ \A i, j \in DOMAIN fin : fin[i].duel = fin[j].duel => i = j
      /\ \A i \in DOMAIN fin : \E k \in DOMAIN FinalLog : k <= TakenUpto /\ FinalLog[k] = fin[i].duel
  BY <1>0 DEF FinTaken
<1>2. /\ rated[d][s] <= 1 /\ rated[d][s] \in Nat
      /\ rated[d][s] > 0 =>
            /\ \E k \in DOMAIN FinalLog : k <= cursor["finalized"] /\ FinalLog[k] = d
            /\ \A i \in DOMAIN fin : fin[i].duel = d => at.do = "rate2" /\ i = 1 /\ s = "p0"
  BY <1>0, CleanBefore DEF RatedTaken, RatedType
<1>3. /\ DOMAIN FinalLog = 1..Len(FinalLog) /\ Len(FinalLog) \in Nat
      /\ DOMAIN FinalLog \subseteq DOMAIN FinalLog'
      /\ \A k \in DOMAIN FinalLog : FinalLog[k] \in Duel /\ FinalLog'[k] = FinalLog[k]
  BY DecidedStays DEF BaseInv
<1>4. cursor["finalized"] \in Nat /\ cursor'["finalized"] \in Nat /\ cursor["finalized"] <= cursor'["finalized"]
  BY <1>0, CursorGrows
<1>5. ASSUME \E k \in DOMAIN FinalLog : k <= cursor["finalized"] /\ FinalLog[k] = d
      PROVE  \E k \in DOMAIN FinalLog' : k <= cursor'["finalized"] /\ FinalLog'[k] = d
  <2>1. PICK k \in DOMAIN FinalLog : k <= cursor["finalized"] /\ FinalLog[k] = d
    BY <1>5
  <2>2. k \in Nat /\ k <= cursor'["finalized"]
    BY <1>3, <1>4, <2>1
  <2> QED BY <1>3, <2>1, <2>2
<1>6. CASE rated'[d][s] = rated[d][s]
  <2> SUFFICES ASSUME rated[d][s] > 0, NEW i \in DOMAIN fin', fin'[i].duel = d
               PROVE  at'.do = "rate2" /\ i = 1 /\ s = "p0"
    BY <1>2, <1>5, <1>6
  <2>1. CASE fin' = fin
    <3>1. at.do = "rate2" /\ i = 1 /\ s = "p0"
      BY <1>2, <2>1
    <3>2. at' = at
      BY <1>0, <2>1, <3>1, KeepsRating
    <3> QED BY <3>1, <3>2
  <2>2. CASE fin' = <<>>
    BY <2>2
  <2>3. CASE fin # <<>> /\ fin' = Tail(fin)
    <3>1. i \in Nat /\ i \in DOMAIN fin' /\ i >= 1 /\ i + 1 \in DOMAIN fin /\ fin[i + 1].duel = d
      BY <1>0, <2>3, QueueFacts DEF ResultType
    <3>2. i + 1 = 1
      BY <1>2, <3>1
    <3> QED BY <3>1, <3>2
  <2>4. CASE \E p \in Status : Queues(p)
    <3>0. PICK p \in Status :
             /\ Page /\ at.n = 3 /\ pos + 1 \in DOMAIN FinalLog
             /\ fin' = Append(fin, [duel |-> FinalLog[pos + 1], players |-> p])
      BY <2>4 DEF Queues
    <3>1. FinalLog[pos + 1] \in Duel /\ pos \in Nat
      BY <1>0, <1>3, <3>0, TypeParts DEF TInv, PhaseType
    <3>2. /\ DOMAIN fin' = DOMAIN fin \cup {Len(fin) + 1}
          /\ fin'[Len(fin) + 1].duel = FinalLog[pos + 1]
          /\ \A j \in DOMAIN fin : fin'[j] = fin[j]
      BY <1>0, <3>0, <3>1, QueueFacts DEF ResultType
    <3>3. at.do = "drain" /\ pos = cursor["finalized"]
      BY <1>0, <3>0, Standing, TrackerOrder DEF Page
    <3>4. CASE i \in DOMAIN fin
      BY <1>2, <3>2, <3>3, <3>4
    <3>5. CASE i = Len(fin) + 1
      <4>1. PICK k \in DOMAIN FinalLog : k <= cursor["finalized"] /\ FinalLog[k] = d
        BY <1>2
      <4>2. k = pos + 1
        BY <3>0, <3>2, <3>5, <4>1 DEF BaseInv, DInv, LogOnce
      <4> QED BY <3>1, <3>3, <4>1, <4>2
    <3> QED BY <3>2, <3>4, <3>5
  <2> QED BY <1>0, <2>1, <2>2, <2>3, <2>4, FinStep
<1>7. CASE rated'[d][s] # rated[d][s]
  <2>1. d = fin[1].duel /\ 1 \in DOMAIN fin /\ at.do \in {"rate", "rate2"}
    BY <1>0, <1>7, RatedStep, Standing DEF RatedType, TInv, Place
  <2>2. CASE /\ at.do = "rate" /\ at'.do = "rate2" /\ UNCHANGED <<fin, cursor, log>>
             /\ rated' = [rated EXCEPT ![fin[1].duel]["p0"] = @ + 1]
    <3>1. s = "p0" /\ rated[d][s] = 0
      BY <1>0, <1>2, <1>7, <2>1, <2>2 DEF RatedType
    <3>2. rated'[d][s] = 1
      BY <1>0, <2>1, <2>2, <3>1 DEF RatedType
    <3>3. \E k \in DOMAIN FinalLog : k <= cursor["finalized"] /\ FinalLog[k] = d
      BY <1>1, <2>1, <2>2 DEF TakenUpto
    <3> QED BY <1>1, <1>5, <2>1, <2>2, <3>1, <3>2, <3>3
  <2>3. CASE /\ at.do = "rate2" /\ at'.do = "refresh" /\ fin' = Tail(fin) /\ UNCHANGED <<cursor, log>>
             /\ rated' = [rated EXCEPT ![fin[1].duel]["p1"] = @ + 1]
    <3>1. s = "p1" /\ rated[d][s] = 0
      BY <1>0, <1>2, <1>7, <2>1, <2>3 DEF RatedType
    <3>2. rated'[d][s] = 1
      BY <1>0, <2>1, <2>3, <3>1 DEF RatedType
    <3>3. \E k \in DOMAIN FinalLog : k <= cursor["finalized"] /\ FinalLog[k] = d
      BY <1>1, <2>1, <2>3 DEF TakenUpto
    <3>4. \A i \in DOMAIN fin' : fin'[i].duel # d
      <4>1. \A i \in DOMAIN fin' : i \in Nat /\ i >= 1 /\ i + 1 \in DOMAIN fin /\ fin'[i] = fin[i + 1]
        BY <1>0, <2>1, <2>3, QueueFacts DEF ResultType
      <4> SUFFICES ASSUME NEW i \in DOMAIN fin', fin'[i].duel = d PROVE FALSE
        OBVIOUS
      <4>2. i + 1 = 1
        BY <1>1, <2>1, <4>1
      <4> QED BY <4>1, <4>2
    <3> QED BY <1>5, <3>2, <3>3, <3>4
  <2> QED BY <1>0, <1>7, <2>2, <2>3, RatedStep
<1> QED BY <1>6, <1>7

LEMMA NextHalfRated ==
    ASSUME BaseInv, HalfRated, [Next]_vars
    PROVE  HalfRated'
<1> SUFFICES ASSUME at'.do = "rate2" PROVE rated'[fin'[1].duel]["p0"] > 0
  BY DEF HalfRated
<1>0. TInv /\ RatedType /\ PhaseType
  BY TypeParts DEF BaseInv, TInv
<1>1. CASE at.do = "rate2"
  BY <1>0, <1>1, KeepsRating, PhaseForms DEF HalfRated
<1>2. CASE at.do # "rate2"
  <2>1. RateFirst
    <3>1. at' # at
      BY <1>2
    <3>2. ~(NothingNew \/ QueryFails \/ SaveCursor \/ SaveFails)
      BY <1>0, Standing, PhaseForms, TrackerOrder DEF NothingNew, QueryFails, SaveCursor, SaveFails, NextTracker, OpenTracker
    <3>3. ~(ChainMoves \/ Tick \/ Page \/ RefreshDuel \/ Restart \/ RecomputeRatings \/ UNCHANGED vars)
      BY <3>1, ChainStep, PhaseForms, TrackerOrder DEF Tick, OpenTracker, Page, RefreshDuel, Upsert, Fetch, FetchFails, Restart, RecomputeRatings, vars
    <3>4. ~(SkipRating \/ SetWinner \/ RateSecond \/ TickDone)
      BY <3>1, PhaseForms DEF SkipRating, SetWinner, RateSecond, TickDone
    <3> QED BY <3>2, <3>3, <3>4 DEF Next, ApplyOutcomes
  <2>2. /\ UNCHANGED fin /\ rated' = [rated EXCEPT ![fin[1].duel]["p0"] = @ + 1]
        /\ fin[1].duel \in Duel
    BY <1>0, <2>1, Standing, PhaseForms DEF RateFirst, TInv, Place
  <2>3. "p0" \in Side
    BY DEF Side
  <2> QED BY <1>0, <2>2, <2>3 DEF RatedType
<1> QED BY <1>1, <1>2

LEMMA NextRInv == BaseInv /\ RInv /\ [Next]_vars => RInv'
BY NextRatedDecided, NextFinTaken, NextRatedTaken, NextHalfRated DEF RInv

\* What is queued when the players are known is known, unless the read of the
\* row failed.
LEMMA TakenKnown ==
    ASSUME BaseInv, [Next]_vars, NEW d \in Duel,
           Len(fin') > Len(fin), fin'[Len(fin')].duel = d, row[d] \in NamesBoth
    PROVE  Known(d)' \/ ~Without({"mirror"})'
<1>0. TInv /\ ResultType /\ Len(fin) \in Nat
  BY TypeParts DEF BaseInv, TInv, ResultType
<1>1. fin' # fin /\ fin' # <<>> /\ ~(fin # <<>> /\ fin' = Tail(fin))
  BY <1>0 DEF ResultType
<1>2. PICK p \in Status : Queues(p)
  BY <1>0, <1>1, FinStep
<1>3. /\ fin' = Append(fin, [duel |-> FinalLog[pos + 1], players |-> p])
      /\ pos + 1 \in DOMAIN FinalLog
      /\ p = row[FinalLog[pos + 1]] \/ Fault("mirror")
  BY <1>2 DEF Queues
<1>4. FinalLog[pos + 1] \in Duel
  BY <1>3, DecidedStays DEF BaseInv
<1>5. /\ Len(fin') = Len(fin) + 1 /\ Len(fin') \in DOMAIN fin'
      /\ fin'[Len(fin')] = [duel |-> FinalLog[pos + 1], players |-> p]
  BY <1>0, <1>3, <1>4 DEF ResultType
<1>6. CASE p = row[FinalLog[pos + 1]]
  BY <1>5, <1>6 DEF Known
<1>7. CASE Fault("mirror")
  BY <1>0, <1>7, FaultKnown DEF Without
<1> QED BY <1>3, <1>6, <1>7

\* An outcome in which both players are known leaves the queue rated for both,
\* or because a rating write failed or the process died.
LEMMA LeavesRated ==
    ASSUME BaseInv, RInv, [Next]_vars, NEW d \in Duel, Known(d), ~Known(d)'
    PROVE  (\A s \in Side : rated'[d][s] > 0) \/ ~Without({"rating", "crash"})'
<1>0. TInv /\ RatedType /\ ResultType
  BY TypeParts DEF BaseInv, TInv
<1>a. PICK j \in DOMAIN fin : fin[j].duel = d /\ fin[j].players \in NamesBoth
  BY DEF Known
<1>b. \A i \in DOMAIN fin' : fin'[i] # fin[j]
  BY <1>a DEF Known
<1>1. CASE fin' = fin
  BY <1>1, <1>b
<1>2. CASE Tick \/ Restart
  <2>1. Restart
    BY <1>0, <1>2, <1>a, PhaseForms DEF Tick, TInv, Place
  <2> QED BY <1>0, <2>1, FaultKnown DEF Restart, Without
<1>3. CASE fin # <<>> /\ fin' = Tail(fin) /\ (SkipRating \/ RateFirst \/ RateSecond)
  <2>1. fin[1].duel = d /\ fin[1].players \in NamesBoth /\ Head(fin) = fin[1]
    <3> DEFINE Result == [duel : Duel, players : Status]
    <3>1. fin \in Seq(Result)
      BY <1>0 DEF ResultType
    <3> HIDE DEF Result
    <3>2. j # 1 => j - 1 \in DOMAIN fin' /\ fin'[j - 1] = fin[j]
      BY <1>3, <3>1, QueueFacts
    <3>3. j = 1 /\ Head(fin) = fin[1]
      BY <1>3, <1>b, <3>1, <3>2, QueueFacts
    <3> QED BY <1>a, <3>3
  <2>2. CASE SkipRating
    BY <2>1, <2>2 DEF SkipRating, SkipOutcome, NamesBoth
  <2>3. CASE RateFirst
    <3>1. UNCHANGED fin \/ Fault("rating")
      BY <2>3 DEF RateFirst
    <3> QED BY <1>0, <1>1, <3>1, FaultKnown DEF Without
  <2>4. CASE RateSecond /\ ~Fault("rating")
    <3>1. rated' = [rated EXCEPT ![d]["p1"] = @ + 1] /\ at.do = "rate2"
      BY <2>1, <2>4 DEF RateSecond, NamesBoth
    <3>2. rated[d]["p0"] > 0
      BY <2>1, <3>1 DEF RInv, HalfRated
    <3> QED BY <1>0, <3>1, <3>2 DEF RatedType, Side
  <2>5. CASE Fault("rating")
    BY <1>0, <2>5, FaultKnown DEF Without
  <2> QED BY <1>3, <2>2, <2>3, <2>4, <2>5
<1>4. CASE \E p \in Status : Queues(p)
  <2>1. PICK e : fin' = Append(fin, e)
    BY <1>4 DEF Queues
  <2>2. j \in DOMAIN fin' /\ fin'[j] = fin[j]
    BY <1>0, <1>a, <2>1 DEF ResultType
  <2> QED BY <1>b, <2>2
<1> QED BY <1>0, <1>1, <1>2, <1>3, <1>4, FinStep

LEMMA InitAll == Init => BaseInv /\ RInv
BY InitIInv, InitTInv, InitDInv, InitRInv DEF BaseInv

\* While no cursor write fails, no duel counts twice in a player's record,
\* through any failing query, refresh or rating write and any restart; and
\* without a rebuild of the ratings a duel with no result counts in nobody's.
THEOREM RatedOnce == Spec => []RatedAtMostOnce
<1>1. RInv => RatedAtMostOnce
  BY DEF RInv, RatedDecided, RatedTaken, RatedAtMostOnce, Without
<1> QED BY InitAll, NextBase, NextRInv, <1>1, PTL DEF Spec

\* A finalization taken while its row names both players is queued with them
\* unless the read of the row fails, and counts for both before it is let go; only
\* a failed rating write and a restart lose it then.
THEOREM KnownOutcomesRated == Spec => KnownOutcomeRated
<1> DEFINE Step ==
        \A d \in Duel :
          /\ /\ Len(fin') > Len(fin) /\ fin'[Len(fin')].duel = d
             /\ row[d] \in NamesBoth
             => Known(d)' \/ ~Without({"mirror"})'
          /\ Known(d) /\ ~Known(d)'
             => (\A s \in Side : rated'[d][s] > 0) \/ ~Without({"rating", "crash"})'
<1>1. BaseInv /\ RInv /\ [Next]_vars => [Step]_vars
  <2> SUFFICES ASSUME BaseInv, RInv, [Next]_vars, NEW d \in Duel
               PROVE  /\ /\ Len(fin') > Len(fin) /\ fin'[Len(fin')].duel = d
                         /\ row[d] \in NamesBoth
                         => Known(d)' \/ ~Without({"mirror"})'
                      /\ Known(d) /\ ~Known(d)'
                         => (\A s \in Side : rated'[d][s] > 0) \/ ~Without({"rating", "crash"})'
    OBVIOUS
  <2>1. ASSUME Len(fin') > Len(fin), fin'[Len(fin')].duel = d, row[d] \in NamesBoth
        PROVE  Known(d)' \/ ~Without({"mirror"})'
    BY <2>1, TakenKnown
  <2>2. ASSUME Known(d), ~Known(d)'
        PROVE  (\A s \in Side : rated'[d][s] > 0) \/ ~Without({"rating", "crash"})'
    BY <2>2, LeavesRated
  <2> QED BY <2>1, <2>2
<1> QED BY InitAll, NextBase, NextRInv, <1>1, PTL DEF Spec, KnownOutcomeRated
=============================================================================
