------------------------------- MODULE Rooms --------------------------------
(***************************************************************************)
(* The room of one duel: the sockets subscribed to it (ws/matchmaking.ts), *)
(* the state they are sent by the indexer's refreshDuel (indexer.ts), by   *)
(* the snapshot of a subscription and by the match clock, and the notices  *)
(* about a player who left.  Rooms of different duels share nothing but    *)
(* the sockets.                                                            *)
(*                                                                         *)
(* A state of the duel is its version on chain, 0 before it is created and *)
(* Complete when it is COMPLETE.  Handlers run to their first await; what they *)
(* await is a database query, executed and answered later.  The pool has   *)
(* several connections, so a query may overtake another; that, and every   *)
(* failure, is a mishap, and the properties say which ones they bear.      *)
(* A websocket keeps the order of its messages, so a message sent counts   *)
(* as seen.                                                                *)
(***************************************************************************)
EXTENDS Integers, Sequences, FiniteSets, SequencesExt

CONSTANTS
    Address, NoAddress,
    Complete,               \* version of the finished duel
    Clock, Mirror,      \* who asks the database, besides the sockets
    NotYet,             \* the answer of a query not executed yet
    MaxSockets,         \* bound: sockets ever opened
    MaxReads,           \* bound: reads of the row in flight
    MaxMishaps          \* bound: mishaps

Socket == 1..MaxSockets
Version == 0..Complete

ASSUME RoomsAssumption ==
    /\ Complete \in Nat \ {0}
    /\ MaxSockets \in Nat /\ MaxReads \in Nat /\ MaxMishaps \in Nat
    /\ NoAddress \notin Address
    /\ NotYet \notin Version
    /\ Clock \notin Socket /\ Mirror \notin Socket /\ Clock # Mirror

VARIABLES
    chain,              \* the duel's version on chain
    drained,            \* the version up to which its events were drained
    fetched,            \* the version refreshDuel is mirroring, 0 if none
    row,                \* the version of its row in the mirror, 0 if none
    queries,            \* queries in flight, in the order they were asked
    opened, open,       \* sockets opened so far; those still open
    bound,              \* ws.data.address
    roomSubscribers,    \* sockets in the room
    subscribedDuels,    \* sockets whose own set holds the duel
    forfeitTimers,      \* addresses whose grace is running
    view,               \* the version a socket's client shows, 0 if none
    left,               \* <<s, a>>: the client of s shows a as gone, not yet lost
    announced,          \* the address a socket had when it last subscribed, while it has it
    mishaps

chainVars  == <<chain, drained, fetched>>
dbVars     == <<row, queries>>
socketVars == <<opened, open, bound, announced>>
roomVars   == <<roomSubscribers, subscribedDuels, view>>
peerVars   == <<forfeitTimers, left>>
vars == <<chainVars, dbVars, socketVars, roomVars, peerVars, mishaps>>

Query == [from : Socket \cup {Clock, Mirror}, got : Version \cup {NotYet}]

\* "behind": a query overtook another or a write failed, so that something
\* older than what was sent may be sent.  "lost": the read of a snapshot or of the
\* chain failed, or the server stopped between saving its cursor and ending the
\* refresh, so that something is not sent.  "unread": the clock's read failed, so
\* that it says what it did not read.  "restart": the server stopped elsewhere.
Mishap == {"behind", "lost", "unread", "restart"}

Happens(kind) ==
    /\ Cardinality(mishaps) < MaxMishaps
    /\ mishaps' = mishaps \cup {kind}

Without(kinds) == mishaps \cap kinds = {}

Init ==
    /\ chain = 0 /\ drained = 0 /\ fetched = 0
    /\ row = 0 /\ queries = <<>>
    /\ opened = 0 /\ open = {}
    /\ bound = [s \in Socket |-> NoAddress]
    /\ announced = [s \in Socket |-> NoAddress]
    /\ roomSubscribers = {} /\ subscribedDuels = {}
    /\ view = [s \in Socket |-> 0]
    /\ forfeitTimers = {} /\ left = {}
    /\ mishaps = {}

-----------------------------------------------------------------------------
(* Sockets                                                                 *)

Open ==
    /\ opened < MaxSockets
    /\ opened' = opened + 1
    /\ open' = open \cup {opened'}
    /\ UNCHANGED <<bound, announced, chainVars, dbVars, roomVars, peerVars, mishaps>>

\* registerAddress: whatever the socket was bound to before.
Hello(s, a) ==
    /\ s \in open
    /\ bound' = [bound EXCEPT ![s] = a]
    /\ announced' = [announced EXCEPT ![s] = IF @ = a THEN a ELSE NoAddress]
    /\ UNCHANGED <<opened, open, chainVars, dbVars, roomVars, peerVars, mishaps>>

\* A read of the row is asked for by a socket or by the clock.
Asks(who) ==
    /\ Cardinality({i \in DOMAIN queries : queries[i].from # Mirror}) < MaxReads
    /\ queries' = Append(queries, [from |-> who, got |-> NotYet])

\* A subscription ends the grace of the socket's address, and those in the
\* room are told it is back: all of them, the subscriber included, unless the
\* room was empty before.
ReturnsMutant(s) == IF roomSubscribers = {} THEN {} ELSE {bound[s]} \cap forfeitTimers
Returns(s) == {bound[s]} \cap forfeitTimers

RejoinedMutant(s) == IF s \in roomSubscribers THEN {} ELSE Socket \X Returns(s)
Rejoined(s) == IF roomSubscribers = {} THEN {} ELSE Socket \X Returns(s)

\* sendRoomSnapshot starts by reading the row.
SnapshotMutant(s) == UNCHANGED queries
Snapshot(s) == Asks(s)

SubscribeRoom(s) ==
    /\ s \in open
    /\ Snapshot(s)
    /\ roomSubscribers' = roomSubscribers \cup {s}
    /\ subscribedDuels' = subscribedDuels \cup {s}
    /\ announced' = [announced EXCEPT ![s] = bound[s]]
    /\ forfeitTimers' = forfeitTimers \ Returns(s)
    /\ left' = left \ Rejoined(s)
    /\ UNCHANGED <<view, opened, open, bound, chainVars, row, mishaps>>

Gone(s) ==
    /\ roomSubscribers' = roomSubscribers \ {s}
    /\ subscribedDuels' = subscribedDuels \ {s}
    /\ view' = [view EXCEPT ![s] = 0]
    /\ announced' = [announced EXCEPT ![s] = NoAddress]

\* Leaving the room without closing the socket is not leaving the duel.
UnsubscribeRoom(s) ==
    /\ s \in open
    /\ Gone(s)
    /\ left' = left \ ({s} \X Address)
    /\ UNCHANGED <<forfeitTimers, opened, open, bound, chainVars, dbVars, mishaps>>

StillInRoom(s, a) == \E w \in roomSubscribers \ {s} : bound[w] = a

\* The address whose grace starts when s closes, if any.
Departs(s) ==
    IF s \in subscribedDuels /\ bound[s] # NoAddress /\ ~StillInRoom(s, bound[s])
    THEN {bound[s]} ELSE {}

OnSocketClose(s) ==
    /\ s \in open
    /\ open' = open \ {s}
    /\ Gone(s)
    /\ forfeitTimers' = forfeitTimers \cup Departs(s)
    /\ left' = (left \ ({s} \X Address)) \cup ((roomSubscribers \ {s}) \X Departs(s))
    /\ bound' = [bound EXCEPT ![s] = NoAddress]
    /\ UNCHANGED <<opened, chainVars, dbVars, mishaps>>

\* The grace is over: the room is told the player is lost.
PeerForfeit(a) ==
    /\ a \in forfeitTimers
    /\ forfeitTimers' = forfeitTimers \ {a}
    /\ left' = left \ (roomSubscribers \X {a})
    /\ UNCHANGED <<chainVars, dbVars, socketVars, roomVars, mishaps>>

-----------------------------------------------------------------------------
(* The duel and its mirror                                                 *)

Moves ==
    /\ chain < Complete
    /\ chain' = chain + 1
    /\ UNCHANGED <<drained, fetched, dbVars, socketVars, roomVars, peerVars, mishaps>>

\* room_state of version v to the sockets of ss.
Send(ss, v) == view' = [s \in Socket |-> IF s \in ss THEN v ELSE view[s]]

RefreshDuelMutant ==
    /\ fetched = 0 /\ drained < chain
    /\ drained' \in (drained + 1)..chain
    /\ fetched' = chain
    /\ queries' = Append(queries, [from |-> Mirror, got |-> NotYet])
    /\ Send(roomSubscribers, chain)
    /\ UNCHANGED <<chain, row, socketVars, roomSubscribers, subscribedDuels, peerVars, mishaps>>

\* The indexer drains some events of the duel, reads the duel as it is now,
\* and asks for its row to be written.
RefreshDuel ==
    /\ fetched = 0 /\ drained < chain
    /\ drained' \in (drained + 1)..chain
    /\ fetched' = chain
    /\ queries' = Append(queries, [from |-> Mirror, got |-> NotYet])
    /\ UNCHANGED <<chain, row, socketVars, roomVars, peerVars, mishaps>>

FetchFails ==
    /\ fetched = 0 /\ drained < chain
    /\ drained' \in (drained + 1)..chain
    /\ Happens("lost")
    /\ UNCHANGED <<chain, fetched, dbVars, socketVars, roomVars, peerVars>>

\* The match clock looks the duel up while anybody is in the room.
Tick ==
    /\ roomSubscribers # {}
    /\ Asks(Clock)
    /\ UNCHANGED <<row, chainVars, socketVars, roomVars, peerVars, mishaps>>

-----------------------------------------------------------------------------
(* The database                                                            *)

Executed(i) == queries[i].got # NotYet

InTurn(i) ==
    IF i > 1 THEN Happens("behind") ELSE UNCHANGED mishaps

\* One connection would execute queries in turn; so does the pool, or not.
Executes(i) ==
    LET q == queries[i]
        got == IF q.from = Mirror THEN fetched ELSE row
    IN
    /\ ~Executed(i)
    /\ IF \A j \in 1..(i - 1) : Executed(j) THEN UNCHANGED mishaps
                                            ELSE Happens("behind")
    /\ queries' = [queries EXCEPT ![i].got = got]
    /\ row' = got
    /\ UNCHANGED <<chainVars, socketVars, roomVars, peerVars>>

Answered(i) == queries' = RemoveAt(queries, i)

Broadcasts ==
    /\ Send(roomSubscribers, fetched)
    /\ fetched' = 0
    /\ UNCHANGED <<chain, drained, roomSubscribers, subscribedDuels>>

MirrorReply(i) ==
    /\ queries[i].from = Mirror /\ Executed(i)
    /\ InTurn(i) /\ Answered(i)
    /\ Broadcasts
    /\ UNCHANGED <<row, socketVars, peerVars>>

\* A failed write does not block the broadcast.
WriteFails(i) ==
    /\ queries[i].from = Mirror /\ ~Executed(i)
    /\ Happens("behind") /\ Answered(i)
    /\ Broadcasts
    /\ UNCHANGED <<row, socketVars, peerVars>>

\* sendRoomSnapshot: nothing without a row, or once the socket has left.
Recipients(q) == IF q.got = 0 THEN {} ELSE {q.from} \cap subscribedDuels

SnapshotReply(i) ==
    /\ queries[i].from \in Socket /\ Executed(i)
    /\ InTurn(i) /\ Answered(i)
    /\ Send(Recipients(queries[i]), queries[i].got)
    /\ UNCHANGED <<row, chainVars, socketVars, roomSubscribers, subscribedDuels, peerVars>>

\* The clock says nothing of a duel it finds COMPLETE, and PENDING of one it
\* does not find; the room as it is when the answer comes is told.
ClockReply(i) ==
    /\ queries[i].from = Clock /\ Executed(i)
    /\ InTurn(i) /\ Answered(i)
    /\ UNCHANGED <<row, chainVars, socketVars, roomVars, peerVars>>

SnapshotFails(i) ==
    /\ queries[i].from \in Socket /\ ~Executed(i)
    /\ Happens("lost") /\ Answered(i)
    /\ UNCHANGED <<row, chainVars, socketVars, roomVars, peerVars>>

\* The clock goes on without the answer, and says PENDING of any duel.
ClockReadFails(i) ==
    /\ queries[i].from = Clock /\ ~Executed(i)
    /\ Happens("unread") /\ Answered(i)
    /\ UNCHANGED <<row, chainVars, socketVars, roomVars, peerVars>>

\* The room is sent a tick, which says that the duel is not complete.
Ticks(i) ==
    \/ ClockReply(i) /\ queries[i].got # Complete
    \/ ClockReadFails(i)

-----------------------------------------------------------------------------
(* A restart of the server loses all but the chain, the row and the cursor. *)

Restart ==
    /\ Happens(IF fetched = 0 THEN "restart" ELSE "lost")
    /\ fetched' = 0 /\ queries' = <<>>
    /\ open' = {} /\ roomSubscribers' = {} /\ subscribedDuels' = {}
    /\ bound' = [s \in Socket |-> NoAddress]
    /\ announced' = [s \in Socket |-> NoAddress]
    /\ view' = [s \in Socket |-> 0]
    /\ forfeitTimers' = {} /\ left' = {}
    /\ UNCHANGED <<chain, drained, row, opened>>

-----------------------------------------------------------------------------
Client(s) ==
    \/ \E a \in Address : Hello(s, a)
    \/ SubscribeRoom(s)
    \/ UnsubscribeRoom(s)
    \/ OnSocketClose(s)

Replies(i) == MirrorReply(i) \/ SnapshotReply(i) \/ ClockReply(i)

Next ==
    \/ Open
    \/ \E s \in Socket : Client(s)
    \/ \E a \in Address : PeerForfeit(a)
    \/ Moves \/ RefreshDuel \/ FetchFails \/ Tick
    \/ \E i \in DOMAIN queries :
          Executes(i) \/ Replies(i) \/ WriteFails(i) \/ SnapshotFails(i) \/ ClockReadFails(i)
    \/ Restart

Spec == Init /\ [][Next]_vars

Served == queries # <<>> /\ (Executes(1) \/ Replies(1))

\* The indexer polls, and the database executes and answers the oldest query.
LiveSpec ==
    /\ Spec
    /\ WF_vars(RefreshDuel)
    /\ WF_vars(Served)

-----------------------------------------------------------------------------
(* Properties                                                              *)

\* Every variable has its type; a room and its sockets agree on who is in it,
\* and only open sockets are, so no broadcast goes to a socket that has gone.
TypeOK ==
    /\ chain \in Version /\ drained \in 0..chain
    /\ fetched \in 0..chain /\ row \in 0..chain
    /\ queries \in Seq(Query)
    /\ opened \in 0..MaxSockets /\ open \subseteq 1..opened
    /\ bound \in [Socket -> Address \cup {NoAddress}]
    /\ announced \in [Socket -> Address \cup {NoAddress}]
    /\ roomSubscribers = subscribedDuels /\ roomSubscribers \subseteq open
    /\ \A s \in Socket : announced[s] # NoAddress =>
          announced[s] = bound[s] /\ s \in roomSubscribers
    /\ view \in [Socket -> 0..chain]
    /\ \A s \in Socket : s \notin roomSubscribers => view[s] = 0
    /\ forfeitTimers \subseteq Address
    /\ left \subseteq Socket \X Address
    /\ mishaps \subseteq Mishap

\* A player is never declared lost to the room while a socket of theirs is in
\* it that said hello before it subscribed, whatever their other sockets did.
ForfeitMeansAway ==
    \A a \in forfeitTimers : \A s \in Socket : announced[s] # a

\* Whoever is shown a player as gone will be told how it ended: the grace is
\* running, for as long as they stay in the room.
GoneIsWatched ==
    \A p \in left : p[1] \in roomSubscribers /\ p[2] \in forfeitTimers

\* What a client shows never goes back to an older state of the duel, unless
\* a query was overtaken, or a write failed and the row stayed behind.
ViewNeverGoesBack ==
    [][Without({"behind"}) =>
          \A s \in roomSubscribers \cap roomSubscribers' : view'[s] >= view[s]]_vars

\* No clock tick, which calls the duel unfinished, reaches a client that shows it
\* COMPLETE, unless a query was overtaken, a write failed, or a lookup of the
\* clock did and it ticked all the same.
NoTickAfterComplete ==
    [][/\ Without({"behind"}) /\ Without({"unread"})'
       /\ \E s \in roomSubscribers : view[s] = Complete
       => \A i \in DOMAIN queries : ~Ticks(i)]_vars

\* Whoever stays in the room of a duel that completes gets to see it, also
\* when they subscribed in the middle of the refresh or after a restart.
RoomCatchesUp ==
    \A s \in Socket :
        chain = Complete /\ s \in roomSubscribers ~>
            \/ view[s] = Complete
            \/ s \notin roomSubscribers
            \/ ~Without({"behind", "lost"})
=============================================================================
