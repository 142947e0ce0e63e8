---------------------------- MODULE Matchmaking ----------------------------
(***************************************************************************)
(* The matchmaking half of apps/server/src/ws/matchmaking.ts: sockets, the *)
(* FIFO bucket of each tier, the pairing of two sockets, and the handshake *)
(* that waits for the creator's duel to appear on chain.                   *)
(*                                                                         *)
(* The server is one JavaScript thread, so what runs between two awaits is *)
(* one action.  joinQueue awaits the joiner's rating, then the candidates' *)
(* ratings, then matchPair, which awaits the deck; at each of these awaits *)
(* any other handler or timer may run, and a rejected read ends the call.  *)
(* An asynchronous call in progress sits in a slot of `task`.              *)
(*                                                                         *)
(* Ratings and waiting times are abstracted: the pick is any candidate of  *)
(* the snapshot, or none (no candidate inside the rating windows).         *)
(***************************************************************************)
EXTENDS Naturals, Sequences, SequencesExt

CONSTANTS
    Socket, Address, Tier,
    Nobody,             \* `address: null`, and no pending challenger
    NoTier,             \* `queuedTier: null`
    Task,               \* slots for calls in progress: bounds their number
    Idle,               \* an empty slot
    MaxJoins,           \* bound on the queue_join messages accepted
    MaxDeckFailures,    \* bound on the failures of the deck provider
    MaxReadFailures     \* bound on the rejected rating reads

Candidate == [pos : Nat \ {0}, ws : Socket, addr : Address]

\* A joinQueue that waits for its own rating, or for its candidates'.
Lookup == [kind : {"rating"}, ws : Socket, tier : Tier]
          \cup [kind : {"pick"}, ws : Socket, tier : Tier, cands : SUBSET Candidate]

ASSUME MatchmakingAssumption ==
    /\ Nobody \notin Address /\ Idle \notin Lookup
    /\ NoTier \notin Tier
    /\ MaxJoins \in Nat /\ MaxDeckFailures \in Nat /\ MaxReadFailures \in Nat

VARIABLES
    \* connections
    open, addr, queuedTier,
    \* what the client of each socket heard last about its search
    heard,
    \* tier -> waiting sockets, oldest first
    queue,
    \* calls in progress
    task,
    \* retry timers of failed pairs
    retries,
    \* creator address -> challenger address, with its 90 s teardown timers
    pending, timers,
    \* bounds
    joins, deckFailures, readFailures,
    \* history: sockets whose place in the queue a race of joinQueue has spoilt
    harmed

connVars  == <<open, addr>>
queueVars == <<queuedTier, queue>>
pairVars  == <<pending, timers>>
bounds    == <<joins, deckFailures, readFailures>>
vars == <<connVars, queueVars, heard, task, retries, pairVars, bounds, harmed>>

Timer == [owner : Address, creator : Socket, challenger : Socket, peer : Address]

Init ==
    /\ open = [w \in Socket |-> TRUE]
    /\ addr = [w \in Socket |-> Nobody]
    /\ queuedTier = [w \in Socket |-> NoTier]
    /\ heard = [w \in Socket |-> "nothing"]
    /\ queue = [t \in Tier |-> <<>>]
    /\ task = [k \in Task |-> Idle]
    /\ retries = {}
    /\ pending = [a \in Address |-> Nobody]
    /\ timers = {}
    /\ joins = 0 /\ deckFailures = 0 /\ readFailures = 0
    /\ harmed = {}

\* `send`: a closed socket hears nothing.
Tell(ws, msg) == heard' = [w \in Socket |-> IF w \in ws /\ open[w] THEN msg ELSE heard[w]]

InLookup(k) == task[k] # Idle /\ task[k].kind \in {"rating", "pick"}
LookingUp   == {w \in Socket : \E k \in Task : InLookup(k) /\ task[k].ws = w}

-----------------------------------------------------------------------------
(* Connections                                                             *)

\* `hello` may rebind a socket that is queued or in a lookup.
Hello(w, a) ==
    /\ open[w]
    /\ addr' = [addr EXCEPT ![w] = a]
    /\ UNCHANGED <<open, queueVars, heard, task, retries, pairVars, bounds, harmed>>

\* leaveQueue's effect on the bucket: the first occurrence goes.
QueueWithout(w) ==
    IF queuedTier[w] = NoTier THEN queue
    ELSE [queue EXCEPT ![queuedTier[w]] = RemoveFirst(@, w)]

LeaveQueue(w) ==
    /\ queuedTier[w] # NoTier
    /\ queue' = QueueWithout(w)
    /\ queuedTier' = [queuedTier EXCEPT ![w] = NoTier]
    /\ Tell({w}, "left")
    /\ UNCHANGED <<connVars, task, retries, pairVars, bounds, harmed>>

Close(w) ==
    /\ open[w]
    /\ queue' = QueueWithout(w)
    /\ queuedTier' = [queuedTier EXCEPT ![w] = NoTier]
    /\ addr' = [addr EXCEPT ![w] = Nobody]
    /\ open' = [open EXCEPT ![w] = FALSE]
    /\ UNCHANGED <<heard, task, retries, pairVars, bounds, harmed>>

-----------------------------------------------------------------------------
(* joinQueue                                                               *)

\* The handler awaits the balance gate and the market preflight before this
\* call; all it may find changed afterwards is the address, checked here.
JoinQueue(w, t, k) ==
    /\ joins < MaxJoins
    /\ addr[w] # Nobody
    /\ task[k] = Idle
    /\ queue' = QueueWithout(w)
    /\ queuedTier' = [queuedTier EXCEPT ![w] = t]
    /\ task' = [task EXCEPT ![k] = [kind |-> "rating", ws |-> w, tier |-> t]]
    /\ joins' = joins + 1
    /\ Tell({w} \cap {x \in Socket : queuedTier[x] # NoTier}, "left")
    /\ harmed' = harmed \cup ({w} \cap LookingUp)
    /\ UNCHANGED <<connVars, retries, pairVars, deckFailures, readFailures>>

\* What is left of joinQueue when no opponent was found: the socket may have
\* closed, left or been matched while the lookup was awaited.
Enqueue(w, t) ==
    IF addr[w] # Nobody /\ queuedTier[w] = t
    THEN /\ queue' = [queue EXCEPT ![t] = Append(@, w)]
         /\ Tell({w}, "searching")
    ELSE UNCHANGED <<queue, heard>>

\* Waiting sockets of another known address, with their place in the bucket.
Candidates(w, t) ==
    {[pos |-> i, ws |-> queue[t][i], addr |-> addr[queue[t][i]]] :
        i \in {j \in DOMAIN queue[t] : addr[queue[t][j]] \notin {Nobody, addr[w]}}}

\* The joiner's rating is in: snapshot the bucket.
RatingRead(k) ==
    /\ task[k] # Idle /\ task[k].kind = "rating"
    /\ task' = [task EXCEPT ![k] =
                  [kind |-> "pick", ws |-> task[k].ws, tier |-> task[k].tier,
                   cands |-> Candidates(task[k].ws, task[k].tier)]]
    /\ UNCHANGED <<connVars, queueVars, heard, retries, pairVars, bounds, harmed>>

\* getPlayerRating rejects for the joiner, or for one of its candidates: the
\* call ends there and nothing of it is undone.
RatingFails(k) ==
    /\ readFailures < MaxReadFailures
    /\ InLookup(k)
    /\ task[k].kind = "pick" => task[k].cands # {}
    /\ task' = [task EXCEPT ![k] = Idle]
    /\ readFailures' = readFailures + 1
    /\ harmed' = harmed \cup {task[k].ws}
    /\ UNCHANGED <<connVars, queueVars, heard, retries, pairVars, joins, deckFailures>>

\* q.splice(q.indexOf(w), 1): with w gone, indexOf is -1 and the LAST entry goes.
SpliceOut(q, w) ==
    IF Contains(q, w) THEN RemoveFirst(q, w)
    ELSE IF q = <<>> THEN q ELSE Front(q)

\* matchPair up to its await: both leave the search, the addresses are captured.
StartMatch(k, a, b, t) ==
    /\ queuedTier' = [w \in Socket |-> IF w \in {a, b} THEN NoTier ELSE queuedTier[w]]
    /\ task' = [task EXCEPT ![k] = [kind |-> "deck", tier |-> t, creator |-> a, challenger |-> b,
                                    creatorAddr |-> addr[a], challengerAddr |-> addr[b]]]

\* Whom a match with an opponent no longer in the bucket takes by surprise: that
\* opponent, and the entry spliced out in its place.
Displaced(q, w) ==
    IF Contains(q, w) THEN {} ELSE {w} \cup (IF q = <<>> THEN {} ELSE {Last(q)})

\* The candidates' ratings are in.  The chosen address stands for the first
\* snapshot entry that carries it.
PickOpponent(k, o) ==
    /\ task[k] # Idle /\ task[k].kind = "pick"
    /\ \E c \in task[k].cands :
          /\ c.ws = o
          /\ \A d \in task[k].cands : d.addr = c.addr => c.pos <= d.pos
    /\ queue' = [queue EXCEPT ![task[k].tier] = SpliceOut(@, o)]
    /\ StartMatch(k, o, task[k].ws, task[k].tier)
    /\ harmed' = harmed \cup Displaced(queue[task[k].tier], o)
    /\ UNCHANGED <<connVars, heard, retries, pairVars, bounds>>

PickNobody(k) ==
    /\ task[k] # Idle /\ task[k].kind = "pick"
    /\ Enqueue(task[k].ws, task[k].tier)
    /\ task' = [task EXCEPT ![k] = Idle]
    /\ UNCHANGED <<connVars, queuedTier, retries, pairVars, bounds, harmed>>

-----------------------------------------------------------------------------
(* matchPair after its await                                               *)

\* A pairing is remembered and timed only between two known addresses.
BothBoundMutant(m) == m.creatorAddr # Nobody
BothBound(m) == m.creatorAddr # Nobody /\ m.challengerAddr # Nobody

\* armHandshakeTimeout first clears the creator's previous timer.
ArmNotMutant(x) == timers
Arm(x) == {y \in timers : y.owner # x.owner} \cup {x}

DeckReady(k) ==
    /\ task[k] # Idle /\ task[k].kind = "deck"
    /\ LET m == task[k] IN
          /\ heard' = [w \in Socket |->
                          IF ~open[w] THEN heard[w]
                          ELSE IF w = m.challenger THEN "found as challenger"
                          ELSE IF w = m.creator THEN "found as creator"
                          ELSE heard[w]]
          /\ IF BothBound(m)
             THEN /\ pending' = [pending EXCEPT ![m.creatorAddr] = m.challengerAddr]
                  /\ timers' = Arm([owner |-> m.creatorAddr, creator |-> m.creator,
                                    challenger |-> m.challenger, peer |-> m.challengerAddr])
             ELSE UNCHANGED pairVars
    /\ task' = [task EXCEPT ![k] = Idle]
    /\ UNCHANGED <<connVars, queueVars, retries, bounds, harmed>>

\* requeue: only a socket still bound and not searching again goes back.
MayRequeueMutant(w) == addr[w] # Nobody
MayRequeue(w) == addr[w] # Nobody /\ queuedTier[w] = NoTier

PushMissing(q, w) == IF MayRequeue(w) /\ ~Contains(q, w) THEN Append(q, w) ELSE q

DeckFailed(k) ==
    /\ deckFailures < MaxDeckFailures
    /\ task[k] # Idle /\ task[k].kind = "deck"
    /\ LET m == task[k]  back == {w \in {m.creator, m.challenger} : MayRequeue(w)} IN
          /\ queuedTier' = [w \in Socket |-> IF w \in back THEN m.tier ELSE queuedTier[w]]
          /\ queue' = [queue EXCEPT ![m.tier] = PushMissing(PushMissing(@, m.creator), m.challenger)]
          /\ Tell(back, "searching")
          /\ retries' = retries \cup {[n |-> deckFailures, a |-> m.creator,
                                        b |-> m.challenger, tier |-> m.tier]}
          /\ harmed' = harmed \cup (back \cap LookingUp)
    /\ task' = [task EXCEPT ![k] = Idle]
    /\ deckFailures' = deckFailures + 1
    /\ UNCHANGED <<connVars, pairVars, joins, readFailures>>

StillPaired(r) ==
    /\ queuedTier[r.a] = r.tier /\ queuedTier[r.b] = r.tier
    /\ Contains(queue[r.tier], r.a) /\ Contains(queue[r.tier], r.b)

\* The 15 s retry timer of a failed pair.
RetryPair(r, k) ==
    /\ r \in retries
    /\ retries' = retries \ {r}
    /\ task[k] = Idle
    /\ IF StillPaired(r)
       THEN /\ queue' = [queue EXCEPT ![r.tier] = SpliceOut(SpliceOut(@, r.a), r.b)]
            /\ StartMatch(k, r.a, r.b, r.tier)
       ELSE UNCHANGED <<queueVars, task>>
    /\ UNCHANGED <<connVars, heard, pairVars, bounds, harmed>>

-----------------------------------------------------------------------------
(* The handshake                                                           *)

\* The 90 s teardown: both sockets of the pairing are told, nobody is requeued.
HandshakeTimeout(x) ==
    /\ x \in timers
    /\ timers' = timers \ {x}
    /\ IF pending[x.owner] = Nobody
       THEN UNCHANGED <<pending, heard>>
       ELSE /\ pending' = [pending EXCEPT ![x.owner] = Nobody]
            /\ Tell({x.creator, x.challenger}, "abandoned")
    /\ UNCHANGED <<connVars, queueVars, task, retries, bounds, harmed>>

\* takeMatchedPair, called by the indexer for every DuelCreated event: the
\* challenger's live sockets get duel_assigned.
DuelCreated(a) ==
    /\ pending' = [pending EXCEPT ![a] = Nobody]
    /\ timers' = {x \in timers : x.owner # a}
    /\ Tell({w \in Socket : addr[w] = pending[a] /\ pending[a] # Nobody}, "assigned")
    /\ UNCHANGED <<connVars, queueVars, task, retries, bounds, harmed>>

-----------------------------------------------------------------------------
HelloSome       == \E w \in Socket, a \in Address : Hello(w, a)
LeaveSome       == \E w \in Socket : LeaveQueue(w)
CloseSome       == \E w \in Socket : Close(w)
JoinSome        == \E w \in Socket, t \in Tier, k \in Task : JoinQueue(w, t, k)
PickSome(k)     == \E o \in Socket : PickOpponent(k, o)
RetrySome       == \E r \in retries, k \in Task : RetryPair(r, k)
TimeoutSome     == \E x \in timers : HandshakeTimeout(x)
DuelCreatedSome == \E a \in Address : DuelCreated(a)

Next ==
    \/ HelloSome \/ LeaveSome \/ CloseSome \/ JoinSome
    \/ \E k \in Task : RatingRead(k) \/ RatingFails(k) \/ PickSome(k) \/ PickNobody(k)
                       \/ DeckReady(k) \/ DeckFailed(k)
    \/ RetrySome
    \/ TimeoutSome
    \/ DuelCreatedSome

Spec == Init /\ [][Next]_vars

\* A timer that is not cleared fires; a creator's is replaced at most MaxJoins +
\* MaxDeckFailures times.  Nothing else has to happen: nobody has to join, leave
\* or create a duel, and no read has to answer.
Fairness == \A a \in Address : WF_vars(\E x \in timers : x.owner = a /\ HandshakeTimeout(x))

LiveSpec == Spec /\ Fairness

-----------------------------------------------------------------------------
(* Properties                                                              *)

MaybeAddress == Address \cup {Nobody}

\* What runs during a rating lookup can leave a match without an address.
Match == [kind : {"deck"}, tier : Tier, creator : Socket, challenger : Socket,
          creatorAddr : MaybeAddress, challengerAddr : MaybeAddress]

\* Every variable has its type.
TypeOK ==
    /\ open \in [Socket -> BOOLEAN]
    /\ addr \in [Socket -> MaybeAddress]
    /\ queuedTier \in [Socket -> Tier \cup {NoTier}]
    /\ heard \in [Socket -> {"nothing", "searching", "left", "abandoned", "assigned",
                          "found as creator", "found as challenger"}]
    /\ queue \in [Tier -> Seq(Socket)]
    /\ task \in [Task -> {Idle} \cup Lookup \cup Match]
    /\ retries \subseteq [n : 0..MaxDeckFailures, a : Socket, b : Socket, tier : Tier]
    /\ pending \in [Address -> MaybeAddress]
    /\ timers \subseteq Timer
    /\ joins \in 0..MaxJoins /\ deckFailures \in 0..MaxDeckFailures
    /\ readFailures \in 0..MaxReadFailures
    /\ harmed \subseteq Socket

\* A pairing and its teardown timer live and die together, whatever re-matches,
\* late duels and closes happen in between: a pending pairing has exactly one
\* timer and it names the challenger that is pending, so a timer armed for an
\* earlier pairing of the same creator can never tear down a later one.
HandshakeOwnsPair ==
    /\ \A a \in Address : pending[a] # Nobody =>
          \E x \in timers : x.owner = a /\ x.peer = pending[a]
    /\ \A x \in timers : pending[x.owner] = x.peer
    /\ \A x, y \in timers : x.owner = y.owner => x = y

\* A pairing never leaks: each is taken by the creator's duel, replaced by a
\* later match of the same creator, or torn down by its timer.
PairCleared ==
    \A a, b \in Address : pending[a] = b ~> pending[a] # b

Once(q, w) == \A i, j \in DOMAIN q : q[i] = w /\ q[j] = w => i = j

\* The queue and the sockets' own flags agree, whatever runs between the awaits:
\* a socket is in its tier's bucket exactly once if it is queued and not in its
\* own joinQueue, and in no other bucket; it is then connected.  The exceptions
\* are the sockets these four races have harmed, and no others: it joined or was
\* requeued during a lookup of its own, a stale snapshot matched it, it was
\* spliced out in the place of an opponent who had gone, its rating read failed.
QueueSound ==
    \A w \in Socket \ harmed :
        /\ \A t \in Tier : /\ Once(queue[t], w)
                           /\ w \in ToSet(queue[t]) => queuedTier[w] = t /\ addr[w] # Nobody
        /\ queuedTier[w] # NoTier => \/ w \in ToSet(queue[queuedTier[w]])
                                     \/ w \in LookingUp

\* "the player stays queued until they queue_leave or disconnect": a socket
\* marked as queued can be found in its bucket, unless its own joinQueue has
\* not finished.
StaysQueued ==
    \A w \in Socket : queuedTier[w] # NoTier =>
        \/ w \in ToSet(queue[queuedTier[w]])
        \/ w \in LookingUp

\* "the challenger waited forever": a connected challenger who was told
\* match_found and nothing since is covered by a teardown timer.
MatchedIsWatched ==
    \A w \in Socket : open[w] /\ heard[w] = "found as challenger" =>
        \E x \in timers : x.challenger = w
=============================================================================
