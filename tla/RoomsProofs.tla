----------------------------- MODULE RoomsProofs ----------------------------
(***************************************************************************)
(* Types, ForfeitMeansAway, GoneIsWatched, ViewNeverGoesBack and           *)
(* NoTickAfterComplete for any number of sockets, addresses, versions and  *)
(* queries in flight.                                                      *)
(*                                                                         *)
(* Nothing older reaches a client because of Fifo: as long as no query is  *)
(* overtaken and no write fails, the answers in flight are executed from   *)
(* the front, never decrease from the front to the back, and lie between   *)
(* what any client shows and the row.                                      *)
(***************************************************************************)
EXTENDS Rooms, SequenceTheorems, TLAPS

Got(i) == queries[i].got
IsMirror(i) == queries[i].from = Mirror

\* No answer is newer than the duel.
AnswersExist == \A i \in DOMAIN queries : Executed(i) => Got(i) <= chain

Fifo ==
    /\ \A i, j \in DOMAIN queries : i < j /\ Executed(j) =>
          Executed(i) /\ Got(i) <= Got(j)
    /\ \A i \in DOMAIN queries : Executed(i) =>
          /\ Got(i) <= row
          /\ \A s \in Socket : view[s] <= Got(i)
    /\ \A s \in Socket : view[s] <= row
    /\ fetched = 0 \/ row <= fetched
    /\ \A i \in DOMAIN queries : IsMirror(i) =>
          /\ fetched # 0
          /\ Executed(i) => Got(i) = fetched
    /\ \A i, j \in DOMAIN queries : IsMirror(i) /\ IsMirror(j) => i = j

InOrder == Without({"behind"}) => Fifo

IInv == TypeOK /\ AnswersExist /\ ForfeitMeansAway /\ GoneIsWatched /\ InOrder

-----------------------------------------------------------------------------
(* The queue of queries                                                    *)

LEMMA RemoveAtProperties ==
    ASSUME NEW S, NEW q \in Seq(S), NEW i \in 1..Len(q)
    PROVE  /\ RemoveAt(q, i) \in Seq(S)
           /\ Len(RemoveAt(q, i)) = Len(q) - 1
           /\ \A j \in 1..(Len(q) - 1) :
                 RemoveAt(q, i)[j] = IF j < i THEN q[j] ELSE q[j + 1]
<1> DEFINE a == SubSeq(q, 1, i - 1)
           b == SubSeq(q, i + 1, Len(q))
<1>1. Len(q) \in Nat /\ i \in Nat /\ i >= 1 /\ i <= Len(q)
  OBVIOUS
<1>2. \A j \in 1..Len(q) : q[j] \in S
  OBVIOUS
<1>3. /\ a \in Seq(S) /\ Len(a) = i - 1
      /\ \A j \in 1..(i - 1) : a[j] = q[j]
  <2>1. \A j \in 1..(i - 1) : q[j] \in S
    BY <1>1, <1>2
  <2>2. /\ a \in Seq(S) /\ Len(a) = IF 1 <= i - 1 THEN i - 1 - 1 + 1 ELSE 0
        /\ \A j \in 1..(i - 1 - 1 + 1) : a[j] = q[1 + j - 1]
    BY <1>1, <2>1, SubSeqProperties
  <2>. QED BY <1>1, <2>2
<1>4. /\ b \in Seq(S) /\ Len(b) = Len(q) - i
      /\ \A j \in 1..(Len(q) - i) : b[j] = q[i + j]
  <2>1. \A j \in (i + 1)..Len(q) : q[j] \in S
    BY <1>1, <1>2
  <2>2. /\ b \in Seq(S) /\ Len(b) = IF i + 1 <= Len(q) THEN Len(q) - (i + 1) + 1 ELSE 0
        /\ \A j \in 1..(Len(q) - (i + 1) + 1) : b[j] = q[i + 1 + j - 1]
    BY <1>1, <2>1, SubSeqProperties
  <2>3. Len(b) = Len(q) - i
    BY <1>1, <2>2
  <2>4. ASSUME NEW j \in 1..(Len(q) - i) PROVE b[j] = q[i + j]
    <3>1. j \in 1..(Len(q) - (i + 1) + 1) /\ i + 1 + j - 1 = i + j
      BY <1>1
    <3>. QED BY <2>2, <3>1
  <2>. QED BY <2>2, <2>3, <2>4
<1> HIDE DEF a, b
<1>5. /\ a \o b \in Seq(S) /\ Len(a \o b) = Len(a) + Len(b)
      /\ \A j \in 1..(Len(a) + Len(b)) :
            (a \o b)[j] = IF j <= Len(a) THEN a[j] ELSE b[j - Len(a)]
  BY <1>3, <1>4, ConcatProperties
<1>6. RemoveAt(q, i) = a \o b
  BY DEF RemoveAt, a, b
<1>7. Len(a) + Len(b) = Len(q) - 1
  BY <1>1, <1>3, <1>4
<1>8. ASSUME NEW j \in 1..(Len(q) - 1)
      PROVE  (a \o b)[j] = IF j < i THEN q[j] ELSE q[j + 1]
  <2>1. (a \o b)[j] = IF j <= i - 1 THEN a[j] ELSE b[j - (i - 1)]
    BY <1>3, <1>5, <1>7
  <2>2. CASE j < i
    BY <1>1, <1>3, <2>1, <2>2
  <2>3. CASE ~(j < i)
    <3>1. j - (i - 1) \in 1..(Len(q) - i) /\ i + (j - (i - 1)) = j + 1 /\ ~(j <= i - 1)
      BY <1>1, <2>3
    <3>. QED BY <1>4, <2>1, <2>3, <3>1
  <2>. QED BY <2>2, <2>3
<1>. QED BY <1>5, <1>6, <1>7, <1>8

\* An answered query leaves the queue and the others keep their order.
LEMMA AnsweredProperties ==
    ASSUME TypeOK, NEW i \in DOMAIN queries, Answered(i)
    PROVE  /\ queries' \in Seq(Query)
           /\ \A j \in DOMAIN queries' : \E k \in DOMAIN queries :
                 /\ queries'[j] = queries[k]
                 /\ k = IF j < i THEN j ELSE j + 1
<1>1. queries \in Seq(Query) /\ i \in 1..Len(queries)
  BY DEF TypeOK
<1>2. /\ queries' \in Seq(Query) /\ Len(queries') = Len(queries) - 1
      /\ \A j \in 1..(Len(queries) - 1) :
            queries'[j] = IF j < i THEN queries[j] ELSE queries[j + 1]
  BY <1>1, RemoveAtProperties DEF Answered
<1>3. DOMAIN queries' = 1..(Len(queries) - 1) /\ DOMAIN queries = 1..Len(queries)
  BY <1>1, <1>2
<1>. QED BY <1>1, <1>2, <1>3

\* A new query waits at the end, not executed.
LEMMA AskedProperties ==
    ASSUME TypeOK, NEW who \in Socket \cup {Clock, Mirror},
           queries' = Append(queries, [from |-> who, got |-> NotYet])
    PROVE  /\ queries' \in Seq(Query)
           /\ DOMAIN queries' = 1..(Len(queries) + 1)
           /\ DOMAIN queries = 1..Len(queries) /\ Len(queries) \in Nat
           /\ \A j \in DOMAIN queries : queries'[j] = queries[j]
           /\ queries'[Len(queries) + 1] = [from |-> who, got |-> NotYet]
<1>1. queries \in Seq(Query) /\ [from |-> who, got |-> NotYet] \in Query
  BY DEF TypeOK, Query
<1>. QED BY <1>1, AppendProperties
-----------------------------------------------------------------------------
(* What keeps Fifo                                                         *)

LEMMA NumbersAreNat ==
    ASSUME TypeOK
    PROVE  /\ chain \in Nat /\ row \in Nat /\ fetched \in Nat /\ drained \in Nat
           /\ \A i \in DOMAIN queries : queries[i] \in Query
           /\ \A i \in DOMAIN queries : Executed(i) => Got(i) \in Version
           /\ \A i \in DOMAIN queries : Executed(i) => Got(i) \in Nat
           /\ \A s \in Socket : view[s] \in Nat
<1>1. chain \in Nat /\ row \in Nat /\ fetched \in Nat /\ drained \in Nat
  BY RoomsAssumption DEF TypeOK, Version
<1>2. \A i \in DOMAIN queries : queries[i] \in Query
  BY DEF TypeOK
<1>3. \A i \in DOMAIN queries : Executed(i) => Got(i) \in Version
  BY <1>2 DEF Query, Executed, Got
<1>4. \A i \in DOMAIN queries : Executed(i) => Got(i) \in Nat
  BY <1>3, RoomsAssumption DEF Version
<1>5. \A s \in Socket : view[s] \in Nat
  BY <1>1 DEF TypeOK
<1>. QED BY <1>1, <1>2, <1>3, <1>4, <1>5

\* A client that shows less, or nothing, disturbs nothing.
LEMMA ShowsLess ==
    ASSUME IInv, UNCHANGED <<queries, row, fetched, mishaps>>,
           \A s \in Socket : view'[s] = view[s] \/ view'[s] = 0
    PROVE  InOrder'
<1>. SUFFICES ASSUME Without({"behind"})' PROVE Fifo'
  BY DEF InOrder
<1>1. Fifo
  BY DEF IInv, InOrder, Without
<1>2. /\ row \in Nat
      /\ \A i \in DOMAIN queries : Executed(i) => Got(i) \in Nat
  BY NumbersAreNat DEF IInv
<1>3. \A i : Executed(i)' = Executed(i) /\ Got(i)' = Got(i) /\ IsMirror(i)' = IsMirror(i)
  BY DEF Executed, Got, IsMirror
<1>4. \A i \in DOMAIN queries : Executed(i) =>
          Got(i) <= row /\ \A s \in Socket : view'[s] <= Got(i)
  BY <1>1, <1>2 DEF Fifo
<1>5. \A s \in Socket : view'[s] <= row
  BY <1>1, <1>2 DEF Fifo
<1>. QED BY <1>1, <1>3, <1>4, <1>5 DEF Fifo

\* A new query waits behind all others.
LEMMA AsksInOrder ==
    ASSUME IInv, NEW who \in Socket \cup {Clock, Mirror},
           queries' = Append(queries, [from |-> who, got |-> NotYet]),
           UNCHANGED <<view, row, mishaps>>,
           \/ who # Mirror /\ fetched' = fetched
           \/ fetched = 0 /\ fetched' # 0 /\ row <= fetched'
    PROVE  InOrder'
<1>. SUFFICES ASSUME Without({"behind"})' PROVE Fifo'
  BY DEF InOrder
<1>0. PICK n \in Nat : n = Len(queries) + 1
  BY AskedProperties DEF IInv
<1>1. Fifo
  BY DEF IInv, InOrder, Without
<1>2. /\ DOMAIN queries' = 1..n /\ DOMAIN queries = 1..(n - 1) /\ n \in Nat
      /\ \A j \in DOMAIN queries : queries'[j] = queries[j]
      /\ queries'[n] = [from |-> who, got |-> NotYet]
  BY <1>0, AskedProperties DEF IInv
<1>3. /\ ~Executed(n)' /\ (IsMirror(n)' <=> who = Mirror)
      /\ \A j \in DOMAIN queries :
            /\ (Executed(j)' <=> Executed(j)) /\ Got(j)' = Got(j)
            /\ (IsMirror(j)' <=> IsMirror(j))
  BY <1>2 DEF Executed, Got, IsMirror
<1>4. \A j \in DOMAIN queries' : j \in DOMAIN queries \/ j = n
  BY <1>2
<1>5. fetched = 0 => \A j \in DOMAIN queries : ~IsMirror(j)
  BY <1>1 DEF Fifo
<1>6. \A i, j \in DOMAIN queries' : i < j /\ Executed(j)' =>
          Executed(i)' /\ Got(i)' <= Got(j)'
  <2>. SUFFICES ASSUME NEW i \in DOMAIN queries', NEW j \in DOMAIN queries',
                       i < j, Executed(j)'
                PROVE  Executed(i)' /\ Got(i)' <= Got(j)'
    OBVIOUS
  <2>1. j \in DOMAIN queries /\ i \in DOMAIN queries
    BY <1>2, <1>3, <1>4
  <2>. QED BY <1>1, <1>3, <2>1 DEF Fifo
<1>7. \A i \in DOMAIN queries' : Executed(i)' =>
          Got(i)' <= row' /\ \A s \in Socket : view'[s] <= Got(i)'
  BY <1>1, <1>3, <1>4 DEF Fifo
<1>8. \A i \in DOMAIN queries' : IsMirror(i)' =>
          fetched' # 0 /\ (Executed(i)' => Got(i)' = fetched')
  <2>. SUFFICES ASSUME NEW i \in DOMAIN queries', IsMirror(i)'
                PROVE  fetched' # 0 /\ (Executed(i)' => Got(i)' = fetched')
    OBVIOUS
  <2>1. CASE i = n
    BY <1>1, <1>3, <2>1
  <2>2. CASE i \in DOMAIN queries
    <3>1. IsMirror(i) /\ fetched # 0
      BY <1>3, <1>5, <2>2
    <3>. QED BY <1>1, <1>3, <2>2, <3>1 DEF Fifo
  <2>. QED BY <1>4, <2>1, <2>2
<1>9. \A i, j \in DOMAIN queries' : IsMirror(i)' /\ IsMirror(j)' => i = j
  <2>1. IsMirror(n)' => \A j \in DOMAIN queries : ~IsMirror(j)'
    BY <1>3, <1>5
  <2>2. \A i, j \in DOMAIN queries : IsMirror(i)' /\ IsMirror(j)' => i = j
    BY <1>1, <1>3 DEF Fifo
  <2>. QED BY <1>4, <2>1, <2>2
<1>10. (\A s \in Socket : view'[s] <= row') /\ (fetched' = 0 \/ row' <= fetched')
  BY <1>1 DEF Fifo
<1>. QED BY <1>6, <1>7, <1>8, <1>9, <1>10 DEF Fifo

\* Taking an answer from the front, and showing it or not.
LEMMA RepliesInOrder ==
    ASSUME IInv, NEW i \in DOMAIN queries, Answered(i), InTurn(i), Executed(i),
           row' = row,
           \A s \in Socket : view'[s] = view[s] \/ view'[s] = Got(i),
           (~IsMirror(i) /\ fetched' = fetched) \/ (IsMirror(i) /\ fetched' = 0)
    PROVE  InOrder'
<1>. SUFFICES ASSUME Without({"behind"})' PROVE Fifo'
  BY DEF InOrder
<1>0. queries \in Seq(Query) /\ i \in 1..Len(queries)
  BY DEF IInv, TypeOK
<1>1. i = 1 /\ mishaps' = mishaps
  BY <1>0 DEF InTurn, Happens, Without
<1>2. Fifo
  BY <1>1 DEF IInv, InOrder, Without
<1>3. \A j \in DOMAIN queries' : j + 1 \in DOMAIN queries /\ queries'[j] = queries[j + 1]
                                 /\ j \in Nat /\ j >= 1
  <2>. SUFFICES ASSUME NEW j \in DOMAIN queries'
                PROVE  j + 1 \in DOMAIN queries /\ queries'[j] = queries[j + 1] /\ j \in Nat /\ j >= 1
    OBVIOUS
  <2>1. PICK k \in DOMAIN queries : queries'[j] = queries[k] /\ k = IF j < i THEN j ELSE j + 1
    BY AnsweredProperties DEF IInv
  <2>2. j \in Nat /\ j >= 1
    BY AnsweredProperties DEF IInv
  <2>. QED BY <1>1, <2>1, <2>2
<1>4. \A j \in DOMAIN queries' :
          /\ Executed(j)' = Executed(j + 1) /\ Got(j)' = Got(j + 1)
          /\ IsMirror(j)' = IsMirror(j + 1)
  BY <1>3 DEF Executed, Got, IsMirror
<1>5. \A j \in DOMAIN queries' : Executed(j)' => Got(i) <= Got(j)'
  BY <1>1, <1>2, <1>3, <1>4 DEF Fifo
<1>6. \A j, k \in DOMAIN queries' : j < k /\ Executed(k)' =>
          Executed(j)' /\ Got(j)' <= Got(k)'
  <2>. SUFFICES ASSUME NEW j \in DOMAIN queries', NEW k \in DOMAIN queries',
                       j < k, Executed(k)'
                PROVE  Executed(j)' /\ Got(j)' <= Got(k)'
    OBVIOUS
  <2>1. j + 1 \in DOMAIN queries /\ k + 1 \in DOMAIN queries /\ j + 1 < k + 1
    BY <1>3
  <2>. QED BY <1>2, <1>4, <2>1 DEF Fifo
<1>7. \A j \in DOMAIN queries' : Executed(j)' =>
          Got(j)' <= row' /\ \A s \in Socket : view'[s] <= Got(j)'
  BY <1>2, <1>3, <1>4, <1>5 DEF Fifo
<1>8. \A s \in Socket : view'[s] <= row'
  BY <1>2 DEF Fifo
<1>9. fetched' = 0 \/ row' <= fetched'
  BY <1>2 DEF Fifo
<1>10. \A j \in DOMAIN queries' : IsMirror(j)' =>
          fetched' # 0 /\ (Executed(j)' => Got(j)' = fetched')
  <2>. SUFFICES ASSUME NEW j \in DOMAIN queries', IsMirror(j)'
                PROVE  fetched' # 0 /\ (Executed(j)' => Got(j)' = fetched')
    OBVIOUS
  <2>1. j + 1 \in DOMAIN queries /\ IsMirror(j + 1) /\ j + 1 # i
    BY <1>1, <1>3, <1>4
  <2>2. ~IsMirror(i)
    BY <1>2, <2>1 DEF Fifo
  <2>. QED BY <1>2, <1>4, <2>1, <2>2 DEF Fifo
<1>11. \A j, k \in DOMAIN queries' : IsMirror(j)' /\ IsMirror(k)' => j = k
  <2>. SUFFICES ASSUME NEW j \in DOMAIN queries', NEW k \in DOMAIN queries',
                       IsMirror(j)', IsMirror(k)'
                PROVE  j = k
    OBVIOUS
  <2>1. j + 1 = k + 1 /\ j \in Nat /\ k \in Nat
    BY <1>2, <1>3, <1>4 DEF Fifo
  <2>. QED BY <2>1
<1>. QED BY <1>6, <1>7, <1>8, <1>9, <1>10, <1>11 DEF Fifo
-----------------------------------------------------------------------------
(* Sockets                                                                 *)

LEMMA SubscribersAreSockets == ASSUME IInv PROVE roomSubscribers \subseteq Socket
<1>1. roomSubscribers \subseteq open /\ open \subseteq 1..opened /\ opened \in 0..MaxSockets
  BY DEF IInv, TypeOK
<1>2. 1..opened \subseteq 1..MaxSockets
  BY <1>1, RoomsAssumption
<1>. QED BY <1>1, <1>2 DEF Socket

LEMMA InitIInv == Init => IInv
<1>. SUFFICES ASSUME Init PROVE IInv
  OBVIOUS
<1>1. TypeOK
  BY RoomsAssumption DEF Init, TypeOK, Version
<1>2. DOMAIN queries = {}
  BY DEF Init
<1>3. ForfeitMeansAway /\ GoneIsWatched
  BY DEF Init, ForfeitMeansAway, GoneIsWatched
<1>4. Fifo
  BY <1>2 DEF Init, Fifo
<1>. QED BY <1>1, <1>2, <1>3, <1>4 DEF IInv, AnswersExist, InOrder

LEMMA AnswersStay ==
    ASSUME AnswersExist, UNCHANGED <<queries, chain>> PROVE AnswersExist'
BY DEF AnswersExist, Executed, Got

LEMMA OpenStep == ASSUME IInv, Open PROVE IInv'
<1>1. TypeOK'
  BY RoomsAssumption DEF IInv, TypeOK, Open, chainVars, dbVars, roomVars, peerVars
<1>2. UNCHANGED <<queries, chain, row, fetched, mishaps, view, announced, forfeitTimers,
                  left, roomSubscribers>>
  BY DEF Open, chainVars, dbVars, roomVars, peerVars
<1>3. AnswersExist' /\ InOrder'
  BY <1>2, AnswersStay, ShowsLess DEF IInv
<1>4. ForfeitMeansAway' /\ GoneIsWatched'
  BY <1>2 DEF IInv, ForfeitMeansAway, GoneIsWatched
<1>. QED BY <1>1, <1>3, <1>4 DEF IInv

LEMMA HelloStep == ASSUME IInv, NEW s \in Socket, NEW a \in Address, Hello(s, a) PROVE IInv'
<1>2. UNCHANGED <<queries, chain, drained, row, fetched, mishaps, view, forfeitTimers,
                  left, roomSubscribers, subscribedDuels, opened, open>>
  BY DEF Hello, chainVars, dbVars, roomVars, peerVars
<1>1. TypeOK'
  <2>1. /\ bound' \in [Socket -> Address \cup {NoAddress}]
        /\ announced' \in [Socket -> Address \cup {NoAddress}]
    BY DEF IInv, TypeOK, Hello
  <2>2. \A w \in Socket : announced'[w] # NoAddress =>
            announced'[w] = bound'[w] /\ w \in roomSubscribers
    BY DEF IInv, TypeOK, Hello
  <2>. QED BY <1>2, <2>1, <2>2 DEF IInv, TypeOK
<1>3. AnswersExist' /\ InOrder'
  BY <1>2, AnswersStay, ShowsLess DEF IInv
<1>4. \A w \in Socket : announced'[w] = announced[w] \/ announced'[w] = NoAddress
  BY DEF Hello, IInv, TypeOK
<1>5. ForfeitMeansAway' /\ GoneIsWatched'
  BY <1>2, <1>4, RoomsAssumption DEF IInv, TypeOK, ForfeitMeansAway, GoneIsWatched
<1>. QED BY <1>1, <1>3, <1>5 DEF IInv

LEMMA SubscribeStep == ASSUME IInv, NEW s \in Socket, SubscribeRoom(s) PROVE IInv'
<1>1. /\ s \in open
      /\ queries' = Append(queries, [from |-> s, got |-> NotYet])
      /\ roomSubscribers' = roomSubscribers \cup {s}
      /\ subscribedDuels' = subscribedDuels \cup {s}
      /\ announced' = [announced EXCEPT ![s] = bound[s]]
      /\ forfeitTimers' = forfeitTimers \ Returns(s)
      /\ left' = left \ Rejoined(s)
      /\ UNCHANGED <<view, opened, open, bound, chain, drained, fetched, row, mishaps>>
  BY DEF SubscribeRoom, Snapshot, Asks, chainVars
<1>2. TypeOK'
  <2>1. queries' \in Seq(Query)
    BY <1>1, AskedProperties DEF IInv
  <2>2. /\ announced' \in [Socket -> Address \cup {NoAddress}]
        /\ \A w \in Socket : announced'[w] # NoAddress =>
              announced'[w] = bound[w] /\ w \in roomSubscribers'
    BY <1>1 DEF IInv, TypeOK
  <2>3. /\ roomSubscribers' = subscribedDuels' /\ roomSubscribers' \subseteq open
        /\ forfeitTimers' \subseteq Address /\ left' \subseteq Socket \X Address
        /\ \A w \in Socket : w \notin roomSubscribers' => view[w] = 0
    BY <1>1 DEF IInv, TypeOK
  <2>. QED BY <1>1, <2>1, <2>2, <2>3 DEF IInv, TypeOK
<1>3. AnswersExist'
  <2>. SUFFICES ASSUME NEW i \in DOMAIN queries', Executed(i)' PROVE Got(i)' <= chain'
    BY DEF AnswersExist
  <2>1. i \in DOMAIN queries /\ queries'[i] = queries[i]
    BY <1>1, AskedProperties DEF IInv, Executed
  <2>. QED BY <1>1, <2>1 DEF IInv, AnswersExist, Executed, Got
<1>4. InOrder'
  BY <1>1, AsksInOrder, RoomsAssumption
<1>5. ForfeitMeansAway'
  <2>. SUFFICES ASSUME NEW a \in forfeitTimers', NEW w \in Socket PROVE announced'[w] # a
    BY DEF ForfeitMeansAway
  <2>1. a \in forfeitTimers /\ a # bound[s]
    BY <1>1 DEF Returns
  <2>. QED BY <1>1, <2>1 DEF IInv, ForfeitMeansAway, TypeOK
<1>6. GoneIsWatched'
  <2>. SUFFICES ASSUME NEW p \in left'
                PROVE  p[1] \in roomSubscribers' /\ p[2] \in forfeitTimers'
    BY DEF GoneIsWatched
  <2>1. p \in left /\ p \notin Rejoined(s)
    BY <1>1
  <2>2. p[1] \in roomSubscribers /\ p[2] \in forfeitTimers /\ p \in Socket \X Address
    BY <2>1 DEF IInv, GoneIsWatched, TypeOK
  <2>3. p[2] \notin Returns(s)
    BY <2>1, <2>2 DEF Rejoined
  <2>. QED BY <1>1, <2>2, <2>3
<1>. QED BY <1>2, <1>3, <1>4, <1>5, <1>6 DEF IInv

\* What leaving the room does, for UnsubscribeRoom and OnSocketClose.
LEMMA GoneProperties ==
    ASSUME IInv, NEW s \in Socket, Gone(s)
    PROVE  /\ roomSubscribers' = roomSubscribers \ {s}
           /\ subscribedDuels' = subscribedDuels \ {s}
           /\ \A w \in Socket : view'[w] = IF w = s THEN 0 ELSE view[w]
           /\ \A w \in Socket : announced'[w] = IF w = s THEN NoAddress ELSE announced[w]
           /\ view' \in [Socket -> 0..chain]
           /\ announced' \in [Socket -> Address \cup {NoAddress}]
<1>1. view \in [Socket -> 0..chain] /\ announced \in [Socket -> Address \cup {NoAddress}]
      /\ chain \in Nat
  BY NumbersAreNat DEF IInv, TypeOK
<1>. QED BY <1>1 DEF Gone

LEMMA UnsubscribeStep == ASSUME IInv, NEW s \in Socket, UnsubscribeRoom(s) PROVE IInv'
<1>1. /\ left' = left \ ({s} \X Address)
      /\ UNCHANGED <<forfeitTimers, opened, open, bound, chain, drained, fetched, row, queries,
                     mishaps>>
      /\ Gone(s)
  BY DEF UnsubscribeRoom, chainVars, dbVars
<1>2. TypeOK'
  BY <1>1, GoneProperties DEF IInv, TypeOK
<1>3. AnswersExist' /\ InOrder'
  BY <1>1, GoneProperties, AnswersStay, ShowsLess DEF IInv
<1>4. ForfeitMeansAway'
  BY <1>1, GoneProperties, RoomsAssumption DEF IInv, TypeOK, ForfeitMeansAway
<1>5. GoneIsWatched'
  BY <1>1, GoneProperties DEF IInv, TypeOK, GoneIsWatched
<1>. QED BY <1>2, <1>3, <1>4, <1>5 DEF IInv

LEMMA CloseStep == ASSUME IInv, NEW s \in Socket, OnSocketClose(s) PROVE IInv'
<1>1. /\ s \in open /\ open' = open \ {s}
      /\ forfeitTimers' = forfeitTimers \cup Departs(s)
      /\ left' = (left \ ({s} \X Address)) \cup ((roomSubscribers \ {s}) \X Departs(s))
      /\ bound' = [bound EXCEPT ![s] = NoAddress]
      /\ UNCHANGED <<opened, chain, drained, fetched, row, queries, mishaps>>
      /\ Gone(s)
  BY DEF OnSocketClose, chainVars, dbVars
<1>2. Departs(s) \subseteq Address
  BY DEF IInv, TypeOK, Departs
<1>3. TypeOK'
  <2>1. roomSubscribers \subseteq Socket
    BY SubscribersAreSockets
  <2>2. /\ bound' \in [Socket -> Address \cup {NoAddress}]
        /\ \A w \in Socket : announced'[w] # NoAddress =>
              announced'[w] = bound'[w] /\ w \in roomSubscribers'
    <3>1. bound \in [Socket -> Address \cup {NoAddress}]
      BY DEF IInv, TypeOK
    <3>2. /\ bound' \in [Socket -> Address \cup {NoAddress}]
          /\ \A w \in Socket : w # s => bound'[w] = bound[w]
      BY <1>1, <3>1
    <3>3. ASSUME NEW w \in Socket, announced'[w] # NoAddress
          PROVE  announced'[w] = bound'[w] /\ w \in roomSubscribers'
      <4>1. w # s /\ announced[w] # NoAddress /\ announced'[w] = announced[w]
        BY <1>1, <3>3, GoneProperties
      <4>2. announced[w] = bound[w] /\ w \in roomSubscribers
        BY <4>1 DEF IInv, TypeOK
      <4>. QED BY <1>1, <3>2, <4>1, <4>2, GoneProperties
    <3>. QED BY <3>2, <3>3
  <2>3. /\ roomSubscribers' = subscribedDuels' /\ roomSubscribers' \subseteq open'
        /\ open' \subseteq 1..opened
        /\ forfeitTimers' \subseteq Address /\ left' \subseteq Socket \X Address
        /\ \A w \in Socket : w \notin roomSubscribers' => view'[w] = 0
    BY <1>1, <1>2, <2>1, GoneProperties DEF IInv, TypeOK
  <2>. QED BY <1>1, <2>2, <2>3, GoneProperties DEF IInv, TypeOK
<1>4. AnswersExist' /\ InOrder'
  BY <1>1, GoneProperties, AnswersStay, ShowsLess DEF IInv
<1>5. ForfeitMeansAway'
  <2>. SUFFICES ASSUME NEW a \in forfeitTimers', NEW w \in Socket, announced'[w] = a
                PROVE  FALSE
    BY DEF ForfeitMeansAway
  <2>1. a \in Address
    BY <1>3 DEF TypeOK
  <2>2. w # s /\ announced[w] = a /\ a # NoAddress
    BY <2>1, <1>1, GoneProperties, RoomsAssumption
  <2>3. a \notin forfeitTimers
    BY <2>2 DEF IInv, ForfeitMeansAway
  <2>4. bound[w] = a /\ w \in roomSubscribers
    BY <2>2 DEF IInv, TypeOK
  <2>5. a = bound[s] /\ ~StillInRoom(s, a)
    BY <1>1, <2>3 DEF Departs
  <2>. QED BY <2>2, <2>4, <2>5 DEF StillInRoom
<1>6. GoneIsWatched'
  <2>. SUFFICES ASSUME NEW p \in left'
                PROVE  p[1] \in roomSubscribers' /\ p[2] \in forfeitTimers'
    BY DEF GoneIsWatched
  <2>0. roomSubscribers' = roomSubscribers \ {s}
    BY <1>1, GoneProperties
  <2>1. CASE p \in left \ ({s} \X Address)
    <3>1. p \in Socket \X Address
      BY <2>1 DEF IInv, TypeOK
    <3>2. p[1] # s
      BY <2>1, <3>1
    <3>3. p[1] \in roomSubscribers /\ p[2] \in forfeitTimers
      BY <2>1 DEF IInv, GoneIsWatched
    <3>. QED BY <1>1, <2>0, <3>2, <3>3
  <2>2. CASE p \in (roomSubscribers \ {s}) \X Departs(s)
    BY <1>1, <2>0, <2>2
  <2>. QED BY <1>1, <2>1, <2>2
<1>. QED BY <1>3, <1>4, <1>5, <1>6 DEF IInv

LEMMA ForfeitStep == ASSUME IInv, NEW a \in Address, PeerForfeit(a) PROVE IInv'
<1>1. /\ forfeitTimers' = forfeitTimers \ {a}
      /\ left' = left \ (roomSubscribers \X {a})
      /\ UNCHANGED <<opened, open, bound, announced, roomSubscribers, subscribedDuels, view,
                     chain, drained, fetched, row, queries, mishaps>>
  BY DEF PeerForfeit, chainVars, dbVars, socketVars, roomVars
<1>2. TypeOK'
  BY <1>1 DEF IInv, TypeOK
<1>3. AnswersExist' /\ InOrder'
  BY <1>1, AnswersStay, ShowsLess DEF IInv
<1>4. ForfeitMeansAway'
  BY <1>1 DEF IInv, ForfeitMeansAway
<1>5. GoneIsWatched'
  BY <1>1 DEF IInv, TypeOK, GoneIsWatched
<1>. QED BY <1>2, <1>3, <1>4, <1>5 DEF IInv

-----------------------------------------------------------------------------
(* The duel and its mirror                                                 *)

\* What neither touches presence nor sockets keeps what is said of them.
LEMMA PresenceStays ==
    ASSUME IInv, UNCHANGED <<announced, forfeitTimers, left, roomSubscribers>>
    PROVE  ForfeitMeansAway' /\ GoneIsWatched'
BY DEF IInv, ForfeitMeansAway, GoneIsWatched

\* TypeOK of a step that leaves the sockets alone.
LEMMA DataTypes ==
    ASSUME IInv, UNCHANGED <<socketVars, roomSubscribers, subscribedDuels, peerVars>>,
           chain' \in Version, drained' \in 0..chain', fetched' \in 0..chain',
           row' \in 0..chain', queries' \in Seq(Query), mishaps' \subseteq Mishap,
           view' \in [Socket -> 0..chain'],
           \A s \in Socket : s \notin roomSubscribers => view'[s] = 0
    PROVE  TypeOK'
BY DEF IInv, TypeOK, socketVars, peerVars

LEMMA AskedAnswers ==
    ASSUME IInv, NEW who \in Socket \cup {Clock, Mirror}, chain' = chain,
           queries' = Append(queries, [from |-> who, got |-> NotYet])
    PROVE  AnswersExist'
<1>. SUFFICES ASSUME NEW i \in DOMAIN queries', Executed(i)' PROVE Got(i)' <= chain'
  BY DEF AnswersExist
<1>1. i \in DOMAIN queries /\ queries'[i] = queries[i]
  BY AskedProperties DEF IInv, Executed
<1>. QED BY <1>1 DEF IInv, AnswersExist, Executed, Got

LEMMA MovesStep == ASSUME IInv, Moves PROVE IInv'
<1>1. /\ chain < Complete /\ chain' = chain + 1
      /\ UNCHANGED <<drained, fetched, row, queries, socketVars, roomSubscribers,
                     subscribedDuels, view, peerVars, mishaps>>
  BY DEF Moves, dbVars, roomVars
<1>2. /\ chain \in Nat /\ \A i \in DOMAIN queries : Executed(i) => Got(i) \in Nat
  BY NumbersAreNat DEF IInv
<1>3. TypeOK'
  <2>1. view \in [Socket -> 0..chain']
    <3>1. view \in [Socket -> 0..chain] /\ 0..chain \subseteq 0..chain'
      BY <1>1, <1>2 DEF IInv, TypeOK
    <3>. QED BY <3>1
  <2>2. chain' \in Version /\ drained \in 0..chain' /\ fetched \in 0..chain' /\ row \in 0..chain'
    BY <1>1, <1>2, RoomsAssumption DEF IInv, TypeOK, Version
  <2>3. /\ queries \in Seq(Query) /\ mishaps \subseteq Mishap
        /\ \A s \in Socket : s \notin roomSubscribers => view[s] = 0
    BY DEF IInv, TypeOK
  <2>. QED BY <1>1, <2>1, <2>2, <2>3, DataTypes
<1>4. AnswersExist'
  BY <1>1, <1>2 DEF IInv, AnswersExist, Executed, Got
<1>5. InOrder'
  BY <1>1, ShowsLess
<1>6. ForfeitMeansAway' /\ GoneIsWatched'
  BY <1>1, PresenceStays DEF socketVars, peerVars
<1>. QED BY <1>3, <1>4, <1>5, <1>6 DEF IInv

LEMMA RefreshStep == ASSUME IInv, RefreshDuel PROVE IInv'
<1>1. /\ fetched = 0 /\ drained < chain /\ drained' \in (drained + 1)..chain
      /\ fetched' = chain
      /\ queries' = Append(queries, [from |-> Mirror, got |-> NotYet])
      /\ UNCHANGED <<chain, row, socketVars, roomSubscribers, subscribedDuels, view,
                     peerVars, mishaps>>
  BY DEF RefreshDuel, roomVars
<1>2. chain \in Nat /\ drained \in Nat /\ row \in 0..chain
  BY NumbersAreNat DEF IInv, TypeOK
<1>3. TypeOK'
  <2>1. queries' \in Seq(Query)
    BY <1>1, AskedProperties DEF IInv
  <2>2. drained' \in 0..chain /\ fetched' \in 0..chain
    BY <1>1, <1>2
  <2>3. /\ chain \in Version /\ mishaps \subseteq Mishap /\ view \in [Socket -> 0..chain]
        /\ \A s \in Socket : s \notin roomSubscribers => view[s] = 0
    BY DEF IInv, TypeOK
  <2>. QED BY <1>1, <1>2, <2>1, <2>2, <2>3, DataTypes
<1>4. AnswersExist'
  BY <1>1, AskedAnswers
<1>5. InOrder'
  <2>1. fetched' # 0 /\ row <= fetched'
    BY <1>1, <1>2
  <2>. QED BY <1>1, <2>1, AsksInOrder
<1>6. ForfeitMeansAway' /\ GoneIsWatched'
  BY <1>1, PresenceStays DEF socketVars, peerVars
<1>. QED BY <1>3, <1>4, <1>5, <1>6 DEF IInv

\* A mishap that overtakes nothing.
LEMMA MishapInOrder ==
    ASSUME IInv, NEW kind \in {"lost", "unread", "restart"}, Happens(kind)
    PROVE  /\ mishaps' \subseteq Mishap
           /\ Without({"behind"})' => Without({"behind"})
BY DEF IInv, TypeOK, Happens, Mishap, Without

LEMMA FetchFailsStep == ASSUME IInv, FetchFails PROVE IInv'
<1>1. /\ drained < chain /\ drained' \in (drained + 1)..chain /\ Happens("lost")
      /\ UNCHANGED <<chain, fetched, row, queries, socketVars, roomSubscribers,
                     subscribedDuels, view, peerVars>>
  BY DEF FetchFails, dbVars, roomVars
<1>2. chain \in Nat /\ drained \in Nat
  BY NumbersAreNat DEF IInv
<1>3. TypeOK'
  <2>1. drained' \in 0..chain
    BY <1>1, <1>2
  <2>2. /\ chain \in Version /\ view \in [Socket -> 0..chain]
        /\ fetched \in 0..chain /\ row \in 0..chain /\ queries \in Seq(Query)
        /\ \A s \in Socket : s \notin roomSubscribers => view[s] = 0
    BY DEF IInv, TypeOK
  <2>. QED BY <1>1, <2>1, <2>2, MishapInOrder, DataTypes
<1>4. AnswersExist'
  BY <1>1, AnswersStay DEF IInv
<1>5. InOrder'
  <2>1. Fifo => Fifo'
    BY <1>1 DEF Fifo, Executed, Got, IsMirror
  <2>. QED BY <1>1, <2>1, MishapInOrder DEF IInv, InOrder
<1>6. ForfeitMeansAway' /\ GoneIsWatched'
  BY <1>1, PresenceStays DEF socketVars, peerVars
<1>. QED BY <1>3, <1>4, <1>5, <1>6 DEF IInv

LEMMA TickStep == ASSUME IInv, Tick PROVE IInv'
<1>1. /\ queries' = Append(queries, [from |-> Clock, got |-> NotYet])
      /\ UNCHANGED <<chain, drained, fetched, row, socketVars, roomSubscribers,
                     subscribedDuels, view, peerVars, mishaps>>
  BY DEF Tick, Asks, chainVars, roomVars
<1>2. TypeOK'
  <2>1. queries' \in Seq(Query)
    BY <1>1, AskedProperties DEF IInv
  <2>. QED BY <1>1, <2>1, DataTypes DEF IInv, TypeOK
<1>3. AnswersExist'
  BY <1>1, AskedAnswers
<1>4. InOrder'
  BY <1>1, AsksInOrder, RoomsAssumption
<1>5. ForfeitMeansAway' /\ GoneIsWatched'
  BY <1>1, PresenceStays DEF socketVars, peerVars
<1>. QED BY <1>2, <1>3, <1>4, <1>5 DEF IInv

-----------------------------------------------------------------------------
(* The database                                                            *)

\* What executing a query does to it and to the row.
LEMMA ExecutesProperties ==
    ASSUME IInv, NEW i \in DOMAIN queries, Executes(i)
    PROVE  LET got == IF IsMirror(i) THEN fetched ELSE row IN
           /\ queries' \in Seq(Query) /\ DOMAIN queries' = DOMAIN queries
           /\ \A j \in DOMAIN queries : j # i => queries'[j] = queries[j]
           /\ queries'[i].from = queries[i].from /\ queries'[i].got = got
           /\ row' = got /\ got \in 0..chain
           /\ mishaps' \subseteq Mishap
           /\ UNCHANGED <<chain, drained, fetched, socketVars, roomSubscribers,
                          subscribedDuels, view, peerVars>>
<1> DEFINE got == IF IsMirror(i) THEN fetched ELSE row
<1>1. got \in 0..chain /\ got \in Version
  BY RoomsAssumption, NumbersAreNat DEF IInv, TypeOK, Version
<1>2. queries' = [queries EXCEPT ![i].got = got] /\ row' = got
  BY DEF Executes, IsMirror
<1> HIDE DEF got
<1>3. queries \in Seq(Query) /\ queries[i] \in Query
  BY NumbersAreNat DEF IInv, TypeOK
<1>4. queries' = [queries EXCEPT ![i] = [queries[i] EXCEPT !.got = got]]
  BY <1>2
<1>5. [queries[i] EXCEPT !.got = got] \in Query
  BY <1>1, <1>3 DEF Query
<1>6. /\ queries' \in Seq(Query) /\ DOMAIN queries' = DOMAIN queries
      /\ \A j \in DOMAIN queries : j # i => queries'[j] = queries[j]
      /\ queries'[i] = [queries[i] EXCEPT !.got = got]
  BY <1>3, <1>4, <1>5, ExceptSeq
<1>7. queries'[i].from = queries[i].from /\ queries'[i].got = got
  BY <1>3, <1>6 DEF Query
<1>8. mishaps' \subseteq Mishap
  BY DEF Executes, Happens, Mishap, IInv, TypeOK
<1>9. UNCHANGED <<chain, drained, fetched, socketVars, roomSubscribers, subscribedDuels, view,
                 peerVars>>
  BY DEF Executes, chainVars, roomVars
<1>. QED BY <1>1, <1>2, <1>6, <1>7, <1>8, <1>9 DEF got

LEMMA ExecutesInOrder ==
    ASSUME IInv, NEW i \in DOMAIN queries, Executes(i) PROVE InOrder'
<1>. SUFFICES ASSUME Without({"behind"})' PROVE Fifo'
  BY DEF InOrder
<1> DEFINE got == IF IsMirror(i) THEN fetched ELSE row
<1>1. /\ mishaps' = mishaps /\ ~Executed(i)
      /\ \A j \in 1..(i - 1) : Executed(j)
  BY DEF Executes, Happens, Without
<1>2. Fifo
  BY <1>1 DEF IInv, InOrder, Without
<1>3. /\ row \in Nat /\ fetched \in Nat /\ \A s \in Socket : view[s] \in Nat
      /\ \A j \in DOMAIN queries : Executed(j) => Got(j) \in Nat
  BY NumbersAreNat DEF IInv
<1>4. /\ DOMAIN queries' = DOMAIN queries /\ row' = got
      /\ UNCHANGED <<fetched, view>>
      /\ \A j \in DOMAIN queries : j # i => queries'[j] = queries[j]
      /\ queries'[i].from = queries[i].from /\ queries'[i].got = got
      /\ got \in Nat
  BY <1>3, ExecutesProperties
<1>5. /\ Got(i)' = got /\ (IsMirror(i)' <=> IsMirror(i))
      /\ \A j \in DOMAIN queries : j # i =>
            /\ (Executed(j)' <=> Executed(j)) /\ Got(j)' = Got(j)
            /\ (IsMirror(j)' <=> IsMirror(j))
  BY <1>4 DEF Executed, Got, IsMirror
<1>6. row <= got /\ (IsMirror(i) => got = fetched) /\ (fetched = 0 \/ got <= fetched)
  BY <1>2, <1>3 DEF Fifo
<1> HIDE DEF got
<1>7. \A j \in DOMAIN queries : Executed(j) => j \in Nat /\ i \in Nat /\ j < i
  <2>. SUFFICES ASSUME NEW j \in DOMAIN queries, Executed(j)
                PROVE  j \in Nat /\ i \in Nat /\ j < i
    OBVIOUS
  <2>1. j \in Nat /\ i \in Nat /\ j # i
    BY <1>1 DEF IInv, TypeOK
  <2>2. ~(i < j)
    BY <1>1, <1>2 DEF Fifo
  <2>. QED BY <2>1, <2>2
<1>8. \A j, k \in DOMAIN queries' : j < k /\ Executed(k)' =>
          Executed(j)' /\ Got(j)' <= Got(k)'
  <2>. SUFFICES ASSUME NEW j \in DOMAIN queries, NEW k \in DOMAIN queries,
                       j < k, Executed(k)'
                PROVE  Executed(j)' /\ Got(j)' <= Got(k)'
    BY <1>4
  <2>1. j \in Nat /\ k \in Nat /\ i \in Nat /\ j >= 1
    BY DEF IInv, TypeOK
  <2>2. CASE k = i
    <3>1. j # i /\ Executed(j)
      BY <1>1, <2>1, <2>2
    <3>2. Got(j) <= row /\ Got(j) \in Nat
      BY <1>2, <1>3, <3>1 DEF Fifo
    <3>. QED BY <1>3, <1>4, <1>5, <1>6, <2>2, <3>1, <3>2
  <2>3. CASE k # i
    <3>1. Executed(k) /\ k < i
      BY <1>5, <1>7, <2>3
    <3>2. j # i
      BY <2>1, <3>1
    <3>. QED BY <1>2, <1>5, <2>3, <3>1, <3>2 DEF Fifo
  <2>. QED BY <2>2, <2>3
<1>9. \A j \in DOMAIN queries' : Executed(j)' =>
          Got(j)' <= row' /\ \A s \in Socket : view'[s] <= Got(j)'
  <2>. SUFFICES ASSUME NEW j \in DOMAIN queries, Executed(j)'
                PROVE  Got(j)' <= row' /\ \A s \in Socket : view[s] <= Got(j)'
    BY <1>4
  <2>1. CASE j = i
    BY <1>2, <1>3, <1>4, <1>5, <1>6, <2>1 DEF Fifo
  <2>2. CASE j # i
    <3>1. Executed(j) /\ Got(j)' = Got(j) /\ Got(j) <= row /\ Got(j) \in Nat
      BY <1>2, <1>3, <1>5, <2>2 DEF Fifo
    <3>. QED BY <1>2, <1>3, <1>4, <1>6, <3>1 DEF Fifo
  <2>. QED BY <2>1, <2>2
<1>10. \A s \in Socket : view'[s] <= row'
  BY <1>2, <1>3, <1>4, <1>6 DEF Fifo
<1>11. fetched' = 0 \/ row' <= fetched'
  BY <1>4, <1>6
<1>12. \A j \in DOMAIN queries' : IsMirror(j)' =>
          fetched' # 0 /\ (Executed(j)' => Got(j)' = fetched')
  <2>. SUFFICES ASSUME NEW j \in DOMAIN queries, IsMirror(j)'
                PROVE  fetched # 0 /\ (Executed(j)' => Got(j)' = fetched)
    BY <1>4
  <2>1. CASE j = i
    BY <1>2, <1>5, <1>6, <2>1 DEF Fifo
  <2>2. CASE j # i
    BY <1>2, <1>5, <2>2 DEF Fifo
  <2>. QED BY <2>1, <2>2
<1>13. \A j, k \in DOMAIN queries' : IsMirror(j)' /\ IsMirror(k)' => j = k
  <2>1. \A j \in DOMAIN queries : IsMirror(j)' <=> IsMirror(j)
    BY <1>5
  <2>. QED BY <1>2, <1>4, <2>1 DEF Fifo
<1>. QED BY <1>8, <1>9, <1>10, <1>11, <1>12, <1>13 DEF Fifo

LEMMA ExecutesStep == ASSUME IInv, NEW i \in DOMAIN queries, Executes(i) PROVE IInv'
<1>1. TypeOK'
  <2>1. /\ chain \in Version /\ drained \in 0..chain /\ fetched \in 0..chain
        /\ view \in [Socket -> 0..chain]
        /\ \A s \in Socket : s \notin roomSubscribers => view[s] = 0
    BY DEF IInv, TypeOK
  <2>. QED BY <2>1, ExecutesProperties, DataTypes
<1>2. AnswersExist'
  <2>. SUFFICES ASSUME NEW j \in DOMAIN queries', Executed(j)' PROVE Got(j)' <= chain'
    BY DEF AnswersExist
  <2>1. CASE j = i
    <3>1. Got(i)' \in 0..chain /\ chain' = chain
      BY ExecutesProperties DEF Got
    <3>2. chain \in Nat
      BY NumbersAreNat DEF IInv
    <3>. QED BY <2>1, <3>1, <3>2
  <2>2. CASE j # i
    BY <2>2, ExecutesProperties DEF IInv, AnswersExist, Executed, Got
  <2>. QED BY <2>1, <2>2
<1>3. InOrder'
  BY ExecutesInOrder
<1>4. ForfeitMeansAway' /\ GoneIsWatched'
  BY ExecutesProperties, PresenceStays DEF socketVars, peerVars
<1>. QED BY <1>1, <1>2, <1>3, <1>4 DEF IInv

\* The answers that remain are still no newer than the duel.
LEMMA AnsweredAnswers ==
    ASSUME IInv, NEW i \in DOMAIN queries, Answered(i), chain' = chain
    PROVE  AnswersExist'
<1>. SUFFICES ASSUME NEW j \in DOMAIN queries', Executed(j)' PROVE Got(j)' <= chain'
  BY DEF AnswersExist
<1>1. PICK k \in DOMAIN queries : queries'[j] = queries[k]
  BY AnsweredProperties DEF IInv
<1>. QED BY <1>1 DEF IInv, AnswersExist, Executed, Got

LEMMA InTurnTypes ==
    ASSUME IInv, NEW i \in DOMAIN queries, InTurn(i) PROVE mishaps' \subseteq Mishap
BY DEF IInv, TypeOK, InTurn, Happens, Mishap

\* A message of an existing version to sockets of the room.
LEMMA SendTypes ==
    ASSUME IInv, NEW ss \in SUBSET roomSubscribers, NEW v \in 0..chain, Send(ss, v),
           chain' = chain, UNCHANGED roomSubscribers
    PROVE  /\ view' \in [Socket -> 0..chain']
           /\ \A s \in Socket : s \notin roomSubscribers => view'[s] = 0
           /\ \A s \in Socket : view'[s] = view[s] \/ view'[s] = v
<1>1. view \in [Socket -> 0..chain] /\ \A s \in Socket : s \notin roomSubscribers => view[s] = 0
  BY DEF IInv, TypeOK
<1>. QED BY <1>1 DEF Send

LEMMA BroadcastProperties ==
    ASSUME IInv, Broadcasts
    PROVE  /\ chain' = chain /\ drained' = drained /\ fetched' = 0
           /\ UNCHANGED <<roomSubscribers, subscribedDuels>>
           /\ view' \in [Socket -> 0..chain']
           /\ \A s \in Socket : s \notin roomSubscribers => view'[s] = 0
           /\ \A s \in Socket : view'[s] = view[s] \/ view'[s] = fetched
<1>1. /\ Send(roomSubscribers, fetched) /\ fetched' = 0
      /\ UNCHANGED <<chain, drained, roomSubscribers, subscribedDuels>>
  BY DEF Broadcasts
<1>2. fetched \in 0..chain
  BY DEF IInv, TypeOK
<1>. QED BY <1>1, <1>2, SendTypes

LEMMA MirrorReplyStep == ASSUME IInv, NEW i \in DOMAIN queries, MirrorReply(i) PROVE IInv'
<1>1. /\ IsMirror(i) /\ Executed(i) /\ InTurn(i) /\ Answered(i) /\ Broadcasts
      /\ UNCHANGED <<row, socketVars, peerVars>>
  BY DEF MirrorReply, IsMirror
<1>2. 0 \in 0..chain /\ chain \in Nat
  BY NumbersAreNat DEF IInv
<1>3. TypeOK'
  <2>1. /\ chain \in Version /\ drained \in 0..chain /\ row \in 0..chain
    BY DEF IInv, TypeOK
  <2>. QED BY <1>1, <1>2, <2>1, BroadcastProperties, AnsweredProperties, InTurnTypes, DataTypes
              DEF IInv
<1>4. AnswersExist'
  BY <1>1, BroadcastProperties, AnsweredAnswers
<1>5. InOrder'
  <2>. SUFFICES ASSUME Without({"behind"})' PROVE InOrder'
    BY DEF InOrder
  <2>1. i \in 1..Len(queries)
    BY DEF IInv, TypeOK
  <2>2. Fifo
    BY <1>1, <2>1 DEF IInv, InOrder, InTurn, Happens, Without
  <2>3. Got(i) = fetched
    BY <1>1, <2>2 DEF Fifo
  <2>. QED BY <1>1, <2>3, BroadcastProperties, RepliesInOrder
<1>6. ForfeitMeansAway' /\ GoneIsWatched'
  BY <1>1, BroadcastProperties, PresenceStays DEF socketVars, peerVars
<1>. QED BY <1>3, <1>4, <1>5, <1>6 DEF IInv

LEMMA WriteFailsStep == ASSUME IInv, NEW i \in DOMAIN queries, WriteFails(i) PROVE IInv'
<1>1. /\ Happens("behind") /\ Answered(i) /\ Broadcasts
      /\ UNCHANGED <<row, socketVars, peerVars>>
  BY DEF WriteFails
<1>2. 0 \in 0..chain /\ chain \in Nat
  BY NumbersAreNat DEF IInv
<1>3. TypeOK'
  <2>1. /\ chain \in Version /\ drained \in 0..chain /\ row \in 0..chain
    BY DEF IInv, TypeOK
  <2>2. mishaps' \subseteq Mishap
    BY <1>1 DEF IInv, TypeOK, Happens, Mishap
  <2>. QED BY <1>1, <1>2, <2>1, <2>2, BroadcastProperties, AnsweredProperties, DataTypes
              DEF IInv
<1>4. AnswersExist'
  BY <1>1, BroadcastProperties, AnsweredAnswers
<1>5. InOrder'
  BY <1>1 DEF InOrder, Happens, Without
<1>6. ForfeitMeansAway' /\ GoneIsWatched'
  BY <1>1, BroadcastProperties, PresenceStays DEF socketVars, peerVars
<1>. QED BY <1>3, <1>4, <1>5, <1>6 DEF IInv

LEMMA SnapshotReplyProperties ==
    ASSUME IInv, NEW i \in DOMAIN queries, SnapshotReply(i)
    PROVE  /\ view' \in [Socket -> 0..chain']
           /\ \A s \in Socket : s \notin roomSubscribers => view'[s] = 0
           /\ \A s \in Socket : view'[s] = view[s] \/ view'[s] = Got(i)
<1>1. /\ Executed(i) /\ Send(Recipients(queries[i]), Got(i))
      /\ chain' = chain /\ roomSubscribers' = roomSubscribers
  BY DEF SnapshotReply, Got, chainVars
<1>2. Recipients(queries[i]) \in SUBSET roomSubscribers
  BY DEF Recipients, IInv, TypeOK
<1>3. Got(i) \in Nat /\ Got(i) <= chain /\ chain \in Nat
  BY <1>1, NumbersAreNat DEF IInv, AnswersExist
<1>4. Got(i) \in 0..chain
  BY <1>3
<1>. QED BY <1>1, <1>2, <1>4, SendTypes

LEMMA SnapshotReplyStep == ASSUME IInv, NEW i \in DOMAIN queries, SnapshotReply(i) PROVE IInv'
<1>1. /\ queries[i].from \in Socket /\ Executed(i) /\ InTurn(i) /\ Answered(i)
      /\ UNCHANGED <<row, chain, drained, fetched, socketVars, roomSubscribers,
                     subscribedDuels, peerVars>>
  BY DEF SnapshotReply, chainVars
<1>2. TypeOK'
  <2>1. /\ chain \in Version /\ drained \in 0..chain /\ row \in 0..chain
        /\ fetched \in 0..chain
    BY DEF IInv, TypeOK
  <2>. QED BY <1>1, <2>1, SnapshotReplyProperties, AnsweredProperties, InTurnTypes, DataTypes
              DEF IInv
<1>3. AnswersExist'
  BY <1>1, AnsweredAnswers
<1>4. InOrder'
  <2>1. ~IsMirror(i)
    BY <1>1, RoomsAssumption DEF IsMirror
  <2>4. fetched' = fetched
    BY <1>1
  <2>2. (~IsMirror(i) /\ fetched' = fetched) \/ (IsMirror(i) /\ fetched' = 0)
    BY <2>1, <2>4
  <2>3. /\ Answered(i) /\ InTurn(i) /\ Executed(i) /\ row' = row
        /\ \A s \in Socket : view'[s] = view[s] \/ view'[s] = Got(i)
    BY <1>1, SnapshotReplyProperties
  <2>. QED BY <2>2, <2>3, RepliesInOrder
<1>5. ForfeitMeansAway' /\ GoneIsWatched'
  BY <1>1, PresenceStays DEF socketVars, peerVars
<1>. QED BY <1>2, <1>3, <1>4, <1>5 DEF IInv

LEMMA ClockReplyStep == ASSUME IInv, NEW i \in DOMAIN queries, ClockReply(i) PROVE IInv'
<1>1. /\ queries[i].from = Clock /\ Executed(i) /\ InTurn(i) /\ Answered(i)
      /\ UNCHANGED <<row, chain, drained, fetched, socketVars, roomSubscribers,
                     subscribedDuels, view, peerVars>>
  BY DEF ClockReply, chainVars, roomVars
<1>2. TypeOK'
  <2>1. /\ chain \in Version /\ drained \in 0..chain /\ row \in 0..chain
        /\ fetched \in 0..chain /\ view \in [Socket -> 0..chain]
        /\ \A s \in Socket : s \notin roomSubscribers => view[s] = 0
    BY DEF IInv, TypeOK
  <2>. QED BY <1>1, <2>1, AnsweredProperties, InTurnTypes, DataTypes DEF IInv
<1>3. AnswersExist'
  BY <1>1, AnsweredAnswers
<1>4. InOrder'
  <2>1. ~IsMirror(i)
    BY <1>1, RoomsAssumption DEF IsMirror
  <2>4. fetched' = fetched
    BY <1>1
  <2>2. (~IsMirror(i) /\ fetched' = fetched) \/ (IsMirror(i) /\ fetched' = 0)
    BY <2>1, <2>4
  <2>3. /\ Answered(i) /\ InTurn(i) /\ Executed(i) /\ row' = row
        /\ \A s \in Socket : view'[s] = view[s] \/ view'[s] = Got(i)
    BY <1>1
  <2>. QED BY <2>2, <2>3, RepliesInOrder
<1>5. ForfeitMeansAway' /\ GoneIsWatched'
  BY <1>1, PresenceStays DEF socketVars, peerVars
<1>. QED BY <1>2, <1>3, <1>4, <1>5 DEF IInv

\* A read that fails is taken from the queue, whatever is sent or not.
LEMMA ReadFailsStep ==
    ASSUME IInv, NEW i \in DOMAIN queries, SnapshotFails(i) \/ ClockReadFails(i)
    PROVE  IInv'
<1>0. Mirror \notin Socket /\ Clock # Mirror
  BY RoomsAssumption
<1>1. /\ ~IsMirror(i) /\ ~Executed(i) /\ Answered(i)
      /\ \E kind \in {"lost", "unread", "restart"} : Happens(kind)
      /\ UNCHANGED <<row, chain, drained, fetched, socketVars, roomSubscribers,
                     subscribedDuels, view, peerVars>>
  BY <1>0 DEF SnapshotFails, ClockReadFails, chainVars, roomVars, IsMirror
<1>2. TypeOK'
  <2>1. /\ chain \in Version /\ drained \in 0..chain /\ row \in 0..chain
        /\ fetched \in 0..chain /\ view \in [Socket -> 0..chain]
        /\ \A s \in Socket : s \notin roomSubscribers => view[s] = 0
    BY DEF IInv, TypeOK
  <2>. QED BY <1>1, <2>1, AnsweredProperties, MishapInOrder, DataTypes DEF IInv
<1>3. AnswersExist'
  BY <1>1, AnsweredAnswers
<1>4. InOrder'
  <2>. SUFFICES ASSUME Fifo PROVE Fifo'
    BY <1>1, MishapInOrder DEF IInv, InOrder
  <2> DEFINE from(j) == IF j < i THEN j ELSE j + 1
  <2>1. \A j \in DOMAIN queries' : from(j) \in DOMAIN queries /\ queries'[j] = queries[from(j)]
    <3>. SUFFICES ASSUME NEW j \in DOMAIN queries'
                  PROVE  from(j) \in DOMAIN queries /\ queries'[j] = queries[from(j)]
      OBVIOUS
    <3>1. PICK k \in DOMAIN queries : queries'[j] = queries[k] /\ k = IF j < i THEN j ELSE j + 1
      BY <1>1, AnsweredProperties DEF IInv
    <3>. QED BY <3>1
  <2>2. \A j, k \in DOMAIN queries' :
            (j < k => from(j) < from(k)) /\ (from(j) = from(k) => j = k)
    <3>1. i \in Nat /\ \A j \in DOMAIN queries' : j \in Nat
      BY <1>1, AnsweredProperties DEF IInv, TypeOK
    <3>. QED BY <3>1
  <2> HIDE DEF from
  <2>3. \A j \in DOMAIN queries' :
            /\ Executed(j)' = Executed(from(j)) /\ Got(j)' = Got(from(j))
            /\ IsMirror(j)' = IsMirror(from(j))
    BY <2>1 DEF Executed, Got, IsMirror
  <2>4. \A j, k \in DOMAIN queries' : j < k /\ Executed(k)' =>
            Executed(j)' /\ Got(j)' <= Got(k)'
    BY <2>1, <2>2, <2>3 DEF Fifo
  <2>5. \A j \in DOMAIN queries' : Executed(j)' =>
            Got(j)' <= row' /\ \A s \in Socket : view'[s] <= Got(j)'
    BY <1>1, <2>1, <2>3 DEF Fifo
  <2>6. \A j \in DOMAIN queries' : IsMirror(j)' =>
            fetched' # 0 /\ (Executed(j)' => Got(j)' = fetched')
    BY <1>1, <2>1, <2>3 DEF Fifo
  <2>7. \A j, k \in DOMAIN queries' : IsMirror(j)' /\ IsMirror(k)' => j = k
    BY <2>1, <2>2, <2>3 DEF Fifo
  <2>8. (\A s \in Socket : view'[s] <= row') /\ (fetched' = 0 \/ row' <= fetched')
    BY <1>1 DEF Fifo
  <2>. QED BY <2>4, <2>5, <2>6, <2>7, <2>8 DEF Fifo
<1>5. ForfeitMeansAway' /\ GoneIsWatched'
  BY <1>1, PresenceStays DEF socketVars, peerVars
<1>. QED BY <1>2, <1>3, <1>4, <1>5 DEF IInv

LEMMA RestartStep == ASSUME IInv, Restart PROVE IInv'
<1>1. /\ fetched' = 0 /\ queries' = <<>>
      /\ open' = {} /\ roomSubscribers' = {} /\ subscribedDuels' = {}
      /\ bound' = [s \in Socket |-> NoAddress]
      /\ announced' = [s \in Socket |-> NoAddress]
      /\ view' = [s \in Socket |-> 0]
      /\ forfeitTimers' = {} /\ left' = {}
      /\ UNCHANGED <<chain, drained, row, opened>>
  BY DEF Restart
<1>2. chain \in Nat /\ row \in Nat
  BY NumbersAreNat DEF IInv
<1>3. TypeOK'
  <2>1. mishaps' \subseteq Mishap
    BY MishapInOrder DEF Restart
  <2>2. /\ chain \in Version /\ drained \in 0..chain /\ row \in 0..chain
        /\ opened \in 0..MaxSockets
    BY DEF IInv, TypeOK
  <2>. QED BY <1>1, <1>2, <2>1, <2>2 DEF TypeOK
<1>4. DOMAIN queries' = {}
  BY <1>1
<1>5. AnswersExist' /\ ForfeitMeansAway' /\ GoneIsWatched'
  BY <1>1, <1>4 DEF AnswersExist, ForfeitMeansAway, GoneIsWatched
<1>6. InOrder'
  BY <1>1, <1>2, <1>4 DEF InOrder, Fifo
<1>. QED BY <1>3, <1>5, <1>6 DEF IInv

-----------------------------------------------------------------------------
LEMMA StutterStep == ASSUME IInv, UNCHANGED vars PROVE IInv'
<1>1. UNCHANGED <<chain, drained, fetched, row, queries, opened, open, bound, announced,
                  roomSubscribers, subscribedDuels, view, forfeitTimers, left, mishaps>>
  BY DEF vars, chainVars, dbVars, socketVars, roomVars, peerVars
<1>2. TypeOK'
  BY <1>1 DEF IInv, TypeOK
<1>3. AnswersExist' /\ InOrder'
  BY <1>1, AnswersStay, ShowsLess DEF IInv
<1>4. ForfeitMeansAway' /\ GoneIsWatched'
  BY <1>1, PresenceStays
<1>. QED BY <1>2, <1>3, <1>4 DEF IInv

LEMMA NextStep == IInv /\ [Next]_vars => IInv'
<1>. SUFFICES ASSUME IInv, [Next]_vars PROVE IInv'
  OBVIOUS
<1>1. CASE Open
  BY <1>1, OpenStep
<1>2. CASE \E s \in Socket : Client(s)
  BY <1>2, HelloStep, SubscribeStep, UnsubscribeStep, CloseStep DEF Client
<1>3. CASE \E a \in Address : PeerForfeit(a)
  BY <1>3, ForfeitStep
<1>4. CASE Moves \/ RefreshDuel \/ FetchFails \/ Tick
  BY <1>4, MovesStep, RefreshStep, FetchFailsStep, TickStep
<1>5. CASE \E i \in DOMAIN queries :
              Executes(i) \/ Replies(i) \/ WriteFails(i) \/ SnapshotFails(i) \/ ClockReadFails(i)
  BY <1>5, ExecutesStep, MirrorReplyStep, SnapshotReplyStep, ClockReplyStep, WriteFailsStep,
     ReadFailsStep DEF Replies
<1>6. CASE Restart
  BY <1>6, RestartStep
<1>7. CASE UNCHANGED vars
  BY <1>7, StutterStep
<1>. QED BY <1>1, <1>2, <1>3, <1>4, <1>5, <1>6, <1>7 DEF Next

LEMMA SpecIInv == Spec => []IInv
<1>. QED BY InitIInv, NextStep, PTL DEF Spec

\* The variables keep their types, and the room and its sockets agree on who
\* is in it (roomSubscribers and ws.data.subscribedDuels in ws/matchmaking.ts).
THEOREM RoomsTypes == Spec => []TypeOK
<1>1. IInv => TypeOK
  BY DEF IInv
<1>. QED BY <1>1, SpecIInv, PTL

\* No grace runs for an address one of whose sockets is in the room, having
\* said hello before it subscribed (onSocketClose, subscribeRoom).
THEOREM RoomsForfeit == Spec => []ForfeitMeansAway
<1>1. IInv => ForfeitMeansAway
  BY DEF IInv
<1>. QED BY <1>1, SpecIInv, PTL

\* Whoever is shown a player as gone is in the room, and the player's grace is
\* running (armForfeitTimer, cancelForfeitTimer).
THEOREM RoomsGone == Spec => []GoneIsWatched
<1>1. IInv => GoneIsWatched
  BY DEF IInv
<1>. QED BY <1>1, SpecIInv, PTL

\* Without an overtaken query or a failed write no client is sent an older
\* state than it shows (broadcastRoomState, sendRoomSnapshot).
THEOREM RoomsViewOrder == Spec => ViewNeverGoesBack
<1>1. IInv /\ [Next]_vars =>
        [Without({"behind"}) =>
            \A s \in roomSubscribers \cap roomSubscribers' : view'[s] >= view[s]]_vars
  <2>. SUFFICES ASSUME IInv, Next, Without({"behind"}),
                       NEW s \in roomSubscribers, s \in roomSubscribers'
                PROVE  view'[s] >= view[s]
    OBVIOUS
  <2>0. /\ s \in Socket /\ view[s] \in Nat
    BY SubscribersAreSockets, NumbersAreNat DEF IInv
  <2>1. Fifo
    BY DEF IInv, InOrder
  <2>2. CASE view' = view
    BY <2>0, <2>2
  <2>3. CASE \E w \in Socket : Gone(w)
    <3>1. PICK w \in Socket : Gone(w)
      BY <2>3
    <3>. QED BY <2>0, <3>1, GoneProperties
  <2>4. CASE \E i \in DOMAIN queries : MirrorReply(i)
    <3>1. PICK i \in DOMAIN queries : MirrorReply(i)
      BY <2>4
    <3>2. Executed(i) /\ IsMirror(i) /\ (view'[s] = view[s] \/ view'[s] = fetched)
      BY <2>0, <3>1, BroadcastProperties DEF MirrorReply, IsMirror
    <3>3. Got(i) = fetched /\ view[s] <= Got(i) /\ fetched \in Nat
      BY <2>0, <2>1, <3>2, NumbersAreNat DEF Fifo, IInv
    <3>. QED BY <2>0, <3>2, <3>3
  <2>5. CASE \E i \in DOMAIN queries : WriteFails(i)
    <3>1. PICK i \in DOMAIN queries : WriteFails(i)
      BY <2>5
    <3>2. IsMirror(i) /\ (view'[s] = view[s] \/ view'[s] = fetched)
      BY <2>0, <3>1, BroadcastProperties DEF WriteFails, IsMirror
    <3>3. row \in Nat /\ fetched \in Nat
      BY NumbersAreNat DEF IInv
    <3>4. view[s] <= row /\ row <= fetched
      BY <2>0, <2>1, <3>2 DEF Fifo
    <3>. QED BY <2>0, <3>2, <3>3, <3>4
  <2>6. CASE \E i \in DOMAIN queries : SnapshotReply(i)
    <3>1. PICK i \in DOMAIN queries : SnapshotReply(i)
      BY <2>6
    <3>2. Executed(i) /\ (view'[s] = view[s] \/ view'[s] = Got(i))
      BY <2>0, <3>1, SnapshotReplyProperties DEF SnapshotReply
    <3>3. view[s] <= Got(i) /\ Got(i) \in Nat
      BY <2>0, <2>1, <3>2, NumbersAreNat DEF Fifo, IInv
    <3>. QED BY <2>0, <3>2, <3>3
  <2>7. CASE Restart
    BY <2>7 DEF Restart
  <2>8. view' = view \/ (\E w \in Socket : Gone(w)) \/ Restart \/
        (\E i \in DOMAIN queries : MirrorReply(i) \/ WriteFails(i) \/ SnapshotReply(i))
    <3>1. Open \/ Moves \/ RefreshDuel \/ FetchFails \/ Tick => view' = view
      BY DEF Open, Moves, RefreshDuel, FetchFails, Tick, roomVars
    <3>2. (\E a \in Address : PeerForfeit(a)) => view' = view
      BY DEF PeerForfeit, roomVars
    <3>3. \A i \in DOMAIN queries : Executes(i) \/ ClockReply(i) \/ SnapshotFails(i) \/ ClockReadFails(i) => view' = view
      BY DEF Executes, ClockReply, SnapshotFails, ClockReadFails, roomVars
    <3>4. \A w \in Socket : Client(w) => view' = view \/ Gone(w)
      BY DEF Client, Hello, SubscribeRoom, UnsubscribeRoom, OnSocketClose, roomVars
    <3>. QED BY <3>1, <3>2, <3>3, <3>4 DEF Next, Replies
  <2>. QED BY <2>2, <2>3, <2>4, <2>5, <2>6, <2>7, <2>8
<1>. QED BY <1>1, SpecIInv, PTL DEF Spec, ViewNeverGoesBack

\* Without an overtaken query, a failed write or a failed lookup of the clock no
\* tick reaches a client that shows the duel COMPLETE (match-clock.ts).
THEOREM RoomsTick == Spec => NoTickAfterComplete
<1>1. IInv /\ [Next]_vars =>
        [/\ Without({"behind"}) /\ Without({"unread"})'
         /\ \E s \in roomSubscribers : view[s] = Complete
         => \A i \in DOMAIN queries : ~Ticks(i)]_vars
  <2>. SUFFICES ASSUME IInv, Without({"behind"}), Without({"unread"})',
                       NEW s \in roomSubscribers, view[s] = Complete,
                       NEW i \in DOMAIN queries, Ticks(i)
                PROVE  FALSE
    OBVIOUS
  <2>1. ~ClockReadFails(i)
    BY DEF ClockReadFails, Happens, Without
  <2>2. ClockReply(i) /\ Got(i) # Complete
    BY <2>1 DEF Ticks, Got
  <2>3. s \in Socket
    BY SubscribersAreSockets
  <2>4. Executed(i) /\ Got(i) \in Version
    BY <2>2, NumbersAreNat DEF ClockReply, IInv
  <2>5. Complete <= Got(i)
    BY <2>3, <2>4 DEF IInv, InOrder, Fifo
  <2>. QED BY <2>2, <2>4, <2>5, RoomsAssumption DEF Version
<1>. QED BY <1>1, SpecIInv, PTL DEF Spec, NoTickAfterComplete
=============================================================================
