------------------------- MODULE MatchmakingProofs -------------------------
(***************************************************************************)
(* The safety properties of Matchmaking, for any number of sockets,        *)
(* addresses, tiers, overlapping joins and deck failures.                  *)
(*                                                                         *)
(* TypeOK is inductive by itself; with it, so is HandshakeOwnsPair: the    *)
(* contents of the queue do not matter to it.                              *)
(*                                                                         *)
(* QueueSound speaks of the sockets that no race has harmed, and so does   *)
(* its strengthening Fine, of one socket at a time: it waits in the bucket *)
(* of its tier or is in one lookup of its own for it, never in both.  Each *)
(* step leaves such a socket alone (RestsFine), enters it in its bucket,   *)
(* takes it out of the search (OutFine), or harms it.  That a match and a  *)
(* retry are of two different sockets (TwoSockets) is needed for a retry   *)
(* to take out both.                                                       *)
(***************************************************************************)
EXTENDS Matchmaking, SequenceTheorems, WellFoundedInduction, TLAPS

-----------------------------------------------------------------------------
(* Sequences                                                               *)

LEMMA NatMin ==
    ASSUME NEW T, T \subseteq Nat, T # {}
    PROVE  \E x \in T : \A y \in T : x <= y
<1> DEFINE R == {ss \in Nat \X Nat : ss[1] < ss[2]}
<1>1. IsWellFoundedOn(R, Nat)
  BY NatLessThanWellFounded DEF OpToRel
<1>2. PICK x \in T : \A y \in T : ~ (<<y, x>> \in R)
  BY <1>1, WFMin
<1>3. \A y \in T : ~(y < x)
  BY <1>2
<1>. QED BY <1>3

LEMMA RemoveAtProperties ==
    ASSUME NEW S, NEW q \in Seq(S), NEW i \in 1..Len(q)
    PROVE  /\ RemoveAt(q, i) \in Seq(S)
           /\ Len(RemoveAt(q, i)) = Len(q) - 1
           /\ \A j \in 1..(Len(q) - 1) :
                 RemoveAt(q, i)[j] = IF j < i THEN q[j] ELSE q[j + 1]
<1> DEFINE a == SubSeq(q, 1, i - 1)
           b == SubSeq(q, i + 1, Len(q))
<1>1. Len(q) \in Nat /\ i \in Nat /\ i >= 1 /\ i <= Len(q)
  OBVIOUS
<1>2. \A j \in 1..Len(q) : q[j] \in S
  OBVIOUS
<1>3. /\ a \in Seq(S) /\ Len(a) = i - 1
      /\ \A j \in 1..(i - 1) : a[j] = q[j]
  <2>1. \A j \in 1..(i - 1) : q[j] \in S
    BY <1>1, <1>2
  <2>2. /\ a \in Seq(S) /\ Len(a) = IF 1 <= i - 1 THEN i - 1 - 1 + 1 ELSE 0
        /\ \A j \in 1..(i - 1 - 1 + 1) : a[j] = q[1 + j - 1]
    BY <1>1, <2>1, SubSeqProperties
  <2>. QED BY <1>1, <2>2
<1>4. /\ b \in Seq(S) /\ Len(b) = Len(q) - i
      /\ \A j \in 1..(Len(q) - i) : b[j] = q[i + j]
  <2>1. \A j \in (i + 1)..Len(q) : q[j] \in S
    BY <1>1, <1>2
  <2>2. /\ b \in Seq(S) /\ Len(b) = IF i + 1 <= Len(q) THEN Len(q) - (i + 1) + 1 ELSE 0
        /\ \A j \in 1..(Len(q) - (i + 1) + 1) : b[j] = q[i + 1 + j - 1]
    BY <1>1, <2>1, SubSeqProperties
  <2>3. Len(b) = Len(q) - i
    BY <1>1, <2>2
  <2>4. ASSUME NEW j \in 1..(Len(q) - i) PROVE b[j] = q[i + j]
    <3>1. j \in 1..(Len(q) - (i + 1) + 1) /\ i + 1 + j - 1 = i + j
      BY <1>1
    <3>. QED BY <2>2, <3>1
  <2>. QED BY <2>2, <2>3, <2>4
<1> HIDE DEF a, b
<1>5. /\ a \o b \in Seq(S) /\ Len(a \o b) = Len(a) + Len(b)
      /\ \A j \in 1..(Len(a) + Len(b)) :
            (a \o b)[j] = IF j <= Len(a) THEN a[j] ELSE b[j - Len(a)]
  BY <1>3, <1>4, ConcatProperties
<1>6. RemoveAt(q, i) = a \o b
  BY DEF RemoveAt, a, b
<1>7. Len(a) + Len(b) = Len(q) - 1
  BY <1>1, <1>3, <1>4
<1>8. ASSUME NEW j \in 1..(Len(q) - 1)
      PROVE  (a \o b)[j] = IF j < i THEN q[j] ELSE q[j + 1]
  <2>1. (a \o b)[j] = IF j <= i - 1 THEN a[j] ELSE b[j - (i - 1)]
    BY <1>3, <1>5, <1>7
  <2>2. CASE j < i
    BY <1>1, <1>3, <2>1, <2>2
  <2>3. CASE ~(j < i)
    <3>1. j - (i - 1) \in 1..(Len(q) - i) /\ i + (j - (i - 1)) = j + 1 /\ ~(j <= i - 1)
      BY <1>1, <2>3
    <3>. QED BY <1>4, <2>1, <2>3, <3>1
  <2>. QED BY <2>2, <2>3
<1>. QED BY <1>5, <1>6, <1>7, <1>8

LEMMA ContainsIsIn ==
    ASSUME NEW S, NEW q \in Seq(S), NEW w
    PROVE  Contains(q, w) <=> w \in ToSet(q)
BY DEF Contains, ToSet

\* RemoveFirst takes one occurrence out, if there is one.
LEMMA RemoveFirstCases ==
    ASSUME NEW S, NEW q \in Seq(S), NEW w
    PROVE  \/ w \notin ToSet(q) /\ RemoveFirst(q, w) = q
           \/ \E i \in 1..Len(q) : q[i] = w /\ RemoveFirst(q, w) = RemoveAt(q, i)
<1> DEFINE I == {i \in 1..Len(q) : q[i] = w}
<1>1. CASE I = {}
  <2>1. w \notin ToSet(q)
    BY <1>1 DEF ToSet
  <2>. QED BY <1>1, <2>1 DEF RemoveFirst
<1>2. CASE I # {}
  <2>0. I \subseteq Nat
    OBVIOUS
  <2>1. \E x \in I : \A y \in I : x <= y
    <3> HIDE DEF I
    <3>. QED BY <1>2, <2>0, NatMin
  <2>2. Min(I) \in I
    BY <2>1 DEF Min
  <2>3. RemoveFirst(q, w) = RemoveAt(q, Min(I))
    BY <1>2 DEF RemoveFirst, SelectInSeq
  <2>. QED BY <2>2, <2>3
<1>. QED BY <1>1, <1>2

\* What a change of a bucket leaves as it was for socket x.
SameFor(x, r, q) ==
    /\ x \in ToSet(r) <=> x \in ToSet(q)
    /\ Once(q, x) => Once(r, x)

\* One occurrence of w goes; everybody else stays.
LEMMA RemoveFirstSound ==
    ASSUME NEW S, NEW q \in Seq(S), NEW w
    PROVE  /\ RemoveFirst(q, w) \in Seq(S)
           /\ Once(q, w) => w \notin ToSet(RemoveFirst(q, w))
           /\ \A x : x # w => SameFor(x, RemoveFirst(q, w), q)
<1>1. CASE w \notin ToSet(q) /\ RemoveFirst(q, w) = q
  BY <1>1 DEF SameFor
<1>2. ASSUME NEW i \in 1..Len(q), q[i] = w, RemoveFirst(q, w) = RemoveAt(q, i)
      PROVE  /\ RemoveFirst(q, w) \in Seq(S)
             /\ Once(q, w) => w \notin ToSet(RemoveFirst(q, w))
             /\ \A x : x # w => SameFor(x, RemoveFirst(q, w), q)
  <2> DEFINE r == RemoveFirst(q, w)
             old(j) == IF j < i THEN j ELSE j + 1
  <2>1. /\ r \in Seq(S) /\ DOMAIN r = 1..(Len(q) - 1)
        /\ \A j \in 1..(Len(q) - 1) : r[j] = IF j < i THEN q[j] ELSE q[j + 1]
    <3>1. /\ r \in Seq(S) /\ Len(r) = Len(q) - 1
          /\ \A j \in 1..(Len(q) - 1) : r[j] = IF j < i THEN q[j] ELSE q[j + 1]
      BY <1>2, RemoveAtProperties
    <3> HIDE DEF r
    <3>2. DOMAIN r = 1..Len(r)
      BY <3>1, LenProperties
    <3>. QED BY <3>1, <3>2
  <2> HIDE DEF r
  <2>2. Len(q) \in Nat /\ DOMAIN q = 1..Len(q)
    OBVIOUS
  <2>3. \A j \in DOMAIN r : old(j) \in DOMAIN q /\ old(j) # i /\ r[j] = q[old(j)]
    BY <2>1, <2>2
  <2>4. \A j, k \in DOMAIN r : old(j) = old(k) => j = k
    BY <2>1, <2>2
  <2>5. \A k \in DOMAIN q : k # i => \E j \in DOMAIN r : r[j] = q[k]
    <3> SUFFICES ASSUME NEW k \in DOMAIN q, k # i PROVE \E j \in DOMAIN r : r[j] = q[k]
      OBVIOUS
    <3>1. CASE k < i
      <4>1. k \in DOMAIN r /\ r[k] = q[k]
        BY <2>1, <2>2, <3>1
      <4>. QED BY <4>1
    <3>2. CASE k > i
      <4>1. k - 1 \in DOMAIN r /\ r[k - 1] = q[k - 1 + 1] /\ k - 1 + 1 = k
        BY <2>1, <2>2, <3>2
      <4>. QED BY <4>1
    <3>. QED BY <2>2, <3>1, <3>2
  <2> HIDE DEF old
  <2>6. Once(q, w) => w \notin ToSet(r)
    BY <1>2, <2>2, <2>3 DEF Once, ToSet
  <2>7. ASSUME NEW x, x # w PROVE SameFor(x, r, q)
    <3>1. x \in ToSet(r) => x \in ToSet(q)
      BY <2>3 DEF ToSet
    <3>2. x \in ToSet(q) => x \in ToSet(r)
      BY <1>2, <2>5, <2>7 DEF ToSet
    <3>3. Once(q, x) => Once(r, x)
      BY <2>3, <2>4 DEF Once
    <3>. QED BY <3>1, <3>2, <3>3 DEF SameFor
  <2>. QED BY <2>1, <2>6, <2>7 DEF r
<1>. QED BY <1>1, <1>2, RemoveFirstCases

LEMMA AppendSound ==
    ASSUME NEW S, NEW q \in Seq(S), NEW w \in S
    PROVE  /\ Append(q, w) \in Seq(S)
           /\ w \in ToSet(Append(q, w))
           /\ w \notin ToSet(q) => Once(Append(q, w), w)
           /\ \A x : x # w => SameFor(x, Append(q, w), q)
<1> DEFINE r == Append(q, w)
<1>1. /\ r \in Seq(S) /\ DOMAIN r = 1..(Len(q) + 1)
      /\ \A j \in 1..Len(q) : r[j] = q[j]
      /\ r[Len(q) + 1] = w
  BY AppendProperties
<1> HIDE DEF r
<1>2. Len(q) \in Nat /\ DOMAIN q = 1..Len(q)
  OBVIOUS
<1>3. /\ \A j \in DOMAIN r : j \in DOMAIN q \/ j = Len(q) + 1
      /\ DOMAIN q \subseteq DOMAIN r /\ Len(q) + 1 \in DOMAIN r
  BY <1>1, <1>2
<1>4. w \in ToSet(r)
  BY <1>1, <1>3 DEF ToSet
<1>5. w \notin ToSet(q) => Once(r, w)
  BY <1>1, <1>2, <1>3 DEF Once, ToSet
<1>6. ASSUME NEW x, x # w PROVE SameFor(x, r, q)
  <2>1. x \in ToSet(r) <=> x \in ToSet(q)
    BY <1>1, <1>2, <1>3, <1>6 DEF ToSet
  <2>2. Once(q, x) => Once(r, x)
    BY <1>1, <1>2, <1>3, <1>6 DEF Once
  <2>. QED BY <2>1, <2>2 DEF SameFor
<1>. QED BY <1>1, <1>4, <1>5, <1>6 DEF r

\* A splice takes out the socket it names, or the last one.
LEMMA SpliceOutSound ==
    ASSUME NEW S, NEW q \in Seq(S), NEW w
    PROVE  /\ SpliceOut(q, w) \in Seq(S)
           /\ w \in ToSet(q) => SpliceOut(q, w) = RemoveFirst(q, w)
           /\ \A x : x \notin {w} \cup Displaced(q, w) => SameFor(x, SpliceOut(q, w), q)
<1>1. Len(q) \in Nat /\ DOMAIN q = 1..Len(q)
  OBVIOUS
<1>2. Front(q) \in Seq(S)
  <2>1. \A j \in 1..(Len(q) - 1) : q[j] \in S
    OBVIOUS
  <2>. QED BY <2>1, SubSeqProperties DEF Front
<1>3. ASSUME NEW x, q # <<>>, x # Last(q) PROVE SameFor(x, Front(q), q)
  <2> DEFINE f == Front(q)
  <2>1. Len(q) > 0
    BY <1>1, <1>3, EmptySeq
  <2>2. f \in Seq(S) /\ Len(f) = Len(q) - 1 /\ \A j \in 1..(Len(q) - 1) : f[j] = q[j]
    <3>1. \A j \in 1..(Len(q) - 1) : q[j] \in S
      BY <1>1
    <3> DEFINE n == Len(q) - 1
    <3>2. n \in Nat
      BY <1>1, <2>1
    <3>3. f = SubSeq(q, 1, n)
      BY DEF Front
    <3> HIDE DEF f, n
    <3>4. /\ Len(f) = IF 1 <= n THEN n - 1 + 1 ELSE 0
          /\ \A j \in 1..(n - 1 + 1) : f[j] = q[1 + j - 1]
      BY <3>1, <3>2, <3>3, SubSeqProperties DEF n
    <3>5. Len(f) = n
      BY <3>2, <3>4
    <3>6. \A j \in 1..n : f[j] = q[j]
      BY <3>2, <3>4
    <3>. QED BY <1>2, <3>5, <3>6 DEF f, n
  <2> HIDE DEF f
  <2>3. DOMAIN f = 1..(Len(q) - 1)
    BY <2>2, LenProperties
  <2>4. q[Len(q)] # x
    BY <1>3 DEF Last
  <2>5. x \in ToSet(f) <=> x \in ToSet(q)
    <3>1. \A j \in DOMAIN f : j \in DOMAIN q /\ f[j] = q[j]
      BY <1>1, <2>2, <2>3
    <3>2. \A j \in DOMAIN q : j = Len(q) \/ j \in DOMAIN f
      BY <1>1, <2>3
    <3>. QED BY <2>4, <3>1, <3>2 DEF ToSet
  <2>6. Once(q, x) => Once(f, x)
    BY <1>1, <2>2, <2>3 DEF Once
  <2>. QED BY <2>5, <2>6 DEF SameFor, f
<1>4. CASE w \in ToSet(q)
  <2>1. SpliceOut(q, w) = RemoveFirst(q, w)
    BY <1>4, ContainsIsIn DEF SpliceOut
  <2>. QED BY <2>1, RemoveFirstSound
<1>5. CASE w \notin ToSet(q)
  <2>1. SpliceOut(q, w) = (IF q = <<>> THEN q ELSE Front(q))
    BY <1>5, ContainsIsIn DEF SpliceOut
  <2>2. Displaced(q, w) = {w} \cup (IF q = <<>> THEN {} ELSE {Last(q)})
    BY <1>5, ContainsIsIn DEF Displaced
  <2>3. ASSUME NEW x, x \notin {w} \cup Displaced(q, w) PROVE SameFor(x, SpliceOut(q, w), q)
    <3>1. CASE q = <<>>
      BY <2>1, <3>1 DEF SameFor
    <3>2. CASE q # <<>>
      BY <1>3, <2>1, <2>2, <2>3, <3>2
    <3>. QED BY <3>1, <3>2
  <2>. QED BY <1>2, <1>5, <2>1, <2>3
<1>. QED BY <1>4, <1>5

\* A requeued socket is in the bucket, no more than once if it was so before.
LEMMA PushMissingSound ==
    ASSUME NEW q \in Seq(Socket), NEW w \in Socket
    PROVE  /\ PushMissing(q, w) \in Seq(Socket)
           /\ MayRequeue(w) => w \in ToSet(PushMissing(q, w))
           /\ Once(q, w) => Once(PushMissing(q, w), w)
           /\ \A x : x # w \/ ~MayRequeue(w) => SameFor(x, PushMissing(q, w), q)
<1>1. CASE MayRequeue(w) /\ ~Contains(q, w)
  <2>1. w \notin ToSet(q) /\ PushMissing(q, w) = Append(q, w)
    BY <1>1, ContainsIsIn DEF PushMissing
  <2>. QED BY <1>1, <2>1, AppendSound
<1>2. CASE ~(MayRequeue(w) /\ ~Contains(q, w))
  <2>1. PushMissing(q, w) = q /\ (MayRequeue(w) => w \in ToSet(q))
    BY <1>2, ContainsIsIn DEF PushMissing
  <2>. QED BY <2>1 DEF SameFor
<1>. QED BY <1>1, <1>2
-----------------------------------------------------------------------------
(* Types.                                                                  *)

LEMMA LookupForms ==
    /\ \A x \in Lookup : x.kind \in {"rating", "pick"} /\ x.ws \in Socket /\ x.tier \in Tier
                          /\ (x.kind = "pick" => x.cands \subseteq Candidate)
    /\ \A x \in Match : x.kind = "deck" /\ x.tier \in Tier
                          /\ x.creator \in Socket /\ x.challenger \in Socket
                          /\ x.creatorAddr \in MaybeAddress /\ x.challengerAddr \in MaybeAddress
    /\ \A w \in Socket, t \in Tier : [kind |-> "rating", ws |-> w, tier |-> t] \in Lookup
    /\ \A w \in Socket, t \in Tier, C \in SUBSET Candidate :
          [kind |-> "pick", ws |-> w, tier |-> t, cands |-> C] \in Lookup
    /\ \A t \in Tier, a, b \in Socket, x, y \in MaybeAddress :
          [kind |-> "deck", tier |-> t, creator |-> a, challenger |-> b,
           creatorAddr |-> x, challengerAddr |-> y] \in Match
BY DEF Lookup, Match

\* What kind of call a slot holds.
LEMMA SlotKinds ==
    ASSUME TypeOK, NEW k \in Task, task[k] # Idle
    PROVE  /\ task[k].kind \in {"rating", "pick"} => task[k] \in Lookup
           /\ task[k].kind = "deck" => task[k] \in Match
BY LookupForms DEF TypeOK

LEMMA InitTypeOK == Init => TypeOK
<1> SUFFICES ASSUME Init PROVE TypeOK
  OBVIOUS
<1>1. queue \in [Tier -> Seq(Socket)]
  BY DEF Init
<1>2. 0 \in 0..MaxJoins /\ 0 \in 0..MaxDeckFailures /\ 0 \in 0..MaxReadFailures
  BY MatchmakingAssumption
<1>. QED BY <1>1, <1>2 DEF Init, TypeOK, MaybeAddress

LEMMA QueueWithoutType ==
    ASSUME TypeOK, NEW w \in Socket
    PROVE  QueueWithout(w) \in [Tier -> Seq(Socket)]
<1>1. CASE queuedTier[w] = NoTier
  BY <1>1 DEF QueueWithout, TypeOK
<1>2. CASE queuedTier[w] # NoTier
  <2>1. queuedTier[w] \in Tier /\ queue[queuedTier[w]] \in Seq(Socket)
    BY <1>2 DEF TypeOK
  <2>2. RemoveFirst(queue[queuedTier[w]], w) \in Seq(Socket)
    BY <2>1, RemoveFirstSound
  <2>. QED BY <1>2, <2>1, <2>2 DEF QueueWithout, TypeOK
<1>. QED BY <1>1, <1>2

LEMMA TellType ==
    ASSUME TypeOK, NEW ws, NEW msg \in {"searching", "left", "abandoned", "assigned"}, Tell(ws, msg)
    PROVE  heard' \in [Socket -> {"nothing", "searching", "left", "abandoned", "assigned",
                          "found as creator", "found as challenger"}]
BY DEF Tell, TypeOK

LEMMA EnqueueType ==
    ASSUME TypeOK, NEW w \in Socket, NEW t \in Tier, Enqueue(w, t)
    PROVE  /\ queue' \in [Tier -> Seq(Socket)]
           /\ heard' \in [Socket -> {"nothing", "searching", "left", "abandoned", "assigned",
                          "found as creator", "found as challenger"}]
<1>1. CASE addr[w] # Nobody /\ queuedTier[w] = t
  <2>1. Append(queue[t], w) \in Seq(Socket)
    <3>1. queue[t] \in Seq(Socket)
      BY DEF TypeOK
    <3>. QED BY <3>1, AppendSound
  <2>2. queue' = [queue EXCEPT ![t] = Append(@, w)] /\ Tell({w}, "searching")
    BY <1>1 DEF Enqueue
  <2>. QED BY <2>1, <2>2, TellType DEF TypeOK
<1>2. CASE ~(addr[w] # Nobody /\ queuedTier[w] = t)
  BY <1>2 DEF Enqueue, TypeOK
<1>. QED BY <1>1, <1>2

LEMMA CandidatesType ==
    ASSUME TypeOK, NEW w \in Socket, NEW t \in Tier
    PROVE  Candidates(w, t) \subseteq Candidate
<1> SUFFICES ASSUME NEW i \in DOMAIN queue[t], addr[queue[t][i]] \notin {Nobody, addr[w]}
             PROVE  [pos |-> i, ws |-> queue[t][i], addr |-> addr[queue[t][i]]] \in Candidate
  BY DEF Candidates
<1>1. queue[t] \in Seq(Socket)
  BY DEF TypeOK
<1>2. i \in Nat \ {0} /\ queue[t][i] \in Socket
  BY <1>1
<1>3. addr[queue[t][i]] \in Address
  BY <1>2 DEF TypeOK, MaybeAddress
<1>. QED BY <1>2, <1>3 DEF Candidate

LEMMA StartMatchType ==
    ASSUME TypeOK, NEW k \in Task, NEW a \in Socket, NEW b \in Socket, NEW t \in Tier,
           StartMatch(k, a, b, t)
    PROVE  /\ queuedTier' \in [Socket -> Tier \cup {NoTier}]
           /\ task' \in [Task -> {Idle} \cup Lookup \cup Match]
           /\ task' = [task EXCEPT ![k] =
                 [kind |-> "deck", tier |-> t, creator |-> a, challenger |-> b,
                  creatorAddr |-> addr[a], challengerAddr |-> addr[b]]]
<1>1. addr[a] \in MaybeAddress /\ addr[b] \in MaybeAddress
  BY DEF TypeOK
<1>2. queuedTier' \in [Socket -> Tier \cup {NoTier}]
  BY DEF StartMatch, TypeOK
<1> DEFINE m == [kind |-> "deck", tier |-> t, creator |-> a, challenger |-> b,
                 creatorAddr |-> addr[a], challengerAddr |-> addr[b]]
<1>3. m \in Match /\ task' = [task EXCEPT ![k] = m]
  BY <1>1, LookupForms DEF StartMatch
<1> HIDE DEF m
<1>4. task' \in [Task -> {Idle} \cup Lookup \cup Match]
  BY <1>3 DEF TypeOK
<1>. QED BY <1>2, <1>3, <1>4 DEF m

LEMMA DisplacedType ==
    ASSUME NEW q \in Seq(Socket), NEW w \in Socket
    PROVE  Displaced(q, w) \subseteq Socket
BY DEF Displaced, Last

LEMMA NextTypeOK == ASSUME TypeOK, [Next]_vars PROVE TypeOK'
<1>1. ASSUME NEW w \in Socket, NEW a \in Address, Hello(w, a) PROVE TypeOK'
  BY <1>1 DEF TypeOK, Hello, MaybeAddress, queueVars, pairVars, bounds
<1>2. ASSUME NEW w \in Socket, LeaveQueue(w) PROVE TypeOK'
  BY <1>2, QueueWithoutType, TellType DEF TypeOK, LeaveQueue, connVars, pairVars, bounds
<1>3. ASSUME NEW w \in Socket, Close(w) PROVE TypeOK'
  BY <1>3, QueueWithoutType DEF TypeOK, Close, MaybeAddress, pairVars, bounds
<1>4. ASSUME NEW w \in Socket, NEW t \in Tier, NEW k \in Task, JoinQueue(w, t, k) PROVE TypeOK'
  <2> DEFINE c == [kind |-> "rating", ws |-> w, tier |-> t]
  <2>1. c \in Lookup /\ task' = [task EXCEPT ![k] = c]
    BY <1>4, LookupForms DEF JoinQueue
  <2>2. joins' \in 0..MaxJoins
    <3>1. joins \in 0..MaxJoins /\ joins < MaxJoins /\ joins' = joins + 1
      BY <1>4 DEF JoinQueue, TypeOK
    <3>. QED BY <3>1, MatchmakingAssumption
  <2> HIDE DEF c
  <2>3. task' \in [Task -> {Idle} \cup Lookup \cup Match]
    BY <2>1 DEF TypeOK
  <2>4. Tell({w} \cap {x \in Socket : queuedTier[x] # NoTier}, "left")
    BY <1>4 DEF JoinQueue
  <2>. QED BY <1>4, <2>2, <2>3, <2>4, QueueWithoutType, TellType
           DEF TypeOK, JoinQueue, connVars, pairVars, LookingUp
<1>5. ASSUME NEW k \in Task, RatingRead(k) PROVE TypeOK'
  <2>1. task[k].ws \in Socket /\ task[k].tier \in Tier
    BY <1>5, SlotKinds, LookupForms DEF RatingRead
  <2> DEFINE c == [kind |-> "pick", ws |-> task[k].ws, tier |-> task[k].tier,
                   cands |-> Candidates(task[k].ws, task[k].tier)]
  <2>2. c \in Lookup
    BY <2>1, CandidatesType, LookupForms
  <2>3. /\ task' = [task EXCEPT ![k] = c]
        /\ UNCHANGED <<connVars, queueVars, heard, retries, pairVars, bounds, harmed>>
    BY <1>5 DEF RatingRead
  <2> HIDE DEF c
  <2>4. task' \in [Task -> {Idle} \cup Lookup \cup Match]
    BY <2>2, <2>3 DEF TypeOK
  <2>. QED BY <2>3, <2>4 DEF TypeOK, connVars, queueVars, pairVars, bounds
<1>6. ASSUME NEW k \in Task, NEW o \in Socket, PickOpponent(k, o) PROVE TypeOK'
  <2>1. task[k].ws \in Socket /\ task[k].tier \in Tier
    BY <1>6, SlotKinds, LookupForms DEF PickOpponent
  <2>2. SpliceOut(queue[task[k].tier], o) \in Seq(Socket)
    <3>1. queue[task[k].tier] \in Seq(Socket)
      BY <2>1 DEF TypeOK
    <3>. QED BY <3>1, SpliceOutSound
  <2>3. queue' = [queue EXCEPT ![task[k].tier] = SpliceOut(@, o)]
    BY <1>6 DEF PickOpponent
  <2>4. queue' \in [Tier -> Seq(Socket)]
    BY <2>2, <2>3 DEF TypeOK
  <2>5. StartMatch(k, o, task[k].ws, task[k].tier)
        /\ UNCHANGED <<connVars, heard, retries, pairVars, bounds>>
    BY <1>6 DEF PickOpponent
  <2>6. /\ queuedTier' \in [Socket -> Tier \cup {NoTier}]
        /\ task' \in [Task -> {Idle} \cup Lookup \cup Match]
    BY <2>1, <2>5, StartMatchType
  <2>7. harmed' \subseteq Socket
    <3>1. o \in Socket /\ queue[task[k].tier] \in Seq(Socket) /\ harmed \subseteq Socket
      BY <2>1 DEF TypeOK
    <3>2. harmed' = harmed \cup Displaced(queue[task[k].tier], o)
      BY <1>6 DEF PickOpponent
    <3>3. Displaced(queue[task[k].tier], o) \subseteq Socket
      BY <3>1, DisplacedType
    <3>. QED BY <3>1, <3>2, <3>3
  <2>. QED BY <2>4, <2>5, <2>6, <2>7 DEF TypeOK, connVars, pairVars, bounds
<1>7. ASSUME NEW k \in Task, PickNobody(k) PROVE TypeOK'
  <2>1. task[k].ws \in Socket /\ task[k].tier \in Tier
    BY <1>7, SlotKinds, LookupForms DEF PickNobody
  <2>2. Enqueue(task[k].ws, task[k].tier) /\ task' = [task EXCEPT ![k] = Idle]
        /\ UNCHANGED <<connVars, queuedTier, retries, pairVars, bounds, harmed>>
    BY <1>7 DEF PickNobody
  <2>. QED BY <2>1, <2>2, EnqueueType DEF TypeOK, connVars, pairVars, bounds
<1>8. ASSUME NEW k \in Task, DeckReady(k) PROVE TypeOK'
  <2>1. task[k] \in Match
    BY <1>8, SlotKinds DEF DeckReady
  <2> DEFINE m == task[k]
             x == [owner |-> m.creatorAddr, creator |-> m.creator,
                   challenger |-> m.challenger, peer |-> m.challengerAddr]
  <2>2. BothBound(m) => x \in Timer /\ m.creatorAddr \in Address /\ m.challengerAddr \in Address
    BY <2>1, LookupForms DEF BothBound, MaybeAddress, Timer
  <2>3. \/ /\ BothBound(m) /\ pending' = [pending EXCEPT ![m.creatorAddr] = m.challengerAddr]
           /\ timers' = {y \in timers : y.owner # x.owner} \cup {x}
        \/ UNCHANGED pairVars
    BY <1>8 DEF DeckReady, Arm
  <2> HIDE DEF m, x
  <2>4. pending' \in [Address -> MaybeAddress] /\ timers' \subseteq Timer
    BY <2>2, <2>3 DEF TypeOK, pairVars, MaybeAddress
  <2>5. heard' \in [Socket -> {"nothing", "searching", "left", "abandoned", "assigned",
                          "found as creator", "found as challenger"}]
    BY <1>8 DEF DeckReady, TypeOK
  <2>6. task' \in [Task -> {Idle} \cup Lookup \cup Match]
        /\ UNCHANGED <<connVars, queueVars, retries, bounds, harmed>>
    BY <1>8 DEF DeckReady, TypeOK
  <2>. QED BY <2>4, <2>5, <2>6 DEF TypeOK, connVars, queueVars, bounds
<1>9. ASSUME NEW k \in Task, DeckFailed(k) PROVE TypeOK'
  <2>1. /\ task[k].creator \in Socket /\ task[k].challenger \in Socket
        /\ task[k].tier \in Tier /\ queue[task[k].tier] \in Seq(Socket)
    BY <1>9, SlotKinds, LookupForms DEF DeckFailed, TypeOK
  <2> DEFINE m == task[k]
             q == PushMissing(PushMissing(queue[m.tier], m.creator), m.challenger)
             back == {w \in {m.creator, m.challenger} : MayRequeue(w)}
  <2>2. q \in Seq(Socket)
    BY <2>1, PushMissingSound
  <2>3. /\ queue' = [queue EXCEPT ![m.tier] = q]
        /\ queuedTier' = [w \in Socket |-> IF w \in back THEN m.tier ELSE queuedTier[w]]
        /\ Tell(back, "searching")
        /\ retries' = retries \cup {[n |-> deckFailures, a |-> m.creator, b |-> m.challenger, tier |-> m.tier]}
        /\ task' = [task EXCEPT ![k] = Idle]
        /\ harmed' = harmed \cup (back \cap LookingUp)
        /\ UNCHANGED <<connVars, pairVars, joins, readFailures>>
    BY <1>9 DEF DeckFailed
  <2>4. deckFailures' \in 0..MaxDeckFailures
    <3>1. deckFailures \in 0..MaxDeckFailures /\ deckFailures < MaxDeckFailures
          /\ deckFailures' = deckFailures + 1
      BY <1>9 DEF DeckFailed, TypeOK
    <3>. QED BY <3>1, MatchmakingAssumption
  <2>5. retries' \subseteq [n : 0..MaxDeckFailures, a : Socket, b : Socket, tier : Tier]
    <3>1. [n |-> deckFailures, a |-> m.creator, b |-> m.challenger, tier |-> m.tier]
             \in [n : 0..MaxDeckFailures, a : Socket, b : Socket, tier : Tier]
      BY <1>9, <2>1 DEF TypeOK
    <3>2. retries \subseteq [n : 0..MaxDeckFailures, a : Socket, b : Socket, tier : Tier]
      BY DEF TypeOK
    <3>. QED BY <2>3, <3>1, <3>2, Zenon
  <2>. HIDE DEF q, back
  <2>6. queue' \in [Tier -> Seq(Socket)] /\ queuedTier' \in [Socket -> Tier \cup {NoTier}]
    BY <2>1, <2>2, <2>3 DEF TypeOK
  <2>7. task' \in [Task -> {Idle} \cup Lookup \cup Match]
    BY <2>3 DEF TypeOK
  <2>8. harmed' \subseteq Socket
    BY <2>3 DEF TypeOK, LookingUp
  <2>. QED BY <2>3, <2>4, <2>5, <2>6, <2>7, <2>8, TellType DEF TypeOK, connVars, pairVars
<1>10. ASSUME NEW r \in retries, NEW k \in Task, RetryPair(r, k) PROVE TypeOK'
  <2>1. r.a \in Socket /\ r.b \in Socket /\ r.tier \in Tier /\ queue[r.tier] \in Seq(Socket)
    BY DEF TypeOK
  <2>2. retries' = retries \ {r} /\ UNCHANGED <<connVars, heard, pairVars, bounds, harmed>>
    BY <1>10 DEF RetryPair
  <2>3. CASE StillPaired(r)
    <3>1. /\ queue' = [queue EXCEPT ![r.tier] = SpliceOut(SpliceOut(@, r.a), r.b)]
          /\ StartMatch(k, r.a, r.b, r.tier)
      BY <1>10, <2>3 DEF RetryPair
    <3>2. SpliceOut(SpliceOut(queue[r.tier], r.a), r.b) \in Seq(Socket)
      BY <2>1, SpliceOutSound
    <3>3. queue' \in [Tier -> Seq(Socket)]
      BY <3>1, <3>2 DEF TypeOK
    <3>. QED BY <2>1, <2>2, <3>1, <3>3, StartMatchType DEF TypeOK, connVars, pairVars, bounds
  <2>4. CASE ~StillPaired(r)
    <3>1. UNCHANGED <<queueVars, task>>
      BY <1>10, <2>4 DEF RetryPair
    <3>. QED BY <2>2, <3>1 DEF TypeOK, connVars, queueVars, pairVars, bounds
  <2>. QED BY <2>3, <2>4
<1>11. ASSUME NEW x \in timers, HandshakeTimeout(x) PROVE TypeOK'
  <2>1. x.owner \in Address
    BY DEF TypeOK, Timer
  <2>2. timers' \subseteq Timer /\ UNCHANGED <<connVars, queueVars, task, retries, bounds, harmed>>
    BY <1>11 DEF HandshakeTimeout, TypeOK
  <2>3. \/ UNCHANGED <<pending, heard>>
        \/ pending' = [pending EXCEPT ![x.owner] = Nobody] /\ Tell({x.creator, x.challenger}, "abandoned")
    BY <1>11 DEF HandshakeTimeout
  <2>4. pending' \in [Address -> MaybeAddress]
    BY <2>3 DEF TypeOK, MaybeAddress
  <2>5. heard' \in [Socket -> {"nothing", "searching", "left", "abandoned", "assigned",
                          "found as creator", "found as challenger"}]
    BY <2>3, TellType DEF TypeOK
  <2>. QED BY <2>2, <2>4, <2>5 DEF TypeOK, connVars, queueVars, bounds
<1>12. ASSUME NEW a \in Address, DuelCreated(a) PROVE TypeOK'
  <2>1. /\ timers' \subseteq timers /\ UNCHANGED <<connVars, queueVars, task, retries, bounds, harmed>>
        /\ pending' = [pending EXCEPT ![a] = Nobody]
        /\ Tell({w \in Socket : addr[w] = pending[a] /\ pending[a] # Nobody}, "assigned")
    BY <1>12 DEF DuelCreated
  <2>2. pending' \in [Address -> MaybeAddress]
    BY <2>1 DEF TypeOK, MaybeAddress
  <2>. QED BY <2>1, <2>2, TellType DEF TypeOK, connVars, queueVars, bounds
<1>14. ASSUME NEW k \in Task, RatingFails(k) PROVE TypeOK'
  <2>1. task[k].ws \in Socket
    BY <1>14, SlotKinds, LookupForms DEF RatingFails, InLookup
  <2>2. readFailures' \in 0..MaxReadFailures
    <3>1. readFailures \in 0..MaxReadFailures /\ readFailures < MaxReadFailures
          /\ readFailures' = readFailures + 1
      BY <1>14 DEF RatingFails, TypeOK
    <3>. QED BY <3>1, MatchmakingAssumption
  <2>3. /\ task' = [task EXCEPT ![k] = Idle] /\ harmed' = harmed \cup {task[k].ws}
        /\ UNCHANGED <<connVars, queueVars, heard, retries, pairVars, joins, deckFailures>>
    BY <1>14 DEF RatingFails
  <2>. QED BY <2>1, <2>2, <2>3 DEF TypeOK, connVars, queueVars, pairVars
<1>13. CASE UNCHANGED vars
  BY <1>13 DEF TypeOK, vars, connVars, queueVars, pairVars, bounds
<1>. QED
  BY <1>1, <1>2, <1>3, <1>4, <1>5, <1>6, <1>7, <1>8, <1>9, <1>10, <1>11, <1>12, <1>13,
     <1>14
  DEF Next, HelloSome, LeaveSome, CloseSome, JoinSome, PickSome, RetrySome, TimeoutSome,
      DuelCreatedSome

\* Every field keeps its type, whatever runs between the awaits; the sockets of
\* a call in progress are sockets, and a timer names two known addresses.
THEOREM MatchTypes == Spec => []TypeOK
BY InitTypeOK, NextTypeOK, PTL DEF Spec
-----------------------------------------------------------------------------
(* The pairing and its timer.                                              *)

PairInv == TypeOK /\ HandshakeOwnsPair

LEMMA InitPairInv == Init => PairInv
BY InitTypeOK DEF Init, PairInv, HandshakeOwnsPair

LEMMA NextPair == ASSUME PairInv, [Next]_vars PROVE HandshakeOwnsPair'
<1>1. CASE UNCHANGED pairVars
  BY <1>1 DEF PairInv, TypeOK, HandshakeOwnsPair, pairVars
<1>2. ASSUME NEW k \in Task, DeckReady(k), ~UNCHANGED pairVars
      PROVE  HandshakeOwnsPair'
  <2> DEFINE m == task[k]
             x == [owner |-> m.creatorAddr, creator |-> m.creator,
                   challenger |-> m.challenger, peer |-> m.challengerAddr]
  <2>1. /\ m.creator \in Socket /\ m.challenger \in Socket
        /\ m.creatorAddr \in MaybeAddress /\ m.challengerAddr \in MaybeAddress
    BY <1>2, SlotKinds, LookupForms DEF DeckReady, PairInv
  <2>2. /\ BothBound(m)
        /\ pending' = [pending EXCEPT ![m.creatorAddr] = m.challengerAddr]
        /\ timers' = {y \in timers : y.owner # m.creatorAddr} \cup {x}
    BY <1>2 DEF DeckReady, Arm
  <2>3. m.creatorAddr \in Address /\ m.challengerAddr \in Address
    BY <2>1, <2>2 DEF BothBound, MaybeAddress
  <2>4. x \in Timer /\ x.owner = m.creatorAddr /\ x.peer = m.challengerAddr
    BY <2>1, <2>3 DEF Timer
  <2> HIDE DEF m, x
  <2>6. \A a \in Address : pending'[a] = IF a = m.creatorAddr THEN m.challengerAddr ELSE pending[a]
    BY <2>2, <2>3 DEF PairInv, TypeOK
  <2>7. \A a \in Address : pending'[a] # Nobody =>
           \E y \in timers' : y.owner = a /\ y.peer = pending'[a]
    BY <2>2, <2>4, <2>6 DEF PairInv, HandshakeOwnsPair
  <2>8. \A y \in timers' : pending'[y.owner] = y.peer
    BY <2>2, <2>3, <2>4, <2>6 DEF PairInv, TypeOK, HandshakeOwnsPair, Timer
  <2>9. \A y, z \in timers' : y.owner = z.owner => y = z
    BY <2>2, <2>4 DEF PairInv, HandshakeOwnsPair
  <2>. QED BY <2>7, <2>8, <2>9 DEF HandshakeOwnsPair
<1>3. ASSUME NEW x \in timers, HandshakeTimeout(x) PROVE HandshakeOwnsPair'
  <2>1. x.owner \in Address /\ x.peer \in Address /\ pending[x.owner] = x.peer
    BY DEF PairInv, TypeOK, HandshakeOwnsPair, Timer
  <2>2. /\ timers' = timers \ {x}
        /\ pending' = [pending EXCEPT ![x.owner] = Nobody]
    BY <1>3, <2>1, MatchmakingAssumption DEF HandshakeTimeout
  <2>3. \A y \in timers' : y.owner \in Address /\ y.owner # x.owner
    BY <2>2 DEF PairInv, TypeOK, HandshakeOwnsPair, Timer
  <2>. QED BY <2>1, <2>2, <2>3 DEF PairInv, TypeOK, HandshakeOwnsPair, MaybeAddress
<1>4. ASSUME NEW a \in Address, DuelCreated(a) PROVE HandshakeOwnsPair'
  <2>1. /\ timers' = {x \in timers : x.owner # a}
        /\ pending' = [pending EXCEPT ![a] = Nobody]
    BY <1>4 DEF DuelCreated
  <2>2. \A y \in timers' : y.owner \in Address /\ y.owner # a
    BY <2>1 DEF PairInv, TypeOK, Timer
  <2>. QED BY <2>1, <2>2 DEF PairInv, TypeOK, HandshakeOwnsPair, MaybeAddress
<1>5. \/ UNCHANGED pairVars
      \/ \E k \in Task : DeckReady(k)
      \/ \E x \in timers : HandshakeTimeout(x)
      \/ \E a \in Address : DuelCreated(a)
  BY DEF Next, HelloSome, LeaveSome, CloseSome, JoinSome, PickSome, RetrySome, TimeoutSome,
         DuelCreatedSome, Hello, LeaveQueue, Close, JoinQueue, RatingRead, PickOpponent,
         RatingFails, PickNobody, DeckFailed, RetryPair, vars, pairVars
<1>. QED BY <1>1, <1>2, <1>3, <1>4, <1>5

\* Whatever joins, leaves, closes, rebinds, fails or arrives late, a pending
\* pairing has exactly one teardown timer and the timer names the challenger
\* that is pending (matchPair, armHandshakeTimeout, takeMatchedPair).
THEOREM MatchHandshake == Spec => []HandshakeOwnsPair
<1>1. PairInv /\ [Next]_vars => PairInv'
  BY NextTypeOK, NextPair DEF PairInv
<1>2. PairInv => HandshakeOwnsPair
  BY DEF PairInv
<1>. QED BY InitPairInv, <1>1, <1>2, PTL DEF Spec
-----------------------------------------------------------------------------
(* The queue: each socket that no race has harmed, for itself.             *)

OwnLookup(w, k) == InLookup(k) /\ task[k].ws = w

\* A socket that waits or searches is connected; it waits in the bucket of its
\* tier or is in its own joinQueue for it, in one call and not in both.
Fine(w) ==
    /\ \A t \in Tier : Once(queue[t], w) /\ (w \in ToSet(queue[t]) => queuedTier[w] = t)
    /\ queuedTier[w] # NoTier =>
          /\ addr[w] # Nobody
          /\ w \in ToSet(queue[queuedTier[w]]) \/ \E k \in Task : OwnLookup(w, k)
    /\ \A k \in Task : OwnLookup(w, k) =>
          /\ \A t \in Tier : w \notin ToSet(queue[t])
          /\ queuedTier[w] \in {NoTier, task[k].tier}
          /\ \A j \in Task : OwnLookup(w, j) => j = k

\* A joiner never compares itself with itself, so a match is between two sockets.
TwoSockets ==
    /\ \A k \in Task : task[k] # Idle =>
          /\ task[k].kind = "pick" => \A c \in task[k].cands : c.ws # task[k].ws
          /\ task[k].kind = "deck" => task[k].creator # task[k].challenger
    /\ \A r \in retries : r.a # r.b

QInv == TypeOK /\ TwoSockets /\ \A w \in Socket \ harmed : Fine(w)

LEMMA InitQInv == Init => QInv
<1> SUFFICES ASSUME Init PROVE TwoSockets /\ \A w \in Socket : Fine(w)
  BY InitTypeOK DEF QInv
<1>1. TwoSockets
  BY DEF Init, TwoSockets
<1>2. ASSUME NEW w \in Socket PROVE Fine(w)
  BY DEF Init, Fine, OwnLookup, InLookup, Once, ToSet
<1>. QED BY <1>1, <1>2

LEMMA FineIsSound == QInv => QueueSound
<1> SUFFICES ASSUME QInv, NEW w \in Socket \ harmed
             PROVE  /\ \A t \in Tier : /\ Once(queue[t], w)
                                       /\ w \in ToSet(queue[t]) => queuedTier[w] = t /\ addr[w] # Nobody
                    /\ queuedTier[w] # NoTier => \/ w \in ToSet(queue[queuedTier[w]])
                                                 \/ w \in LookingUp
  BY DEF QueueSound
<1>1. Fine(w)
  BY DEF QInv
<1>2. (\E k \in Task : OwnLookup(w, k)) => w \in LookingUp
  BY DEF OwnLookup, LookingUp
<1>. QED BY <1>1, <1>2, MatchmakingAssumption DEF Fine

LEMMA SlotFrame ==
    ASSUME TypeOK, NEW k \in Task, NEW c, task' = [task EXCEPT ![k] = c]
    PROVE  \A j \in Task : task'[j] = IF j = k THEN c ELSE task[j]
BY DEF TypeOK

\* What a step may leave alone of a socket.
Rests(w) ==
    /\ addr[w] # Nobody => addr'[w] # Nobody
    /\ queuedTier'[w] = queuedTier[w]
    /\ \A t \in Tier : SameFor(w, queue'[t], queue[t])

LEMMA RestsFine ==
    ASSUME TypeOK, NEW w \in Socket, Fine(w), Rests(w),
           \A k \in Task : /\ OwnLookup(w, k)' <=> OwnLookup(w, k)
                           /\ OwnLookup(w, k) => task'[k].tier = task[k].tier
    PROVE  Fine(w)'
<1>1. \A t \in Tier : Once(queue'[t], w) /\ (w \in ToSet(queue'[t]) => queuedTier'[w] = t)
  BY DEF Fine, Rests, SameFor
<1>2. ASSUME queuedTier'[w] # NoTier
      PROVE  /\ addr'[w] # Nobody
             /\ w \in ToSet(queue'[queuedTier'[w]]) \/ \E k \in Task : OwnLookup(w, k)'
  <2>1. queuedTier[w] \in Tier /\ queuedTier'[w] = queuedTier[w] /\ queuedTier[w] # NoTier
    BY <1>2 DEF Rests, TypeOK
  <2>2. SameFor(w, queue'[queuedTier[w]], queue[queuedTier[w]])
    BY <2>1 DEF Rests
  <2>. QED BY <2>1, <2>2 DEF Fine, Rests, SameFor
<1>3. ASSUME NEW k \in Task, OwnLookup(w, k)'
      PROVE  /\ \A t \in Tier : w \notin ToSet(queue'[t])
             /\ queuedTier'[w] \in {NoTier, task'[k].tier}
             /\ \A j \in Task : OwnLookup(w, j)' => j = k
  BY <1>3 DEF Fine, Rests, SameFor
<1>. QED BY <1>1, <1>2, <1>3 DEF Fine

\* The same when the calls in progress are as they were, for the socket.
LEMMA SameTaskFine ==
    ASSUME TypeOK, NEW w \in Socket, Fine(w), Rests(w), UNCHANGED task
    PROVE  Fine(w)'
<1>1. \A k \in Task : (OwnLookup(w, k)' <=> OwnLookup(w, k)) /\ task'[k].tier = task[k].tier
  BY DEF OwnLookup, InLookup
<1>. QED BY <1>1, RestsFine

LEMMA OtherTaskFine ==
    ASSUME TypeOK, NEW w \in Socket, Fine(w), Rests(w), NEW k \in Task, NEW c,
           task' = [task EXCEPT ![k] = c], ~OwnLookup(w, k),
           c = Idle \/ c.kind = "deck" \/ c.ws # w
    PROVE  Fine(w)'
<1>1. \A j \in Task : task'[j] = IF j = k THEN c ELSE task[j]
  BY SlotFrame
<1>2. ~OwnLookup(w, k)'
  BY <1>1 DEF OwnLookup, InLookup
<1>3. \A j \in Task : /\ OwnLookup(w, j)' <=> OwnLookup(w, j)
                      /\ OwnLookup(w, j) => task'[j].tier = task[j].tier
  BY <1>1, <1>2 DEF OwnLookup, InLookup
<1>. QED BY <1>3, RestsFine

\* A socket that is out of the search and of every bucket.
LEMMA OutFine ==
    ASSUME NEW w \in Socket, queuedTier'[w] = NoTier, \A t \in Tier : w \notin ToSet(queue'[t]),
           \A j, k \in Task : OwnLookup(w, j)' /\ OwnLookup(w, k)' => j = k
    PROVE  Fine(w)'
<1>1. \A t \in Tier : Once(queue'[t], w)
  BY DEF Once, ToSet
<1>. QED BY <1>1 DEF Fine

LEMMA QueueWithoutSound ==
    ASSUME TypeOK, NEW v \in Socket, NEW t \in Tier
    PROVE  /\ Fine(v) => v \notin ToSet(QueueWithout(v)[t])
           /\ \A w : w # v => SameFor(w, QueueWithout(v)[t], queue[t])
<1>1. queue[t] \in Seq(Socket) /\ queue \in [Tier -> Seq(Socket)]
  BY DEF TypeOK
<1>2. CASE queuedTier[v] = t
  <2>1. QueueWithout(v)[t] = RemoveFirst(queue[t], v)
    BY <1>1, <1>2, MatchmakingAssumption DEF QueueWithout
  <2>2. Fine(v) => Once(queue[t], v)
    BY DEF Fine
  <2>. QED BY <1>1, <2>1, <2>2, RemoveFirstSound
<1>3. CASE queuedTier[v] # t
  <2>1. QueueWithout(v)[t] = queue[t]
    BY <1>1, <1>3 DEF QueueWithout
  <2>2. Fine(v) => v \notin ToSet(queue[t])
    BY <1>3 DEF Fine
  <2>. QED BY <2>1, <2>2 DEF SameFor
<1>. QED BY <1>2, <1>3

LEMMA NextTwoSockets == ASSUME TypeOK, TwoSockets, [Next]_vars PROVE TwoSockets'
<1>1. CASE UNCHANGED <<task, retries>>
  BY <1>1 DEF TwoSockets
<1>2. ASSUME NEW k \in Task, task' = [task EXCEPT ![k] = Idle], retries' = retries PROVE TwoSockets'
  BY <1>2, SlotFrame DEF TwoSockets
<1>3. ASSUME NEW w \in Socket, NEW t \in Tier, NEW k \in Task, JoinQueue(w, t, k) PROVE TwoSockets'
  <2> DEFINE c == [kind |-> "rating", ws |-> w, tier |-> t]
  <2>1. c.kind = "rating" /\ task' = [task EXCEPT ![k] = c] /\ retries' = retries
    BY <1>3 DEF JoinQueue
  <2> HIDE DEF c
  <2>. QED BY <2>1, SlotFrame DEF TwoSockets
<1>4. ASSUME NEW k \in Task, RatingRead(k) PROVE TwoSockets'
  <2> DEFINE w == task[k].ws
             C == Candidates(w, task[k].tier)
             c == [kind |-> "pick", ws |-> w, tier |-> task[k].tier, cands |-> C]
  <2>1. c.kind = "pick" /\ c.ws = w /\ c.cands = C
        /\ task' = [task EXCEPT ![k] = c] /\ retries' = retries
    BY <1>4 DEF RatingRead
  <2>2. \A d \in C : d.ws # w
    BY DEF Candidates
  <2> HIDE DEF c, C, w
  <2>. QED BY <2>1, <2>2, SlotFrame DEF TwoSockets
<1>5. ASSUME NEW k \in Task, NEW a, NEW b, NEW t, StartMatch(k, a, b, t), a # b, retries' \subseteq retries
      PROVE  TwoSockets'
  <2> DEFINE m == [kind |-> "deck", tier |-> t, creator |-> a, challenger |-> b,
                   creatorAddr |-> addr[a], challengerAddr |-> addr[b]]
  <2>1. m.kind = "deck" /\ m.creator = a /\ m.challenger = b /\ task' = [task EXCEPT ![k] = m]
    BY <1>5 DEF StartMatch
  <2> HIDE DEF m
  <2>. QED BY <1>5, <2>1, SlotFrame DEF TwoSockets
<1>6. ASSUME NEW k \in Task, NEW o \in Socket, PickOpponent(k, o) PROVE TwoSockets'
  <2>1. o # task[k].ws
    BY <1>6 DEF PickOpponent, TwoSockets
  <2>2. StartMatch(k, o, task[k].ws, task[k].tier) /\ retries' = retries
    BY <1>6 DEF PickOpponent
  <2>. QED BY <1>5, <2>1, <2>2
<1>7. ASSUME NEW k \in Task, DeckFailed(k) PROVE TwoSockets'
  <2>1. task[k].creator # task[k].challenger
    BY <1>7 DEF DeckFailed, TwoSockets
  <2>2. /\ task' = [task EXCEPT ![k] = Idle]
        /\ retries' = retries \cup {[n |-> deckFailures, a |-> task[k].creator,
                                     b |-> task[k].challenger, tier |-> task[k].tier]}
    BY <1>7 DEF DeckFailed
  <2>. QED BY <2>1, <2>2, SlotFrame DEF TwoSockets
<1>8. ASSUME NEW r \in retries, NEW k \in Task, RetryPair(r, k) PROVE TwoSockets'
  <2>1. r.a # r.b /\ retries' \subseteq retries
    BY <1>8 DEF TwoSockets, RetryPair
  <2>2. CASE StillPaired(r)
    BY <1>5, <1>8, <2>1, <2>2 DEF RetryPair
  <2>3. CASE ~StillPaired(r)
    BY <1>8, <2>1, <2>3 DEF RetryPair, TwoSockets
  <2>. QED BY <2>2, <2>3
<1>. QED
  BY <1>1, <1>2, <1>3, <1>4, <1>6, <1>7, <1>8
  DEF Next, HelloSome, LeaveSome, CloseSome, JoinSome, PickSome, RetrySome, TimeoutSome,
      DuelCreatedSome, Hello, LeaveQueue, Close, RatingFails, PickNobody, DeckReady,
      HandshakeTimeout, DuelCreated, vars

LEMMA NextFine ==
    ASSUME TypeOK, TwoSockets, NEW x \in Socket, Fine(x), [Next]_vars, x \notin harmed'
    PROVE  Fine(x)'
<1>0. /\ queue \in [Tier -> Seq(Socket)] /\ \A t \in Tier : queue[t] \in Seq(Socket)
      /\ addr \in [Socket -> MaybeAddress]
      /\ queuedTier \in [Socket -> Tier \cup {NoTier}] /\ NoTier \notin Tier /\ Nobody \notin Address
  BY MatchmakingAssumption DEF TypeOK
\* Its bucket and its flag are untouched.
<1>1. ASSUME UNCHANGED queueVars, addr[x] # Nobody => addr'[x] # Nobody PROVE Rests(x)
  BY <1>1 DEF Rests, queueVars, SameFor
<1>2. ASSUME NEW w \in Socket, NEW a \in Address, Hello(w, a) PROVE Fine(x)'
  <2>1. UNCHANGED <<queueVars, task>> /\ (addr[x] # Nobody => addr'[x] # Nobody)
    BY <1>0, <1>2 DEF Hello
  <2>. QED BY <1>1, <2>1, SameTaskFine
<1>3. ASSUME NEW w \in Socket, LeaveQueue(w) \/ Close(w) PROVE Fine(x)'
  <2>1. /\ queue' = QueueWithout(w) /\ queuedTier' = [queuedTier EXCEPT ![w] = NoTier]
        /\ UNCHANGED task /\ \A y \in Socket \ {w} : addr'[y] = addr[y]
    BY <1>0, <1>3 DEF LeaveQueue, Close, connVars
  <2>2. CASE x = w
    <3>1. queuedTier'[x] = NoTier /\ \A t \in Tier : x \notin ToSet(queue'[t])
      BY <1>0, <2>1, <2>2, QueueWithoutSound
    <3>2. \A j, k \in Task : OwnLookup(x, j)' /\ OwnLookup(x, k)' => j = k
      BY <2>1 DEF Fine, OwnLookup, InLookup
    <3>. QED BY <3>1, <3>2, OutFine
  <2>3. CASE x # w
    <3>1. Rests(x)
      BY <1>0, <2>1, <2>3, QueueWithoutSound DEF Rests
    <3>. QED BY <2>1, <3>1, SameTaskFine
  <2>. QED BY <2>2, <2>3
<1>4. ASSUME NEW w \in Socket, NEW t \in Tier, NEW k \in Task, JoinQueue(w, t, k) PROVE Fine(x)'
  <2> DEFINE c == [kind |-> "rating", ws |-> w, tier |-> t]
  <2>1. /\ queue' = QueueWithout(w) /\ queuedTier' = [queuedTier EXCEPT ![w] = t]
        /\ UNCHANGED addr /\ addr[w] # Nobody /\ task[k] = Idle
        /\ task' = [task EXCEPT ![k] = c]
        /\ harmed' = harmed \cup ({w} \cap LookingUp)
    BY <1>4 DEF JoinQueue, connVars
  <2>2. c.kind = "rating" /\ c.ws = w /\ c.tier = t /\ c # Idle
    BY LookupForms, MatchmakingAssumption
  <2> HIDE DEF c
  <2>3. \A j \in Task : task'[j] = IF j = k THEN c ELSE task[j]
    BY <2>1, SlotFrame
  <2>4. CASE x # w
    <3>1. Rests(x)
      BY <1>0, <2>1, <2>4, QueueWithoutSound DEF Rests
    <3>2. ~OwnLookup(x, k)
      BY <2>1 DEF OwnLookup, InLookup
    <3>. QED BY <2>1, <2>2, <2>4, <3>1, <3>2, OtherTaskFine
  <2>5. CASE x = w
    <3>1. \A j \in Task : ~OwnLookup(x, j)
      BY <2>1, <2>5 DEF LookingUp, OwnLookup
    <3>2. \A j \in Task : OwnLookup(x, j)' <=> j = k
      BY <2>2, <2>3, <2>5, <3>1 DEF OwnLookup, InLookup
    <3>3. \A u \in Tier : x \notin ToSet(queue'[u])
      BY <2>1, <2>5, QueueWithoutSound
    <3>4. queuedTier'[x] = t /\ task'[k].tier = t /\ addr'[x] # Nobody
      BY <1>0, <2>1, <2>2, <2>3, <2>5
    <3>5. \A u \in Tier : Once(queue'[u], x)
      BY <3>3 DEF Once, ToSet
    <3>. QED BY <3>2, <3>3, <3>4, <3>5 DEF Fine
  <2>. QED BY <2>4, <2>5
<1>5. ASSUME NEW k \in Task, RatingRead(k) PROVE Fine(x)'
  <2> DEFINE c == [kind |-> "pick", ws |-> task[k].ws, tier |-> task[k].tier,
                   cands |-> Candidates(task[k].ws, task[k].tier)]
  <2>1. InLookup(k) /\ task' = [task EXCEPT ![k] = c] /\ UNCHANGED <<addr, queueVars>>
    BY <1>5 DEF RatingRead, InLookup, connVars
  <2>2. task[k].ws \in Socket /\ task[k].tier \in Tier
    BY <2>1, SlotKinds, LookupForms DEF InLookup
  <2>3. c.kind = "pick" /\ c.ws = task[k].ws /\ c.tier = task[k].tier /\ c # Idle
    BY <2>2, CandidatesType, LookupForms, MatchmakingAssumption
  <2> HIDE DEF c
  <2>4. \A j \in Task : task'[j] = IF j = k THEN c ELSE task[j]
    BY <2>1, SlotFrame
  <2>5. \A j \in Task : /\ OwnLookup(x, j)' <=> OwnLookup(x, j)
                        /\ task'[j].tier = task[j].tier
    BY <2>1, <2>3, <2>4 DEF OwnLookup, InLookup
  <2>6. Rests(x)
    BY <1>1, <2>1
  <2>. QED BY <2>5, <2>6, RestsFine
<1>6. ASSUME NEW k \in Task, RatingFails(k) PROVE Fine(x)'
  <2>1. task' = [task EXCEPT ![k] = Idle] /\ x # task[k].ws /\ UNCHANGED <<addr, queueVars>>
    BY <1>6 DEF RatingFails, connVars
  <2>2. ~OwnLookup(x, k)
    BY <2>1 DEF OwnLookup
  <2>. QED BY <1>1, <2>1, <2>2, OtherTaskFine
<1>7. ASSUME NEW k \in Task, PickNobody(k) PROVE Fine(x)'
  <2> DEFINE w == task[k].ws
             t == task[k].tier
  <2>1. /\ InLookup(k) /\ task' = [task EXCEPT ![k] = Idle] /\ UNCHANGED <<addr, queuedTier>>
        /\ Enqueue(w, t)
    BY <1>7 DEF PickNobody, InLookup, connVars
  <2>2. w \in Socket /\ t \in Tier
    BY <2>1, SlotKinds, LookupForms DEF InLookup
  <2>3. CASE x # w
    <3>1. \A u \in Tier : SameFor(x, queue'[u], queue[u])
      <4>1. CASE queue' = queue
        BY <4>1 DEF SameFor
      <4>2. CASE queue' = [queue EXCEPT ![t] = Append(@, w)]
        <5>1. SameFor(x, Append(queue[t], w), queue[t])
          BY <1>0, <2>2, <2>3, AppendSound
        <5>. QED BY <1>0, <2>2, <4>2, <5>1 DEF SameFor
      <4>. QED BY <2>1, <4>1, <4>2 DEF Enqueue
    <3>2. Rests(x) /\ ~OwnLookup(x, k)
      BY <2>1, <2>3, <3>1 DEF Rests, OwnLookup
    <3>. QED BY <2>1, <3>2, OtherTaskFine
  <2>4. CASE x = w
    <3>1. OwnLookup(x, k)
      BY <2>1, <2>4 DEF OwnLookup
    <3>2. /\ \A u \in Tier : x \notin ToSet(queue[u])
          /\ queuedTier[x] \in {NoTier, t}
          /\ \A j \in Task : OwnLookup(x, j) => j = k
      BY <3>1 DEF Fine
    <3>3. \A j \in Task : ~OwnLookup(x, j)'
      <4>1. \A j \in Task : task'[j] = IF j = k THEN Idle ELSE task[j]
        BY <2>1, SlotFrame
      <4>. QED BY <3>2, <4>1 DEF OwnLookup, InLookup
    <3>4. CASE addr[w] # Nobody /\ queuedTier[w] = t
      <4>1. queue' = [queue EXCEPT ![t] = Append(@, w)]
        BY <2>1, <3>4 DEF Enqueue
      <4>2. Once(Append(queue[t], w), w) /\ w \in ToSet(Append(queue[t], w))
        BY <1>0, <2>2, <2>4, <3>2, AppendSound
      <4>3. \A u \in Tier : Once(queue'[u], x) /\ (x \in ToSet(queue'[u]) <=> u = t)
        <5>1. \A u \in Tier : u # t => queue'[u] = queue[u]
          BY <1>0, <4>1
        <5>2. queue'[t] = Append(queue[t], w)
          BY <1>0, <2>2, <4>1
        <5>3. \A u \in Tier : Once(queue[u], x)
          BY DEF Fine
        <5>. QED BY <2>4, <3>2, <4>2, <5>1, <5>2, <5>3
      <4>. QED BY <2>1, <2>2, <2>4, <3>3, <3>4, <4>3 DEF Fine
    <3>5. CASE ~(addr[w] # Nobody /\ queuedTier[w] = t)
      <4>1. queue' = queue
        BY <2>1, <3>5 DEF Enqueue
      <4>2. queuedTier[x] = NoTier
        BY <2>4, <3>2, <3>5 DEF Fine
      <4>. QED BY <2>1, <3>2, <3>3, <4>1, <4>2, OutFine
    <3>. QED BY <3>4, <3>5
  <2>. QED BY <2>3, <2>4
<1>8. ASSUME NEW k \in Task, DeckReady(k) PROVE Fine(x)'
  <2>1. /\ ~InLookup(k) /\ task' = [task EXCEPT ![k] = Idle] /\ UNCHANGED <<addr, queueVars>>
    BY <1>8 DEF DeckReady, InLookup, connVars
  <2>2. ~OwnLookup(x, k)
    BY <2>1 DEF OwnLookup
  <2>. QED BY <1>1, <2>1, <2>2, OtherTaskFine
\* Once matched, a socket is out of the search: it was in no bucket, or was taken
\* out of the one it was in.
<1>9. ASSUME NEW k \in Task, NEW a \in Socket, NEW b \in Socket, NEW t \in Tier,
             StartMatch(k, a, b, t), x \in {a, b},
             \A u \in Tier : x \notin ToSet(queue'[u]),
             \A j \in Task : OwnLookup(x, j) => j = k
      PROVE  Fine(x)'
  <2> DEFINE m == [kind |-> "deck", tier |-> t, creator |-> a, challenger |-> b,
                   creatorAddr |-> addr[a], challengerAddr |-> addr[b]]
  <2>1. m.kind = "deck" /\ task' = [task EXCEPT ![k] = m] /\ queuedTier'[x] = NoTier
    BY <1>9 DEF StartMatch
  <2> HIDE DEF m
  <2>2. \A j \in Task : ~OwnLookup(x, j)'
    <3>1. \A j \in Task : task'[j] = IF j = k THEN m ELSE task[j]
      BY <2>1, SlotFrame
    <3>. QED BY <1>9, <2>1, <3>1 DEF OwnLookup, InLookup
  <2>. QED BY <1>9, <2>1, <2>2, OutFine
\* Nobody else notices.
<1>10. ASSUME NEW k \in Task, NEW a \in Socket, NEW b \in Socket, NEW t \in Tier,
              StartMatch(k, a, b, t), x \notin {a, b}, ~OwnLookup(x, k), UNCHANGED addr,
              \A u \in Tier : SameFor(x, queue'[u], queue[u])
       PROVE  Fine(x)'
  <2> DEFINE m == [kind |-> "deck", tier |-> t, creator |-> a, challenger |-> b,
                   creatorAddr |-> addr[a], challengerAddr |-> addr[b]]
  <2>1. m.kind = "deck" /\ task' = [task EXCEPT ![k] = m] /\ queuedTier'[x] = queuedTier[x]
    BY <1>10 DEF StartMatch
  <2> HIDE DEF m
  <2>2. Rests(x)
    BY <1>10, <2>1 DEF Rests
  <2>. QED BY <1>10, <2>1, <2>2, OtherTaskFine
<1>11. ASSUME NEW k \in Task, NEW o \in Socket, PickOpponent(k, o) PROVE Fine(x)'
  <2> DEFINE w == task[k].ws
             t == task[k].tier
             q == SpliceOut(queue[t], o)
  <2>1. InLookup(k) /\ w \in Socket /\ t \in Tier /\ o # w /\ UNCHANGED addr
    <3>1. InLookup(k) /\ task[k].kind = "pick" /\ UNCHANGED addr
      BY <1>11 DEF PickOpponent, InLookup, connVars
    <3>2. o # w
      <4>1. \A c \in task[k].cands : c.ws # w
        BY <3>1 DEF TwoSockets, InLookup
      <4>. QED BY <1>11, <4>1 DEF PickOpponent
    <3>. QED BY <3>1, <3>2, SlotKinds, LookupForms DEF InLookup
  <2>2. /\ queue' = [queue EXCEPT ![t] = q] /\ StartMatch(k, o, w, t)
        /\ x \notin Displaced(queue[t], o)
    BY <1>11 DEF PickOpponent
  <2>3. /\ x # o => SameFor(x, q, queue[t])
        /\ o \in ToSet(queue[t]) => q = RemoveFirst(queue[t], o)
    BY <1>0, <2>1, <2>2, SpliceOutSound
  <2> HIDE DEF w, t, q
  <2>4. \A u \in Tier : queue'[u] = IF u = t THEN q ELSE queue[u]
    BY <1>0, <2>1, <2>2
  <2>5. x # o => \A u \in Tier : SameFor(x, queue'[u], queue[u])
    BY <2>3, <2>4 DEF SameFor
  <2>6. CASE x = w
    <3>1. OwnLookup(x, k)
      BY <2>1, <2>6 DEF OwnLookup, w
    <3>2. \A u \in Tier : x \notin ToSet(queue'[u])
      BY <2>1, <2>5, <2>6, <3>1 DEF Fine, SameFor
    <3>3. \A j \in Task : OwnLookup(x, j) => j = k
      BY <3>1 DEF Fine
    <3>. QED BY <1>9, <2>1, <2>2, <2>6, <3>2, <3>3
  <2>7. CASE x = o
    <3>1. o \in ToSet(queue[t])
      <4>1. Contains(queue[t], o)
        BY <2>2, <2>7 DEF Displaced
      <4>. QED BY <1>0, <2>1, <4>1, ContainsIsIn
    <3>2. queuedTier[x] = t /\ Once(queue[t], x) /\ \A u \in Tier : x \in ToSet(queue[u]) => u = t
      BY <2>1, <2>7, <3>1 DEF Fine
    <3>3. x \notin ToSet(q)
      BY <1>0, <2>1, <2>3, <2>7, <3>1, <3>2, RemoveFirstSound
    <3>4. \A u \in Tier : x \notin ToSet(queue'[u])
      BY <2>4, <3>2, <3>3
    <3>5. \A j \in Task : ~OwnLookup(x, j)
      BY <2>1, <2>7, <3>1 DEF Fine
    <3>. QED BY <1>9, <2>1, <2>2, <2>7, <3>4, <3>5
  <2>8. CASE x \notin {o, w}
    <3>1. ~OwnLookup(x, k)
      BY <2>8 DEF OwnLookup, w
    <3>. QED BY <1>10, <2>1, <2>2, <2>5, <2>8, <3>1
  <2>. QED BY <2>6, <2>7, <2>8
<1>12. ASSUME NEW k \in Task, DeckFailed(k) PROVE Fine(x)'
  <2> DEFINE a == task[k].creator
             b == task[k].challenger
             t == task[k].tier
             p == PushMissing(queue[t], a)
             q == PushMissing(p, b)
             back == {w \in {a, b} : MayRequeue(w)}
  <2>1. a \in Socket /\ b \in Socket /\ t \in Tier
    BY <1>12, SlotKinds, LookupForms DEF DeckFailed
  <2>2. /\ ~InLookup(k)
        /\ queue' = [queue EXCEPT ![t] = q]
        /\ queuedTier' = [w \in Socket |-> IF w \in back THEN t ELSE queuedTier[w]]
        /\ x \notin back \cap LookingUp
        /\ task' = [task EXCEPT ![k] = Idle] /\ UNCHANGED addr
    BY <1>12 DEF DeckFailed, InLookup, connVars
  <2>3. p \in Seq(Socket)
    BY <1>0, <2>1, PushMissingSound
  <2>4. ASSUME x \notin back PROVE SameFor(x, q, queue[t])
    <3>1. SameFor(x, p, queue[t])
      BY <1>0, <2>1, <2>4, PushMissingSound
    <3>2. SameFor(x, q, p)
      BY <2>1, <2>3, <2>4, PushMissingSound
    <3>. QED BY <3>1, <3>2 DEF SameFor
  <2>5. ASSUME x \in back PROVE x \in ToSet(q) /\ (Once(queue[t], x) => Once(q, x))
    <3>1. (x = a => x \in ToSet(p)) /\ (Once(queue[t], x) => Once(p, x))
      BY <1>0, <2>1, <2>5, PushMissingSound DEF SameFor
    <3>2. (x = b \/ x \in ToSet(p) => x \in ToSet(q)) /\ (Once(p, x) => Once(q, x))
      BY <2>1, <2>3, <2>5, PushMissingSound DEF SameFor
    <3>. QED BY <2>5, <3>1, <3>2
  <2>6. x \in back => addr[x] # Nobody /\ queuedTier[x] = NoTier
    BY DEF MayRequeue
  <2>7. ~OwnLookup(x, k)
    BY <2>2 DEF OwnLookup
  <2> HIDE DEF a, b, t, p, q, back
  <2>8. \A u \in Tier : queue'[u] = IF u = t THEN q ELSE queue[u]
    BY <1>0, <2>1, <2>2
  <2>9. CASE x \notin back
    <3>1. Rests(x)
      BY <2>2, <2>4, <2>8, <2>9 DEF Rests, SameFor
    <3>. QED BY <2>2, <2>7, <3>1, OtherTaskFine
  <2>10. CASE x \in back
    <3>1. \A j \in Task : ~OwnLookup(x, j)
      BY <2>2, <2>10 DEF LookingUp, OwnLookup
    <3>2. \A j \in Task : ~OwnLookup(x, j)'
      BY <2>2, <3>1, SlotFrame DEF OwnLookup, InLookup
    <3>3. \A u \in Tier : Once(queue[u], x) /\ x \notin ToSet(queue[u])
      BY <1>0, <2>6, <2>10 DEF Fine
    <3>4. \A u \in Tier : Once(queue'[u], x) /\ (x \in ToSet(queue'[u]) <=> u = t)
      BY <2>1, <2>5, <2>8, <2>10, <3>3
    <3>5. queuedTier'[x] = t /\ addr'[x] # Nobody
      BY <2>2, <2>6, <2>10
    <3>. QED BY <2>1, <3>2, <3>4, <3>5 DEF Fine
  <2>. QED BY <2>9, <2>10
<1>13. ASSUME NEW r \in retries, NEW k \in Task, RetryPair(r, k) PROVE Fine(x)'
  <2> DEFINE a == r.a
             b == r.b
             t == r.tier
             p == SpliceOut(queue[t], a)
             q == SpliceOut(p, b)
  <2>1. a \in Socket /\ b \in Socket /\ t \in Tier /\ a # b /\ UNCHANGED addr /\ ~OwnLookup(x, k)
    BY <1>13 DEF TypeOK, TwoSockets, RetryPair, connVars, OwnLookup, InLookup
  <2>2. CASE ~StillPaired(r)
    <3>1. UNCHANGED <<queueVars, task>>
      BY <1>13, <2>2 DEF RetryPair
    <3>. QED BY <1>1, <2>1, <3>1, SameTaskFine
  <2>3. CASE StillPaired(r)
    <3>1. queue' = [queue EXCEPT ![t] = q] /\ StartMatch(k, a, b, t)
      BY <1>13, <2>3 DEF RetryPair
    <3>2. a \in ToSet(queue[t]) /\ b \in ToSet(queue[t]) /\ queuedTier[a] = t /\ queuedTier[b] = t
      BY <1>0, <2>1, <2>3, ContainsIsIn DEF StillPaired
    <3>3. p = RemoveFirst(queue[t], a) /\ p \in Seq(Socket)
      BY <1>0, <2>1, <3>2, SpliceOutSound
    <3>4. /\ Once(queue[t], a) => a \notin ToSet(p)
          /\ \A y : y # a => SameFor(y, p, queue[t])
      BY <1>0, <2>1, <3>3, RemoveFirstSound
    <3>5. b \in ToSet(p)
      BY <2>1, <3>2, <3>4 DEF SameFor
    <3>6. q = RemoveFirst(p, b)
      BY <3>3, <3>5, SpliceOutSound
    <3>7. /\ Once(p, b) => b \notin ToSet(q)
          /\ \A y : y # b => SameFor(y, q, p)
      BY <3>3, <3>6, RemoveFirstSound
    <3> HIDE DEF a, b, t, p, q
    <3>8. \A u \in Tier : queue'[u] = IF u = t THEN q ELSE queue[u]
      BY <1>0, <2>1, <3>1
    <3>9. CASE x \in {a, b}
      <4>1. x \in ToSet(queue[t]) /\ queuedTier[x] = t
        BY <3>2, <3>9
      <4>2. Once(queue[t], x) /\ \A u \in Tier : x \in ToSet(queue[u]) => u = t
        BY <2>1, <4>1 DEF Fine
      <4>3. x \notin ToSet(q)
        BY <2>1, <3>4, <3>7, <3>9, <4>2 DEF SameFor
      <4>4. \A u \in Tier : x \notin ToSet(queue'[u])
        BY <3>8, <4>2, <4>3
      <4>5. \A j \in Task : ~OwnLookup(x, j)
        BY <2>1, <4>1 DEF Fine
      <4>. QED BY <1>9, <2>1, <3>1, <3>9, <4>4, <4>5
    <3>10. CASE x \notin {a, b}
      <4>1. SameFor(x, q, queue[t])
        BY <3>4, <3>7, <3>10 DEF SameFor
      <4>2. \A u \in Tier : SameFor(x, queue'[u], queue[u])
        BY <3>8, <4>1 DEF SameFor
      <4>. QED BY <1>10, <2>1, <3>1, <3>10, <4>2
    <3>. QED BY <3>9, <3>10
  <2>. QED BY <2>2, <2>3
<1>14. ASSUME UNCHANGED <<addr, queueVars, task>> PROVE Fine(x)'
  BY <1>1, <1>14, SameTaskFine
<1>15. ASSUME NEW y \in timers, HandshakeTimeout(y) PROVE Fine(x)'
  BY <1>14, <1>15 DEF HandshakeTimeout, connVars
<1>16. ASSUME NEW a \in Address, DuelCreated(a) PROVE Fine(x)'
  BY <1>14, <1>16 DEF DuelCreated, connVars
<1>17. CASE UNCHANGED vars
  BY <1>14, <1>17 DEF vars, connVars
<1>. QED
  BY <1>2, <1>3, <1>4, <1>5, <1>6, <1>7, <1>8, <1>11, <1>12, <1>13, <1>15, <1>16, <1>17
  DEF Next, HelloSome, LeaveSome, CloseSome, JoinSome, PickSome, RetrySome, TimeoutSome,
      DuelCreatedSome

LEMMA HarmLasts == [Next]_vars => harmed \subseteq harmed'
BY DEF Next, HelloSome, LeaveSome, CloseSome, JoinSome, PickSome, RetrySome, TimeoutSome,
       DuelCreatedSome, Hello, LeaveQueue, Close, JoinQueue, RatingRead, RatingFails,
       PickOpponent, PickNobody, DeckReady, DeckFailed, RetryPair, HandshakeTimeout,
       DuelCreated, vars

\* Whatever interleaves with the awaits of joinQueue, matchPair and the retries,
\* the buckets and the sockets' flags agree for every socket but those that one of
\* four named races has harmed: a socket that neither joined over its own lookup
\* nor was picked from a stale snapshot, spliced out for another or let down by a
\* failed read is in its tier's bucket exactly once, or in its own lookup.
THEOREM MatchQueueSound == Spec => []QueueSound
<1>1. QInv /\ [Next]_vars => QInv'
  <2> SUFFICES ASSUME QInv, [Next]_vars PROVE QInv'
    OBVIOUS
  <2>1. TypeOK' /\ TwoSockets'
    BY NextTypeOK, NextTwoSockets DEF QInv
  <2>2. ASSUME NEW w \in Socket \ harmed' PROVE Fine(w)'
    <3>1. w \notin harmed
      BY HarmLasts
    <3>. QED BY <3>1, NextFine DEF QInv
  <2>. QED BY <2>1, <2>2 DEF QInv
<1>. QED BY InitQInv, <1>1, FineIsSound, PTL DEF Spec
=============================================================================
