----------------------------- MODULE ChatProofs -----------------------------
(***************************************************************************)
(* Every property of Chat but ReachesAll, for any number of clients,       *)
(* messages and calls in flight and any limits.                            *)
(*                                                                         *)
(* As long as no call is overtaken, the answers in flight are executed     *)
(* from the front and each holds nothing older than what it may add to a   *)
(* page: that is Fifo, and why a history never takes a newer message away. *)
(***************************************************************************)
EXTENDS Chat, SequenceTheorems, TLAPS

First(i) == calls[i].got.first
Newest(i) == calls[i].got.last
IsInsert(i) == calls[i].kind = "insert"

\* What pages may show when the answer i reaches them.
Before(i) == IF IsInsert(i) THEN Newest(i) - 1 ELSE Newest(i)

\* An answer is a range of stored messages; a history starts no later than one
\* read now would.
AnswersOK ==
    \A i \in DOMAIN calls : Executed(i) =>
        /\ calls[i].got \in Answer
        /\ First(i) <= Newest(i) + 1 /\ Newest(i) <= stored
        /\ IsInsert(i) => Newest(i) >= 1
        /\ First(i) <= Later(oldest, stored - HistoryLimit + 1) \/ IsInsert(i)

Retained == oldest = 1 \/ oldest <= stored - RetainCount + 1

Increasing ==
    \A c \in Client : \A j, k \in DOMAIN shown[c] : j < k => shown[c][j] < shown[c][k]

Fifo ==
    /\ Increasing
    /\ \A i, j \in DOMAIN calls : i < j /\ Executed(j) => Executed(i) /\ Newest(i) <= Before(j)
    /\ \A i \in DOMAIN calls : Executed(i) =>
          \A c \in Client : \A k \in DOMAIN shown[c] : shown[c][k] <= Before(i)

InOrder == Without({"overtaken"}) => Fifo

IInv == TypeOK /\ AnswersOK /\ Retained /\ BacklogServed /\ NeverDoubled /\ InOrder

-----------------------------------------------------------------------------
(* Sequences                                                               *)

LEMMA RemoveAtProperties ==
    ASSUME NEW S, NEW q \in Seq(S), NEW i \in 1..Len(q)
    PROVE  /\ RemoveAt(q, i) \in Seq(S)
           /\ Len(RemoveAt(q, i)) = Len(q) - 1
           /\ \A j \in 1..(Len(q) - 1) :
                 RemoveAt(q, i)[j] = IF j < i THEN q[j] ELSE q[j + 1]
<1> DEFINE a == SubSeq(q, 1, i - 1)
           b == SubSeq(q, i + 1, Len(q))
<1>1. Len(q) \in Nat /\ i \in Nat /\ i >= 1 /\ i <= Len(q)
  OBVIOUS
<1>2. \A j \in 1..Len(q) : q[j] \in S
  OBVIOUS
<1>3. /\ a \in Seq(S) /\ Len(a) = i - 1
      /\ \A j \in 1..(i - 1) : a[j] = q[j]
  <2>1. \A j \in 1..(i - 1) : q[j] \in S
    BY <1>1, <1>2
  <2>2. /\ a \in Seq(S) /\ Len(a) = IF 1 <= i - 1 THEN i - 1 - 1 + 1 ELSE 0
        /\ \A j \in 1..(i - 1 - 1 + 1) : a[j] = q[1 + j - 1]
    BY <1>1, <2>1, SubSeqProperties
  <2>. QED BY <1>1, <2>2
<1>4. /\ b \in Seq(S) /\ Len(b) = Len(q) - i
      /\ \A j \in 1..(Len(q) - i) : b[j] = q[i + j]
  <2>1. \A j \in (i + 1)..Len(q) : q[j] \in S
    BY <1>1, <1>2
  <2>2. /\ b \in Seq(S) /\ Len(b) = IF i + 1 <= Len(q) THEN Len(q) - (i + 1) + 1 ELSE 0
        /\ \A j \in 1..(Len(q) - (i + 1) + 1) : b[j] = q[i + 1 + j - 1]
    BY <1>1, <2>1, SubSeqProperties
  <2>3. Len(b) = Len(q) - i
    BY <1>1, <2>2
  <2>4. ASSUME NEW j \in 1..(Len(q) - i) PROVE b[j] = q[i + j]
    <3>1. j \in 1..(Len(q) - (i + 1) + 1) /\ i + 1 + j - 1 = i + j
      BY <1>1
    <3>. QED BY <2>2, <3>1
  <2>. QED BY <2>2, <2>3, <2>4
<1> HIDE DEF a, b
<1>5. /\ a \o b \in Seq(S) /\ Len(a \o b) = Len(a) + Len(b)
      /\ \A j \in 1..(Len(a) + Len(b)) :
            (a \o b)[j] = IF j <= Len(a) THEN a[j] ELSE b[j - Len(a)]
  BY <1>3, <1>4, ConcatProperties
<1>6. RemoveAt(q, i) = a \o b
  BY DEF RemoveAt, a, b
<1>7. Len(a) + Len(b) = Len(q) - 1
  BY <1>1, <1>3, <1>4
<1>8. ASSUME NEW j \in 1..(Len(q) - 1)
      PROVE  (a \o b)[j] = IF j < i THEN q[j] ELSE q[j + 1]
  <2>1. (a \o b)[j] = IF j <= i - 1 THEN a[j] ELSE b[j - (i - 1)]
    BY <1>3, <1>5, <1>7
  <2>2. CASE j < i
    BY <1>1, <1>3, <2>1, <2>2
  <2>3. CASE ~(j < i)
    <3>1. j - (i - 1) \in 1..(Len(q) - i) /\ i + (j - (i - 1)) = j + 1 /\ ~(j <= i - 1)
      BY <1>1, <2>3
    <3>. QED BY <1>4, <2>1, <2>3, <3>1
  <2>. QED BY <2>2, <2>3
<1>. QED BY <1>5, <1>6, <1>7, <1>8

LEMMA AnsweredProperties ==
    ASSUME TypeOK, NEW i \in DOMAIN calls, calls' = RemoveAt(calls, i)
    PROVE  /\ calls' \in Seq(Call)
           /\ \A j \in DOMAIN calls' : \E k \in DOMAIN calls :
                 /\ calls'[j] = calls[k]
                 /\ k = IF j < i THEN j ELSE j + 1
                 /\ j \in Nat /\ j >= 1
<1>1. calls \in Seq(Call) /\ i \in 1..Len(calls)
  BY DEF TypeOK
<1>2. /\ calls' \in Seq(Call) /\ Len(calls') = Len(calls) - 1
      /\ \A j \in 1..(Len(calls) - 1) :
            calls'[j] = IF j < i THEN calls[j] ELSE calls[j + 1]
  BY <1>1, RemoveAtProperties
<1>3. DOMAIN calls' = 1..(Len(calls) - 1) /\ DOMAIN calls = 1..Len(calls)
  BY <1>1, <1>2
<1>. QED BY <1>1, <1>2, <1>3

LEMMA CalledProperties ==
    ASSUME TypeOK, NEW kind \in {"insert", "history"}, NEW to \in Client \cup {Nobody},
           Calls(kind, to)
    PROVE  /\ calls' \in Seq(Call)
           /\ DOMAIN calls' = 1..(Len(calls) + 1)
           /\ DOMAIN calls = 1..Len(calls) /\ Len(calls) \in Nat
           /\ \A j \in DOMAIN calls : calls'[j] = calls[j]
           /\ calls'[Len(calls) + 1] = [kind |-> kind, to |-> to, got |-> Pending]
<1>1. calls \in Seq(Call) /\ [kind |-> kind, to |-> to, got |-> Pending] \in Call
  BY DEF TypeOK, Call
<1>. QED BY <1>1, AppendProperties DEF Calls

\* Numbers and ranges, for the provers.
LEMMA Numbers ==
    ASSUME IInv
    PROVE  /\ stored \in Nat /\ oldest \in Nat /\ oldest >= 1 /\ oldest <= stored + 1
           /\ \A i \in DOMAIN calls : calls[i] \in Call
           /\ \A i \in DOMAIN calls : Executed(i) =>
                 /\ First(i) \in Nat /\ First(i) >= 1 /\ Newest(i) \in Nat /\ Before(i) \in Int
                 /\ First(i) <= Newest(i) + 1 /\ Newest(i) <= stored
                 /\ Before(i) <= Newest(i)
           /\ \A c \in Client : /\ shown[c] \in Seq(1..stored)
                                /\ \A k \in DOMAIN shown[c] : shown[c][k] \in 1..stored
<1>1. stored \in Nat /\ oldest \in Nat /\ oldest >= 1 /\ oldest <= stored + 1
  BY ChatAssumption DEF IInv, TypeOK
<1>2. \A i \in DOMAIN calls : calls[i] \in Call
  BY DEF IInv, TypeOK
<1>3. ASSUME NEW i \in DOMAIN calls, Executed(i)
      PROVE  /\ First(i) \in Nat /\ First(i) >= 1 /\ Newest(i) \in Nat /\ Before(i) \in Int
             /\ First(i) <= Newest(i) + 1 /\ Newest(i) <= stored
             /\ Before(i) <= Newest(i)
  <2>1. calls[i].got \in Answer /\ First(i) <= Newest(i) + 1 /\ Newest(i) <= stored
    BY <1>3 DEF IInv, AnswersOK
  <2>2. First(i) \in Nat /\ First(i) >= 1 /\ Newest(i) \in Nat
    BY <2>1, ChatAssumption DEF Answer, First, Newest
  <2>. QED BY <2>1, <2>2 DEF Before
<1>4. ASSUME NEW c \in Client
      PROVE  shown[c] \in Seq(1..stored) /\ \A k \in DOMAIN shown[c] : shown[c][k] \in 1..stored
  <2>1. shown[c] \in Seq(1..stored)
    BY DEF IInv, TypeOK
  <2>2. shown[c] \in [1..Len(shown[c]) -> 1..stored]
    BY <2>1, LenProperties
  <2>. QED BY <2>1, <2>2
<1>. QED BY <1>1, <1>2, <1>3, <1>4

LEMMA PendingIsNoAnswer == Pending \notin Answer
<1>. SUFFICES ASSUME Pending \in Answer PROVE FALSE
  OBVIOUS
<1>1. Pending.first \in Nat \ {0} /\ Pending.first = 0
  BY DEF Answer, Pending
<1>. QED BY <1>1

LEMMA SequenceOfLength ==
    ASSUME NEW S, NEW n \in Nat, NEW q \in [1..n -> S]
    PROVE  q \in Seq(S) /\ Len(q) = n
OBVIOUS

\* A larger range of messages is still a page.
LEMMA LargerPage ==
    ASSUME NEW m \in Nat, NEW n \in Nat, m <= n, NEW q \in Seq(1..m) PROVE q \in Seq(1..n)
<1>1. Len(q) \in Nat /\ q \in [1..Len(q) -> 1..m]
  BY LenProperties
<1>2. q \in [1..Len(q) -> 1..n]
  BY <1>1
<1>. QED BY <1>1, <1>2, SequenceOfLength


-----------------------------------------------------------------------------
LEMMA InitIInv == Init => IInv
<1>. SUFFICES ASSUME Init PROVE IInv
  OBVIOUS
<1>1. TypeOK
  BY ChatAssumption DEF Init, TypeOK
<1>2. DOMAIN calls = {} /\ \A c \in Client : DOMAIN shown[c] = {}
  BY DEF Init
<1>. QED BY <1>1, <1>2
        DEF Init, IInv, AnswersOK, Retained, BacklogServed, NeverDoubled, InOrder, Fifo, Increasing

\* Only the number of calls that have an answer matters.
LEMMA SameAnswers ==
    ASSUME IInv, UNCHANGED <<stored, oldest, mishaps, shown>>,
           DOMAIN calls \subseteq DOMAIN calls',
           \A i \in DOMAIN calls : calls'[i].kind = calls[i].kind /\ calls'[i].got = calls[i].got,
           \A i \in DOMAIN calls' : i \notin DOMAIN calls => calls'[i].got = Pending,
           \A i \in DOMAIN calls' : \A j \in DOMAIN calls : i \notin DOMAIN calls => j < i /\ ~(i < j)
    PROVE  (AnswersOK /\ Retained /\ BacklogServed /\ NeverDoubled /\ InOrder)'
<1>1. \A i \in DOMAIN calls' : Executed(i)' => i \in DOMAIN calls /\ Executed(i)
  BY DEF Executed
<1>2. \A i \in DOMAIN calls :
          /\ Executed(i)' = Executed(i) /\ First(i)' = First(i) /\ Newest(i)' = Newest(i)
          /\ IsInsert(i)' = IsInsert(i) /\ Before(i)' = Before(i)
  BY DEF Executed, First, Newest, IsInsert, Before
<1>3. AnswersOK'
  BY <1>1, <1>2 DEF IInv, AnswersOK
<1>4. Retained' /\ NeverDoubled'
  BY DEF IInv, Retained, NeverDoubled
<1>5. BacklogServed'
  BY <1>1, <1>2 DEF IInv, BacklogServed
<1>6. Fifo => Fifo'
  <2>. SUFFICES ASSUME Fifo PROVE Fifo'
    OBVIOUS
  <2>1. Increasing'
    BY DEF Fifo, Increasing
  <2>2. \A i, j \in DOMAIN calls' : i < j /\ Executed(j)' =>
            Executed(i)' /\ Newest(i)' <= Before(j)'
    BY <1>1, <1>2 DEF Fifo
  <2>3. \A i \in DOMAIN calls' : Executed(i)' =>
            \A c \in Client : \A k \in DOMAIN shown[c]' : shown[c][k]' <= Before(i)'
    BY <1>1, <1>2 DEF Fifo
  <2>. QED BY <2>1, <2>2, <2>3 DEF Fifo
<1>7. InOrder'
  BY <1>6 DEF IInv, InOrder, Without
<1>. QED BY <1>3, <1>4, <1>5, <1>7

-----------------------------------------------------------------------------
(* Clients                                                                 *)

LEMMA AskingStep ==
    ASSUME IInv, NEW kind \in {"insert", "history"}, NEW to \in Client \cup {Nobody},
           Calls(kind, to), UNCHANGED <<stored, oldest, shown, mishaps, connected>>,
           named' \subseteq connected
    PROVE  IInv'
<1>0. PICK n \in Nat : n = Len(calls) + 1
  BY CalledProperties DEF IInv
<1>1. /\ calls' \in Seq(Call) /\ DOMAIN calls' = 1..n /\ DOMAIN calls = 1..(n - 1)
      /\ \A j \in DOMAIN calls : calls'[j] = calls[j]
      /\ calls'[n] = [kind |-> kind, to |-> to, got |-> Pending]
  BY <1>0, CalledProperties DEF IInv
<1>2. \A i \in DOMAIN calls' : i \notin DOMAIN calls => i = n
  BY <1>1
<1>3. calls'[n].got = Pending
  BY <1>1
<1>4. (AnswersOK /\ Retained /\ BacklogServed /\ NeverDoubled /\ InOrder)'
  <2>1. DOMAIN calls \subseteq DOMAIN calls'
    BY <1>1
  <2>2. \A i \in DOMAIN calls : calls'[i].kind = calls[i].kind /\ calls'[i].got = calls[i].got
    BY <1>1
  <2>3. \A i \in DOMAIN calls' : i \notin DOMAIN calls => calls'[i].got = Pending
    BY <1>2, <1>3
  <2>4. \A i \in DOMAIN calls' : \A j \in DOMAIN calls : i \notin DOMAIN calls => j < i /\ ~(i < j)
    BY <1>1, <1>2
  <2>. QED BY <2>1, <2>2, <2>3, <2>4, SameAnswers
<1>5. \A i \in DOMAIN calls' : Executed(i)' => i \in DOMAIN calls /\ Executed(i)
  BY <1>1, <1>2, <1>3 DEF Executed
<1>6. TypeOK'
  <2>1. \A i \in DOMAIN calls' : Executed(i)' => calls'[i].got.last \in 0..stored
    BY <1>1, <1>5 DEF IInv, TypeOK
  <2>. QED BY <1>1, <2>1 DEF IInv, TypeOK
<1>. QED BY <1>4, <1>6 DEF IInv

LEMMA ConnectStep == ASSUME IInv, NEW c \in Client, Connect(c) PROVE IInv'
<1>1. /\ UNCHANGED <<stored, oldest, calls, named, shown, mishaps>>
      /\ connected' = connected \cup {c}
  BY DEF Connect, tableVars
<1>2. TypeOK'
  BY <1>1 DEF IInv, TypeOK, Executed
<1>3. DOMAIN calls \subseteq DOMAIN calls'
  BY <1>1
<1>4. (AnswersOK /\ Retained /\ BacklogServed /\ NeverDoubled /\ InOrder)'
  BY <1>1, <1>3, SameAnswers
<1>. QED BY <1>2, <1>4 DEF IInv

LEMMA DisconnectStep == ASSUME IInv, NEW c \in Client, Disconnect(c) PROVE IInv'
<1>1. /\ UNCHANGED <<stored, oldest, mishaps>>
      /\ connected' = connected \ {c} /\ named' = named \ {c}
      /\ shown' \in {shown, [shown EXCEPT ![c] = <<>>]}
      /\ calls' = [i \in DOMAIN calls |->
                    IF calls[i].to = c THEN [calls[i] EXCEPT !.to = Nobody] ELSE calls[i]]
  BY DEF Disconnect, Unregister, tableVars
<1>2. /\ DOMAIN calls' = DOMAIN calls
      /\ \A i \in DOMAIN calls :
            /\ calls'[i] \in Call
            /\ calls'[i].kind = calls[i].kind /\ calls'[i].got = calls[i].got
  <2>1. \A i \in DOMAIN calls : calls[i] \in Call
    BY Numbers
  <2>2. \A i \in DOMAIN calls : [calls[i] EXCEPT !.to = Nobody] \in Call
                                /\ [calls[i] EXCEPT !.to = Nobody].kind = calls[i].kind
                                /\ [calls[i] EXCEPT !.to = Nobody].got = calls[i].got
    BY <2>1 DEF Call
  <2>. QED BY <1>1, <2>1, <2>2
<1>3. calls' \in Seq(Call)
  <2>1. Len(calls) \in Nat /\ DOMAIN calls = 1..Len(calls)
    BY DEF IInv, TypeOK
  <2>2. calls' \in [1..Len(calls) -> Call]
    BY <1>1, <1>2, <2>1
  <2>. QED BY <2>1, <2>2, SequenceOfLength
<1>4. \A d \in Client : shown'[d] = shown[d] \/ shown'[d] = <<>>
  BY <1>1 DEF IInv, TypeOK
<1>5. shown' \in [Client -> Seq(1..stored)]
  <2>1. <<>> \in Seq(1..stored) /\ shown \in [Client -> Seq(1..stored)]
    BY DEF IInv, TypeOK
  <2>. QED BY <1>1, <2>1
<1>6. TypeOK'
  <2>1. \A i \in DOMAIN calls' : Executed(i)' => calls'[i].got.last \in 0..stored
    BY <1>2 DEF IInv, TypeOK, Executed
  <2>. QED BY <1>1, <1>3, <1>5, <2>1 DEF IInv, TypeOK
<1>7. \A i \in DOMAIN calls :
          /\ Executed(i)' = Executed(i) /\ First(i)' = First(i) /\ Newest(i)' = Newest(i)
          /\ IsInsert(i)' = IsInsert(i) /\ Before(i)' = Before(i)
  BY <1>2 DEF Executed, First, Newest, IsInsert, Before
<1>8. AnswersOK' /\ Retained' /\ BacklogServed'
  BY <1>1, <1>2, <1>7 DEF IInv, AnswersOK, Retained, BacklogServed
<1>9. NeverDoubled'
  BY <1>4 DEF IInv, NeverDoubled
<1>10. Fifo => Fifo'
  <2>. SUFFICES ASSUME Fifo PROVE Fifo'
    OBVIOUS
  <2>1. Increasing'
    BY <1>4 DEF Fifo, Increasing
  <2>2. \A i, j \in DOMAIN calls' : i < j /\ Executed(j)' =>
            Executed(i)' /\ Newest(i)' <= Before(j)'
    BY <1>2, <1>7 DEF Fifo
  <2>3. \A i \in DOMAIN calls' : Executed(i)' =>
            \A d \in Client : \A k \in DOMAIN shown'[d] : shown'[d][k] <= Before(i)'
    BY <1>2, <1>4, <1>7 DEF Fifo
  <2>. QED BY <2>1, <2>2, <2>3 DEF Fifo
<1>. QED BY <1>1, <1>6, <1>8, <1>9, <1>10 DEF IInv, InOrder, Without

-----------------------------------------------------------------------------
(* The table                                                               *)

LEMMA LaterBound ==
    ASSUME NEW m \in Int, NEW n \in Int
    PROVE  Later(m, n) \in Int /\ Later(m, n) >= m /\ Later(m, n) >= n
           /\ (Later(m, n) = m \/ Later(m, n) = n)
BY DEF Later

LEMMA PruneStep == ASSUME IInv, Prune PROVE IInv'
<1>1. /\ oldest' = KeptFrom
      /\ UNCHANGED <<stored, calls, connected, named, shown, mishaps>>
  BY DEF Prune
<1>2. stored \in Nat /\ oldest \in Nat /\ oldest >= 1 /\ oldest <= stored + 1
  BY Numbers
<1>3. /\ oldest' \in Nat /\ oldest' >= oldest /\ oldest' <= stored + 1
      /\ Retained'
  <2>1. oldest' = Later(oldest, stored - RetainCount + 1)
    BY <1>1 DEF KeptFrom
  <2>2. /\ oldest' >= oldest
        /\ oldest' = oldest \/ oldest' = stored - RetainCount + 1
    BY <1>2, <2>1, LaterBound, ChatAssumption
  <2>. QED BY <1>1, <1>2, <2>2, ChatAssumption DEF IInv, Retained
<1>4. TypeOK'
  BY <1>1, <1>2, <1>3 DEF IInv, TypeOK, Executed
<1>5. \A i \in DOMAIN calls :
          /\ Executed(i)' = Executed(i) /\ First(i)' = First(i) /\ Newest(i)' = Newest(i)
          /\ IsInsert(i)' = IsInsert(i) /\ Before(i)' = Before(i)
  BY <1>1 DEF Executed, First, Newest, IsInsert, Before
<1>6. AnswersOK'
  <2>1. Later(oldest, stored - HistoryLimit + 1) <= Later(oldest', stored - HistoryLimit + 1)
    BY <1>2, <1>3, ChatAssumption DEF Later
  <2>2. /\ Later(oldest, stored - HistoryLimit + 1) \in Int
        /\ Later(oldest', stored - HistoryLimit + 1) \in Int
    BY <1>2, <1>3, ChatAssumption DEF Later
  <2>3. \A i \in DOMAIN calls : Executed(i) => First(i) \in Nat
    BY Numbers
  <2>. QED BY <1>1, <1>5, <2>1, <2>2, <2>3 DEF IInv, AnswersOK
<1>7. BacklogServed' /\ NeverDoubled'
  BY <1>1, <1>5 DEF IInv, BacklogServed, NeverDoubled, Executed
<1>8. InOrder'
  BY <1>1, <1>5 DEF IInv, InOrder, Without, Fifo, Increasing
<1>. QED BY <1>3, <1>4, <1>6, <1>7, <1>8 DEF IInv

\* What executing a call does, of either kind.
LEMMA ExecutesProperties ==
    ASSUME IInv, NEW i \in DOMAIN calls, Executes(i)
    PROVE  /\ calls' \in Seq(Call) /\ DOMAIN calls' = DOMAIN calls
           /\ \A j \in DOMAIN calls : j # i => calls'[j] = calls[j]
           /\ calls'[i].kind = calls[i].kind
           /\ calls'[i].got = IF IsInsert(i) THEN [first |-> stored + 1, last |-> stored + 1]
                                             ELSE Recent
           /\ stored' = IF IsInsert(i) THEN stored + 1 ELSE stored
           /\ calls'[i].got \in Answer
           /\ UNCHANGED <<oldest, connected, named, shown>>
<1> DEFINE got == IF IsInsert(i) THEN [first |-> stored + 1, last |-> stored + 1] ELSE Recent
<1>1. stored \in Nat /\ oldest \in Nat /\ oldest >= 1 /\ calls[i] \in Call
  BY Numbers
<1>2. got \in Answer
  <2>1. Later(oldest, stored - HistoryLimit + 1) \in Nat \ {0}
    BY <1>1, LaterBound, ChatAssumption
  <2>. QED BY <1>1, <2>1 DEF Answer, Recent
<1>3. calls' = [calls EXCEPT ![i].got = got] /\ stored' = IF IsInsert(i) THEN stored + 1 ELSE stored
  BY DEF Executes, IsInsert
<1>4. UNCHANGED <<oldest, connected, named, shown>>
  BY DEF Executes
<1> HIDE DEF got
<1>5. calls' = [calls EXCEPT ![i] = [calls[i] EXCEPT !.got = got]]
  BY <1>3
<1>6. /\ [calls[i] EXCEPT !.got = got] \in Call
      /\ [calls[i] EXCEPT !.got = got].kind = calls[i].kind
      /\ [calls[i] EXCEPT !.got = got].got = got
  BY <1>1, <1>2 DEF Call
<1>7. calls \in Seq(Call) /\ i \in 1..Len(calls)
  BY DEF IInv, TypeOK
<1>8. /\ calls' \in Seq(Call) /\ DOMAIN calls' = DOMAIN calls
      /\ \A j \in DOMAIN calls : j # i => calls'[j] = calls[j]
      /\ calls'[i] = [calls[i] EXCEPT !.got = got]
  BY <1>5, <1>6, <1>7, ExceptSeq
<1>9. calls'[i].kind = calls[i].kind /\ calls'[i].got = got
  BY <1>6, <1>8
<1>. QED BY <1>2, <1>3, <1>4, <1>8, <1>9 DEF got

LEMMA ExecutesStep == ASSUME IInv, NEW i \in DOMAIN calls, Executes(i) PROVE IInv'
<1>1. /\ stored \in Nat /\ oldest \in Nat /\ oldest >= 1 /\ oldest <= stored + 1
      /\ HistoryLimit \in Nat /\ HistoryLimit >= 1 /\ RetainCount \in Nat /\ RetainCount >= 1
  BY Numbers, ChatAssumption
<1>2. /\ stored' \in Nat /\ stored <= stored' /\ (IsInsert(i) => stored' = stored + 1)
      /\ (~IsInsert(i) => stored' = stored)
      /\ DOMAIN calls' = DOMAIN calls
      /\ UNCHANGED <<oldest, connected, named, shown>>
      /\ mishaps' \subseteq Mishap
  BY <1>1, ExecutesProperties DEF Executes, Happens, Mishap, IInv, TypeOK
<1>12. PICK now \in Nat : stored' = now /\ (now = stored \/ now = stored + 1)
  BY <1>1, <1>2
<1>13. oldest' = oldest
  BY <1>2
<1>3. \A j \in DOMAIN calls : j # i =>
          /\ Executed(j)' = Executed(j) /\ First(j)' = First(j) /\ Newest(j)' = Newest(j)
          /\ IsInsert(j)' = IsInsert(j) /\ Before(j)' = Before(j) /\ calls'[j] = calls[j]
  BY ExecutesProperties DEF Executed, First, Newest, IsInsert, Before
<1>4. /\ IsInsert(i)' = IsInsert(i) /\ Executed(i)' /\ ~Executed(i)
      /\ calls'[i].got \in Answer
      /\ Newest(i)' = stored' /\ Before(i)' = stored
      /\ First(i)' = IF IsInsert(i) THEN stored + 1 ELSE Later(oldest, stored - HistoryLimit + 1)
  <2>1. IsInsert(i)' = IsInsert(i) /\ calls'[i].got \in Answer /\ ~Executed(i)
    BY ExecutesProperties DEF IsInsert, Executes
  <2>2. Executed(i)'
    BY <2>1, PendingIsNoAnswer DEF Executed
  <2>3. Newest(i)' = stored'
    BY ExecutesProperties DEF Newest, Recent
  <2>4. Before(i)' = stored
    <3>1. CASE IsInsert(i)
      <4>1. stored' = stored + 1
        BY <1>2, <3>1
      <4>2. Before(i)' = Newest(i)' - 1
        BY <2>1, <3>1 DEF Before
      <4>. QED BY <1>1, <2>3, <4>1, <4>2
    <3>2. CASE ~IsInsert(i)
      BY <1>2, <2>1, <2>3, <3>2 DEF Before
    <3>. QED BY <3>1, <3>2
  <2>5. First(i)' = IF IsInsert(i) THEN stored + 1 ELSE Later(oldest, stored - HistoryLimit + 1)
    BY ExecutesProperties DEF First, Recent
  <2>. QED BY <2>1, <2>2, <2>3, <2>4, <2>5
<1>5. TypeOK'
  <2>1. \A j \in DOMAIN calls' : Executed(j)' => calls'[j].got.last \in 0..stored'
    <3>. SUFFICES ASSUME NEW j \in DOMAIN calls, Executed(j)' PROVE Newest(j)' \in 0..stored'
      BY <1>2 DEF Newest
    <3>1. CASE j = i
      BY <1>2, <1>4, <3>1
    <3>2. CASE j # i
      <4>1. Newest(j) \in Nat /\ Newest(j) <= stored
        BY <1>3, <3>2, Numbers
      <4>. QED BY <1>1, <1>2, <1>3, <3>2, <4>1
    <3>. QED BY <3>1, <3>2
  <2>2. shown' \in [Client -> Seq(1..stored')]
    <3>1. \A c \in Client : shown[c] \in Seq(1..stored')
      BY <1>1, <1>2, Numbers, LargerPage
    <3>2. shown' = shown /\ shown \in [Client -> Seq(1..stored)]
      BY <1>2 DEF IInv, TypeOK
    <3>. QED BY <3>1, <3>2
  <2>3. oldest' \in 1..(stored' + 1)
    <3>1. oldest \in 1..(now + 1)
      BY <1>1, <1>12
    <3>. QED BY <1>12, <1>13, <3>1
  <2>. QED BY <1>2, <2>1, <2>2, <2>3, ExecutesProperties DEF IInv, TypeOK
<1>6. Later(oldest, stored - HistoryLimit + 1) <= Later(oldest, now - HistoryLimit + 1)
      /\ Later(oldest, stored - HistoryLimit + 1) \in Nat
      /\ Later(oldest, now - HistoryLimit + 1) \in Nat
      /\ Later(oldest, stored - HistoryLimit + 1) <= stored + 1
  BY <1>1, <1>12 DEF Later
<1>7. AnswersOK'
  <2>. SUFFICES ASSUME NEW j \in DOMAIN calls, Executed(j)'
                PROVE  /\ calls'[j].got \in Answer
                       /\ First(j)' <= Newest(j)' + 1 /\ Newest(j)' <= stored'
                       /\ IsInsert(j)' => Newest(j)' >= 1
                       /\ First(j)' <= Later(oldest, now - HistoryLimit + 1) \/ IsInsert(j)'
    BY <1>2, <1>12, <1>13 DEF AnswersOK
  <2>1. CASE j = i
    BY <1>1, <1>2, <1>4, <1>6, <2>1
  <2>2. CASE j # i
    <3>1. /\ calls[j].got \in Answer
          /\ First(j) <= Newest(j) + 1 /\ Newest(j) <= stored
          /\ IsInsert(j) => Newest(j) >= 1
          /\ First(j) <= Later(oldest, stored - HistoryLimit + 1) \/ IsInsert(j)
          /\ First(j) \in Nat /\ Newest(j) \in Nat
      BY <1>3, <2>2, Numbers DEF IInv, AnswersOK
    <3>. QED BY <1>1, <1>2, <1>3, <1>6, <2>2, <3>1
  <2>. QED BY <2>1, <2>2
<1>8. Retained'
  <2>1. oldest = 1 \/ oldest <= now - RetainCount + 1
    BY <1>1, <1>12 DEF IInv, Retained
  <2>. QED BY <1>12, <1>13, <2>1 DEF Retained
<1>9. BacklogServed'
  <2>. SUFFICES ASSUME NEW j \in DOMAIN calls, calls'[j].kind = "history", Executed(j)',
                       NEW n \in 1..Newest(j)',
                       n > Newest(j)' - HistoryLimit, n > Newest(j)' - RetainCount
                PROVE  n >= First(j)'
    BY <1>2 DEF BacklogServed, Newest, First
  <2>1. CASE j = i
    <3>1. ~IsInsert(i)
      BY <1>4, <2>1 DEF IsInsert
    <3>2. Newest(i)' = stored /\ First(i)' = Later(oldest, stored - HistoryLimit + 1)
      BY <1>2, <1>4, <3>1
    <3>3. oldest = 1 \/ oldest <= stored - RetainCount + 1
      BY DEF IInv, Retained
    <3>. QED BY <1>1, <2>1, <3>2, <3>3 DEF Later
  <2>2. CASE j # i
    BY <1>3, <2>2 DEF IInv, BacklogServed, Newest, First
  <2>. QED BY <2>1, <2>2
<1>10. NeverDoubled'
  BY <1>2 DEF IInv, NeverDoubled
<1>11. ASSUME Without({"overtaken"})' PROVE Fifo'
  <2>1. mishaps' = mishaps /\ \A j \in 1..(i - 1) : Executed(j)
    BY <1>11 DEF Executes, Happens, Without
  <2>2. Fifo
    BY <1>11, <2>1 DEF IInv, InOrder, Without
  <2>3. Increasing'
    BY <1>2, <2>2 DEF Fifo, Increasing
  <2>4. \A j \in DOMAIN calls : j \in Nat /\ j >= 1
    BY DEF IInv, TypeOK
  <2>5. \A j \in DOMAIN calls : Executed(j) => j < i
    <3>. SUFFICES ASSUME NEW j \in DOMAIN calls, Executed(j) PROVE j < i
      OBVIOUS
    <3>1. ~(i < j) /\ j # i
      BY <1>4, <2>2 DEF Fifo
    <3>. QED BY <2>4, <3>1
  <2>6. \A j, k \in DOMAIN calls' : j < k /\ Executed(k)' =>
            Executed(j)' /\ Newest(j)' <= Before(k)'
    <3>. SUFFICES ASSUME NEW j \in DOMAIN calls, NEW k \in DOMAIN calls, j < k, Executed(k)'
                  PROVE  Executed(j)' /\ Newest(j)' <= Before(k)'
      BY <1>2
    <3>1. CASE k = i
      <4>1. j # i /\ Executed(j)
        BY <2>1, <2>4, <3>1
      <4>2. Newest(j) <= stored
        BY <4>1, Numbers
      <4>. QED BY <1>3, <1>4, <3>1, <4>1, <4>2
    <3>2. CASE k # i
      <4>1. Executed(k) /\ k < i
        BY <1>3, <2>5, <3>2
      <4>2. j # i
        BY <2>4, <4>1
      <4>. QED BY <1>3, <2>2, <3>2, <4>1, <4>2 DEF Fifo
    <3>. QED BY <3>1, <3>2
  <2>7. \A j \in DOMAIN calls' : Executed(j)' =>
            \A c \in Client : \A k \in DOMAIN shown[c]' : shown[c]'[k] <= Before(j)'
    <3>. SUFFICES ASSUME NEW j \in DOMAIN calls, Executed(j)', NEW c \in Client,
                         NEW k \in DOMAIN shown[c]
                  PROVE  shown[c][k] <= Before(j)'
      BY <1>2
    <3>1. CASE j = i
      <4>1. shown[c][k] \in 1..stored
        BY Numbers
      <4>. QED BY <1>1, <1>4, <3>1, <4>1
    <3>2. CASE j # i
      BY <1>3, <2>2, <3>2 DEF Fifo
    <3>. QED BY <3>1, <3>2
  <2>. QED BY <2>3, <2>6, <2>7 DEF Fifo
<1>. QED BY <1>5, <1>7, <1>8, <1>9, <1>10, <1>11 DEF IInv, InOrder

-----------------------------------------------------------------------------
(* Pages                                                                   *)

LEMMA UpsertPage ==
    ASSUME NEW s \in Nat, NEW q \in Seq(1..s), NEW id \in 1..s
    PROVE  LET p == Upsert(q, id) IN
           /\ p \in Seq(1..s)
           /\ \A k \in DOMAIN q : k \in DOMAIN p /\ p[k] = q[k]
           /\ \E k \in DOMAIN p : p[k] = id
           /\ (\A j, k \in DOMAIN q : q[j] = q[k] => j = k)
                => \A j, k \in DOMAIN p : p[j] = p[k] => j = k
           /\ (\A k \in DOMAIN q : q[k] <= id - 1)
                => \A k \in DOMAIN p : p[k] <= id
           /\ (\A j, k \in DOMAIN q : j < k => q[j] < q[k]) /\ (\A k \in DOMAIN q : q[k] <= id - 1)
                => \A j, k \in DOMAIN p : j < k => p[j] < p[k]
<1> DEFINE p == Upsert(q, id)
<1>0. Len(q) \in Nat /\ q \in [1..Len(q) -> 1..s] /\ DOMAIN q = 1..Len(q)
  BY LenProperties
<1>1. \A k \in DOMAIN q : q[k] \in Nat /\ q[k] \in 1..s
  BY <1>0
<1>2. CASE \E k \in DOMAIN q : q[k] = id
  <2>1. p = q
    BY <1>2 DEF Upsert
  <2> HIDE DEF p
  <2>2. (\A k \in DOMAIN q : q[k] <= id - 1) => \A k \in DOMAIN q : q[k] <= id
    BY <1>1
  <2>. QED BY <1>2, <2>1, <2>2 DEF p
<1>3. CASE ~\E k \in DOMAIN q : q[k] = id
  <2>0. PICK n \in Nat : n = Len(q) + 1
    BY <1>0
  <2>1. p = Append(q, id)
    BY <1>3 DEF Upsert
  <2>2. /\ p \in Seq(1..s) /\ DOMAIN p = 1..n /\ DOMAIN q = 1..(n - 1)
        /\ p[n] = id /\ \A k \in DOMAIN q : p[k] = q[k]
    BY <1>0, <2>0, <2>1, AppendProperties
  <2> HIDE DEF p
  <2>3. \A k \in DOMAIN p : k = n \/ (k \in DOMAIN q /\ k < n)
    BY <2>2
  <2>4. n \in DOMAIN p /\ \A k \in DOMAIN q : k \in DOMAIN p
    BY <2>0, <2>2, <1>0
  <2>5. (\A j, k \in DOMAIN q : q[j] = q[k] => j = k)
            => \A j, k \in DOMAIN p : p[j] = p[k] => j = k
    BY <1>3, <2>2, <2>3
  <2>6. (\A k \in DOMAIN q : q[k] <= id - 1) => \A k \in DOMAIN p : p[k] <= id
    BY <1>1, <2>2, <2>3
  <2>7. (\A j, k \in DOMAIN q : j < k => q[j] < q[k]) /\ (\A k \in DOMAIN q : q[k] <= id - 1)
            => \A j, k \in DOMAIN p : j < k => p[j] < p[k]
    <3>. SUFFICES ASSUME \A j, k \in DOMAIN q : j < k => q[j] < q[k],
                         \A k \in DOMAIN q : q[k] <= id - 1,
                         NEW j \in DOMAIN p, NEW k \in DOMAIN p, j < k
                  PROVE  p[j] < p[k]
      OBVIOUS
    <3>1. j \in DOMAIN q
      BY <2>2, <2>3
    <3>2. CASE k = n
      BY <1>1, <2>2, <3>1, <3>2
    <3>3. CASE k # n
      BY <2>2, <2>3, <3>1, <3>3
    <3>. QED BY <3>2, <3>3
  <2>. QED BY <2>2, <2>4, <2>5, <2>6, <2>7 DEF p
<1>. QED BY <1>2, <1>3

\* ... and every message a page showed stays where it was.
LEMMA UpsertKeeps ==
    ASSUME NEW s \in Nat, NEW q \in Seq(1..s), NEW id \in 1..s
    PROVE  \A k \in DOMAIN q : k \in DOMAIN Upsert(q, id) /\ Upsert(q, id)[k] = q[k]
  BY UpsertPage, Zenon

LEMMA ListedPage ==
    ASSUME NEW s \in Nat, NEW a \in Answer, a.first <= a.last + 1, a.last <= s
    PROVE  LET p == Listed(a) IN
           /\ p \in Seq(1..s)
           /\ \A j, k \in DOMAIN p : p[j] = p[k] => j = k
           /\ \A j, k \in DOMAIN p : j < k => p[j] < p[k]
           /\ \A k \in DOMAIN p : p[k] <= a.last
           /\ \A id \in 1..s : a.first <= id /\ id <= a.last => \E k \in DOMAIN p : p[k] = id
<1>1. PICK f \in Nat, l \in Nat : f = a.first /\ l = a.last /\ f >= 1
  BY DEF Answer
<1>2. PICK n \in Nat : n = l - f + 1
  BY <1>1
<1>3. PICK p : p = [k \in 1..n |-> f + k - 1]
  OBVIOUS
<1>4. Listed(a) = p
  BY <1>1, <1>2, <1>3 DEF Listed
<1>5. /\ p \in [1..n -> 1..s] /\ DOMAIN p = 1..n
      /\ \A k \in 1..n : p[k] = f + k - 1
  BY <1>1, <1>2, <1>3
<1>6. p \in Seq(1..s)
  BY <1>5, SequenceOfLength
<1>7. \A j, k \in 1..n : (p[j] = p[k] => j = k) /\ (j < k => p[j] < p[k])
  BY <1>2, <1>5
<1>12. \A k \in 1..n : p[k] <= l
  BY <1>2, <1>5
<1>8. \A id \in 1..s : f <= id /\ id <= l => \E k \in 1..n : p[k] = id
  <2>. SUFFICES ASSUME NEW id \in 1..s, f <= id, id <= l PROVE \E k \in 1..n : p[k] = id
    OBVIOUS
  <2>1. id - f + 1 \in 1..n /\ f + (id - f + 1) - 1 = id
    BY <1>2
  <2>. QED BY <1>5, <2>1
<1>9. \A k \in DOMAIN p : p[k] <= a.last
  <2>1. DOMAIN p = 1..n /\ a.last = l
    BY <1>1, <1>5
  <2>. QED BY <1>12, <2>1
<1>10. \A id \in 1..s : a.first <= id /\ id <= a.last => \E k \in DOMAIN p : p[k] = id
  BY <1>1, <1>5, <1>8
<1>11. /\ \A j, k \in DOMAIN p : p[j] = p[k] => j = k
       /\ \A j, k \in DOMAIN p : j < k => p[j] < p[k]
  BY <1>5, <1>7
<1>. QED BY <1>4, <1>6, <1>9, <1>10, <1>11, Zenon

-----------------------------------------------------------------------------
(* Answers                                                                 *)

\* A call that leaves the queue disturbs no other.
LEMMA LeavesOthers ==
    ASSUME IInv, NEW i \in DOMAIN calls, calls' = RemoveAt(calls, i),
           UNCHANGED <<stored, oldest, connected, named>>,
           mishaps' \subseteq Mishap, shown' \in [Client -> Seq(1..stored)]
    PROVE  TypeOK' /\ AnswersOK' /\ Retained' /\ BacklogServed'
<1>1. \A j \in DOMAIN calls' : \E k \in DOMAIN calls : calls'[j] = calls[k]
  BY AnsweredProperties DEF IInv
<1>2. calls' \in Seq(Call)
  BY AnsweredProperties DEF IInv
<1>3. TypeOK'
  BY <1>1, <1>2 DEF IInv, TypeOK, Executed
<1>4. AnswersOK'
  <2>. SUFFICES ASSUME NEW j \in DOMAIN calls', Executed(j)'
                PROVE  /\ calls'[j].got \in Answer
                       /\ First(j)' <= Newest(j)' + 1 /\ Newest(j)' <= stored
                       /\ IsInsert(j)' => Newest(j)' >= 1
                       /\ First(j)' <= Later(oldest, stored - HistoryLimit + 1) \/ IsInsert(j)'
    BY DEF AnswersOK
  <2>1. PICK k \in DOMAIN calls : calls'[j] = calls[k]
    BY <1>1
  <2>. QED BY <2>1 DEF IInv, AnswersOK, Executed, First, Newest, IsInsert
<1>5. Retained' /\ BacklogServed'
  BY <1>1 DEF IInv, Retained, BacklogServed, Executed
<1>. QED BY <1>3, <1>4, <1>5

LEMMA FailsStep == ASSUME IInv, NEW i \in DOMAIN calls, Fails(i) PROVE IInv'
<1>1. /\ calls' = RemoveAt(calls, i) /\ Happens("lost")
      /\ UNCHANGED <<stored, oldest, connected, named, shown>>
  BY DEF Fails, tableVars
<1>2. /\ mishaps' \subseteq Mishap
      /\ Without({"overtaken"})' => Without({"overtaken"})
  BY <1>1 DEF IInv, TypeOK, Happens, Mishap, Without
<1>3. shown' \in [Client -> Seq(1..stored)]
  BY <1>1 DEF IInv, TypeOK
<1>4. TypeOK' /\ AnswersOK' /\ Retained' /\ BacklogServed'
  BY <1>1, <1>2, <1>3, LeavesOthers
<1>5. NeverDoubled'
  BY <1>1 DEF IInv, NeverDoubled
<1>6. ASSUME Fifo PROVE Fifo'
  <2> DEFINE from(j) == IF j < i THEN j ELSE j + 1
  <2>1. \A j \in DOMAIN calls' :
            from(j) \in DOMAIN calls /\ calls'[j] = calls[from(j)] /\ j \in Nat
    <3>. SUFFICES ASSUME NEW j \in DOMAIN calls'
                  PROVE  from(j) \in DOMAIN calls /\ calls'[j] = calls[from(j)] /\ j \in Nat
      OBVIOUS
    <3>1. PICK k \in DOMAIN calls :
              calls'[j] = calls[k] /\ k = (IF j < i THEN j ELSE j + 1) /\ j \in Nat
      BY <1>1, AnsweredProperties DEF IInv
    <3>. QED BY <3>1
  <2>2. \A j, k \in DOMAIN calls' : j < k => from(j) < from(k)
    <3>1. i \in Nat
      BY DEF IInv, TypeOK
    <3>. QED BY <2>1, <3>1
  <2> HIDE DEF from
  <2>3. \A j \in DOMAIN calls' :
            /\ Executed(j)' = Executed(from(j)) /\ Newest(j)' = Newest(from(j))
            /\ Before(j)' = Before(from(j))
    BY <2>1 DEF Executed, Newest, Before, IsInsert
  <2>4. Increasing'
    BY <1>1, <1>6 DEF Fifo, Increasing
  <2>5. \A j, k \in DOMAIN calls' : j < k /\ Executed(k)' =>
            Executed(j)' /\ Newest(j)' <= Before(k)'
    BY <1>6, <2>1, <2>2, <2>3 DEF Fifo
  <2>6. \A j \in DOMAIN calls' : Executed(j)' =>
            \A c \in Client : \A k \in DOMAIN shown'[c] : shown'[c][k] <= Before(j)'
    BY <1>1, <1>6, <2>1, <2>3 DEF Fifo
  <2>. QED BY <2>4, <2>5, <2>6 DEF Fifo
<1>. QED BY <1>2, <1>4, <1>5, <1>6 DEF IInv, InOrder

\* An answer that reaches the pages: what it does to them, and to the others.
LEMMA ReplyStep ==
    ASSUME IInv, NEW i \in DOMAIN calls, Executed(i), Answered(i),
           UNCHANGED <<stored, oldest, connected, named>>, shown' \in [Client -> Seq(1..stored)],
           \A c \in Client :
              \/ shown'[c] = shown[c]
              \/ IsInsert(i) /\ shown'[c] = Upsert(shown[c], Newest(i))
              \/ ~IsInsert(i) /\ shown'[c] = Listed(calls[i].got)
    PROVE  IInv'
<1>1. /\ calls' = RemoveAt(calls, i) /\ mishaps' \subseteq Mishap
      /\ Without({"overtaken"})' => i = 1 /\ mishaps' = mishaps
  BY DEF Answered, Happens, Without, Mishap, IInv, TypeOK
<1>2. TypeOK' /\ AnswersOK' /\ Retained' /\ BacklogServed'
  BY <1>1, LeavesOthers
<1>3. /\ stored \in Nat /\ Newest(i) \in Nat /\ Newest(i) <= stored
      /\ IsInsert(i) => Newest(i) \in 1..stored /\ Before(i) = Newest(i) - 1
      /\ ~IsInsert(i) => Before(i) = Newest(i)
      /\ calls[i].got \in Answer /\ calls[i].got.first <= calls[i].got.last + 1
      /\ calls[i].got.last <= stored /\ calls[i].got.last = Newest(i)
  <2>1. calls[i].got \in Answer /\ First(i) <= Newest(i) + 1 /\ (IsInsert(i) => Newest(i) >= 1)
    BY DEF IInv, AnswersOK
  <2>2. stored \in Nat /\ Newest(i) \in Nat /\ Newest(i) <= stored
    BY Numbers
  <2>3. IsInsert(i) => Newest(i) \in 1..stored
    <3>1. Newest(i) >= 1 => Newest(i) \in 1..stored
      BY <2>2
    <3>. QED BY <2>1, <3>1
  <2>4. (IsInsert(i) => Before(i) = Newest(i) - 1) /\ (~IsInsert(i) => Before(i) = Newest(i))
    BY DEF Before
  <2>. QED BY <2>1, <2>2, <2>3, <2>4 DEF First, Newest
<1>4. ASSUME NEW c \in Client, IsInsert(i), shown'[c] = Upsert(shown[c], Newest(i))
      PROVE  /\ \A j, k \in DOMAIN shown'[c] : shown'[c][j] = shown'[c][k] => j = k
             /\ (\A k \in DOMAIN shown[c] : shown[c][k] <= Newest(i) - 1)
                  => \A k \in DOMAIN shown'[c] : shown'[c][k] <= Newest(i)
             /\ /\ \A j, k \in DOMAIN shown[c] : j < k => shown[c][j] < shown[c][k]
                /\ \A k \in DOMAIN shown[c] : shown[c][k] <= Newest(i) - 1
                => \A j, k \in DOMAIN shown'[c] : j < k => shown'[c][j] < shown'[c][k]
  <2>1. shown[c] \in Seq(1..stored) /\ Newest(i) \in 1..stored
    BY <1>3, <1>4, Numbers
  <2>2. \A j, k \in DOMAIN shown[c] : shown[c][j] = shown[c][k] => j = k
    BY DEF IInv, NeverDoubled
  <2> DEFINE p == Upsert(shown[c], Newest(i))
  <2>3. /\ \A j, k \in DOMAIN p : p[j] = p[k] => j = k
        /\ (\A k \in DOMAIN shown[c] : shown[c][k] <= Newest(i) - 1)
             => \A k \in DOMAIN p : p[k] <= Newest(i)
        /\ /\ \A j, k \in DOMAIN shown[c] : j < k => shown[c][j] < shown[c][k]
           /\ \A k \in DOMAIN shown[c] : shown[c][k] <= Newest(i) - 1
           => \A j, k \in DOMAIN p : j < k => p[j] < p[k]
    BY <1>3, <2>1, <2>2, UpsertPage, Zenon
  <2>4. shown'[c] = p
    BY <1>4
  <2> HIDE DEF p
  <2>. QED BY <2>3, <2>4
<1>5. ASSUME NEW c \in Client, shown'[c] = Listed(calls[i].got)
      PROVE  /\ \A j, k \in DOMAIN shown'[c] : shown'[c][j] = shown'[c][k] => j = k
             /\ \A k \in DOMAIN shown'[c] : shown'[c][k] <= Newest(i)
             /\ \A j, k \in DOMAIN shown'[c] : j < k => shown'[c][j] < shown'[c][k]
  BY <1>3, <1>5, ListedPage
<1>6. NeverDoubled'
  <2>. SUFFICES ASSUME NEW c \in Client
                PROVE  \A j, k \in DOMAIN shown'[c] : shown'[c][j] = shown'[c][k] => j = k
    BY DEF NeverDoubled
  <2>1. CASE shown'[c] = shown[c]
    BY <2>1 DEF IInv, NeverDoubled
  <2>. QED BY <1>4, <1>5, <2>1
<1>7. ASSUME Without({"overtaken"})' PROVE Fifo'
  <2>1. i = 1 /\ Fifo
    BY <1>1, <1>7 DEF IInv, InOrder, Without
  <2>2. \A j \in DOMAIN calls' : j + 1 \in DOMAIN calls /\ calls'[j] = calls[j + 1]
                                 /\ j \in Nat /\ j >= 1
    <3>. SUFFICES ASSUME NEW j \in DOMAIN calls'
                  PROVE  j + 1 \in DOMAIN calls /\ calls'[j] = calls[j + 1] /\ j \in Nat /\ j >= 1
      OBVIOUS
    <3>1. PICK k \in DOMAIN calls : /\ calls'[j] = calls[k] /\ k = IF j < i THEN j ELSE j + 1
                                    /\ j \in Nat /\ j >= 1
      BY <1>1, AnsweredProperties DEF IInv
    <3>. QED BY <2>1, <3>1
  <2>3. \A j \in DOMAIN calls' :
            /\ Executed(j)' = Executed(j + 1) /\ Newest(j)' = Newest(j + 1)
            /\ Before(j)' = Before(j + 1)
    BY <2>2 DEF Executed, Newest, Before, IsInsert
  <2>4. \A c \in Client : \A k \in DOMAIN shown[c] : shown[c][k] <= Before(i)
    BY <2>1 DEF Fifo
  <2>5. \A c \in Client : \A j, k \in DOMAIN shown[c] : j < k => shown[c][j] < shown[c][k]
    BY <2>1 DEF Fifo, Increasing
  <2>6. Increasing'
    <3>. SUFFICES ASSUME NEW c \in Client
                  PROVE  \A j, k \in DOMAIN shown'[c] : j < k => shown'[c][j] < shown'[c][k]
      BY DEF Increasing
    <3>1. CASE shown'[c] = shown[c]
      BY <2>5, <3>1
    <3>2. CASE IsInsert(i) /\ shown'[c] = Upsert(shown[c], Newest(i))
      <4>1. \A k \in DOMAIN shown[c] : shown[c][k] <= Newest(i) - 1
        BY <1>3, <2>4, <3>2
      <4>. QED BY <1>4, <2>5, <3>2, <4>1
    <3>. QED BY <1>5, <3>1, <3>2
  <2>7. \A j, k \in DOMAIN calls' : j < k /\ Executed(k)' =>
            Executed(j)' /\ Newest(j)' <= Before(k)'
    <3>. SUFFICES ASSUME NEW j \in DOMAIN calls', NEW k \in DOMAIN calls', j < k, Executed(k)'
                  PROVE  Executed(j)' /\ Newest(j)' <= Before(k)'
      OBVIOUS
    <3>1. j + 1 \in DOMAIN calls /\ k + 1 \in DOMAIN calls /\ j + 1 < k + 1 /\ Executed(k + 1)
      BY <2>2, <2>3
    <3>. QED BY <2>1, <2>3, <3>1 DEF Fifo
  <2>8. \A j \in DOMAIN calls' : Executed(j)' =>
            \A c \in Client : \A k \in DOMAIN shown'[c] : shown'[c][k] <= Before(j)'
    <3>. SUFFICES ASSUME NEW j \in DOMAIN calls', Executed(j)', NEW c \in Client,
                         NEW k \in DOMAIN shown'[c]
                  PROVE  shown'[c][k] <= Before(j)'
      OBVIOUS
    <3>1. j + 1 \in DOMAIN calls /\ Executed(j + 1) /\ Before(j)' = Before(j + 1) /\ 1 < j + 1
      BY <2>2, <2>3
    <3>2. Newest(i) <= Before(j + 1) /\ Before(j + 1) \in Int /\ Newest(i) \in Nat
      BY <1>3, <2>1, <3>1, Numbers DEF Fifo
    <3>3. CASE shown'[c] = shown[c]
      BY <2>1, <3>1, <3>3 DEF Fifo
    <3>4. CASE shown'[c] # shown[c]
      <4>1. shown'[c][k] <= Newest(i)
        <5>1. CASE IsInsert(i) /\ shown'[c] = Upsert(shown[c], Newest(i))
          <6>1. \A m \in DOMAIN shown[c] : shown[c][m] <= Newest(i) - 1
            BY <1>3, <2>4, <5>1
          <6>. QED BY <1>4, <5>1, <6>1
        <5>. QED BY <1>5, <3>4, <5>1
      <4>2. PICK m \in Nat : m = shown'[c][k]
        <5>1. shown'[c] \in [1..Len(shown'[c]) -> 1..stored]
          BY LenProperties
        <5>2. shown'[c][k] \in 1..stored
          BY <5>1
        <5>. QED BY <1>3, <5>2
      <4>3. m <= Before(j + 1)
        BY <3>2, <4>1, <4>2
      <4>. QED BY <3>1, <4>2, <4>3
    <3>. QED BY <3>3, <3>4
  <2>. QED BY <2>6, <2>7, <2>8 DEF Fifo
<1>. QED BY <1>2, <1>6, <1>7 DEF IInv, InOrder

LEMMA InsertReplyStep == ASSUME IInv, NEW i \in DOMAIN calls, InsertReply(i) PROVE IInv'
<1>1. /\ IsInsert(i) /\ Executed(i) /\ Answered(i)
      /\ UNCHANGED <<stored, oldest, connected, named>>
      /\ shown' = [c \in Client |-> IF c \in named THEN Upsert(shown[c], Newest(i)) ELSE shown[c]]
  BY DEF InsertReply, IsInsert, Newest, tableVars
<1>2. /\ stored \in Nat /\ Newest(i) \in 1..stored
      /\ \A c \in Client : shown[c] \in Seq(1..stored)
  <2>1. stored \in Nat /\ Newest(i) \in Nat /\ Newest(i) <= stored /\ Newest(i) >= 1
    BY <1>1, Numbers DEF IInv, AnswersOK
  <2>. QED BY <2>1, Numbers
<1>3. \A c \in Client : Upsert(shown[c], Newest(i)) \in Seq(1..stored)
  BY <1>2, UpsertPage
<1>4. shown' \in [Client -> Seq(1..stored)]
  BY <1>1, <1>2, <1>3
<1>5. \A c \in Client : shown'[c] = shown[c] \/ shown'[c] = Upsert(shown[c], Newest(i))
  BY <1>1
<1>. QED BY <1>1, <1>4, <1>5, ReplyStep

LEMMA HistoryReplyStep == ASSUME IInv, NEW i \in DOMAIN calls, HistoryReply(i) PROVE IInv'
<1>1. /\ ~IsInsert(i) /\ Executed(i) /\ Answered(i)
      /\ UNCHANGED <<stored, oldest, connected, named>>
      /\ shown' = [c \in Client |-> IF c = calls[i].to THEN Listed(calls[i].got) ELSE shown[c]]
  BY DEF HistoryReply, IsInsert, tableVars
<1>2. /\ stored \in Nat /\ \A c \in Client : shown[c] \in Seq(1..stored)
      /\ calls[i].got \in Answer
      /\ calls[i].got.first <= calls[i].got.last + 1 /\ calls[i].got.last <= stored
  BY <1>1, Numbers DEF IInv, AnswersOK, First, Newest
<1>3. Listed(calls[i].got) \in Seq(1..stored)
  BY <1>2, ListedPage
<1>4. shown' \in [Client -> Seq(1..stored)]
  BY <1>1, <1>2, <1>3
<1>5. \A c \in Client : shown'[c] = shown[c] \/ shown'[c] = Listed(calls[i].got)
  BY <1>1
<1>. QED BY <1>1, <1>4, <1>5, ReplyStep

LEMMA RestartStep == ASSUME IInv, Restart PROVE IInv'
<1>1. /\ calls' = <<>> /\ connected' = {} /\ named' = {}
      /\ UNCHANGED <<stored, oldest, shown, mishaps>>
  BY DEF Restart, tableVars
<1>2. DOMAIN calls' = {}
  BY <1>1
<1>3. TypeOK'
  BY <1>1, <1>2 DEF IInv, TypeOK
<1>4. AnswersOK' /\ Retained' /\ BacklogServed' /\ NeverDoubled'
  BY <1>1, <1>2 DEF IInv, AnswersOK, Retained, BacklogServed, NeverDoubled
<1>5. InOrder'
  BY <1>1, <1>2 DEF IInv, InOrder, Without, Fifo, Increasing
<1>. QED BY <1>3, <1>4, <1>5 DEF IInv

-----------------------------------------------------------------------------
LEMMA StutterStep == ASSUME IInv, UNCHANGED vars PROVE IInv'
<1>1. UNCHANGED <<stored, oldest, calls, connected, named, shown, mishaps>>
  BY DEF vars, tableVars
<1>2. TypeOK'
  BY <1>1 DEF IInv, TypeOK, Executed
<1>3. DOMAIN calls \subseteq DOMAIN calls'
  BY <1>1
<1>4. (AnswersOK /\ Retained /\ BacklogServed /\ NeverDoubled /\ InOrder)'
  BY <1>1, <1>3, SameAnswers
<1>. QED BY <1>2, <1>4 DEF IInv

LEMMA NextStep == IInv /\ [Next]_vars => IInv'
<1>. SUFFICES ASSUME IInv, [Next]_vars PROVE IInv'
  OBVIOUS
<1>1. ASSUME NEW c \in Client, Hello(c) PROVE IInv'
  <2>1. /\ Calls("history", c) /\ UNCHANGED <<stored, oldest, shown, mishaps, connected>>
        /\ named' \subseteq connected
    BY <1>1 DEF Hello, tableVars, IInv, TypeOK
  <2>. QED BY <2>1, AskingStep
<1>2. ASSUME NEW c \in Client, ChatSend(c) PROVE IInv'
  <2>1. /\ Calls("insert", Nobody) /\ UNCHANGED <<stored, oldest, shown, mishaps, connected>>
        /\ named' \subseteq connected
    BY <1>2 DEF ChatSend, tableVars, IInv, TypeOK
  <2>. QED BY <2>1, AskingStep
<1>3. CASE \E c \in Client : Connect(c) \/ Hello(c) \/ Disconnect(c) \/ ChatSend(c)
  BY <1>1, <1>2, <1>3, ConnectStep, DisconnectStep
<1>4. CASE Prune
  BY <1>4, PruneStep
<1>5. CASE \E i \in DOMAIN calls : Executes(i) \/ InsertReply(i) \/ HistoryReply(i) \/ Fails(i)
  BY <1>5, ExecutesStep, InsertReplyStep, HistoryReplyStep, FailsStep
<1>6. CASE Restart
  BY <1>6, RestartStep
<1>7. CASE UNCHANGED vars
  BY <1>7, StutterStep
<1>. QED BY <1>3, <1>4, <1>5, <1>6, <1>7 DEF Next

LEMMA SpecIInv == Spec => []IInv
<1>. QED BY InitIInv, NextStep, PTL DEF Spec

\* The variables keep their types; only open sockets have an address
\* (registerAddress, unregisterAddress).
THEOREM ChatTypes == Spec => []TypeOK
<1>1. IInv => TypeOK
  BY DEF IInv
<1>. QED BY <1>1, SpecIInv, PTL

\* No page shows a message twice (the upsert of chat.tsx), in whatever order the
\* answers come.
THEOREM ChatNeverDoubled == Spec => []NeverDoubled
<1>1. IInv => NeverDoubled
  BY DEF IInv
<1>. QED BY <1>1, SpecIInv, PTL

\* Without an overtaken call every page is in the order of the table.
THEOREM ChatChronological == Spec => []Chronological
<1>1. IInv => Chronological
  BY DEF IInv, InOrder, Fifo, Increasing, Chronological
<1>. QED BY <1>1, SpecIInv, PTL

\* A history misses none of the newest messages that the prune and its own limit
\* let it hold (recentChatMessages, pruneChatMessages).
THEOREM ChatBacklogServed == Spec => []BacklogServed
<1>1. IInv => BacklogServed
  BY DEF IInv
<1>. QED BY <1>1, SpecIInv, PTL

\* Without an overtaken call a page loses only messages too old for a history.
THEOREM ChatNothingVanishes == Spec => NothingVanishes
<1>1. IInv /\ [Next]_vars =>
        [Without({"overtaken"}) =>
            \A c \in connected \cap connected' : \A id \in 1..stored :
                Shows(c, id) => Shows(c, id)' \/ id < oldest \/ id <= stored - HistoryLimit]_vars
  <2>. SUFFICES ASSUME IInv, Next, Without({"overtaken"}),
                       NEW c \in connected, c \in connected', NEW id \in 1..stored,
                       Shows(c, id), ~(id < oldest), ~(id <= stored - HistoryLimit)
                PROVE  Shows(c, id)'
    OBVIOUS
  <2>0. c \in Client /\ Fifo
    BY DEF IInv, TypeOK, InOrder
  <2>1. CASE shown'[c] = shown[c]
    BY <2>1 DEF Shows
  <2>2. CASE \E i \in DOMAIN calls : InsertReply(i)
    <3>1. PICK i \in DOMAIN calls : InsertReply(i)
      BY <2>2
    <3>2. shown'[c] = shown[c] \/ shown'[c] = Upsert(shown[c], Newest(i))
      BY <2>0, <3>1 DEF InsertReply, Newest
    <3>3. /\ stored \in Nat /\ shown[c] \in Seq(1..stored)
          /\ Newest(i) \in Nat /\ Newest(i) <= stored /\ Newest(i) >= 1
      BY <2>0, <3>1, Numbers DEF InsertReply, IInv, AnswersOK, IsInsert
    <3>4. Newest(i) \in 1..stored
      BY <3>3
    <3> DEFINE p == Upsert(shown[c], Newest(i))
    <3>5. \A k \in DOMAIN shown[c] : k \in DOMAIN p /\ p[k] = shown[c][k]
      BY <3>3, <3>4, UpsertKeeps
    <3>6. PICK k \in DOMAIN shown[c] : shown[c][k] = id
      BY DEF Shows
    <3> HIDE DEF p
    <3>7. CASE shown'[c] = p
      BY <3>5, <3>6, <3>7 DEF Shows
    <3>. QED BY <2>1, <3>2, <3>7 DEF p
  <2>3. CASE \E i \in DOMAIN calls : HistoryReply(i)
    <3>1. PICK i \in DOMAIN calls : HistoryReply(i)
      BY <2>3
    <3>2. shown'[c] = shown[c] \/ shown'[c] = Listed(calls[i].got)
      BY <2>0, <3>1 DEF HistoryReply
    <3>3. ~IsInsert(i) /\ Executed(i)
      BY <3>1 DEF HistoryReply, IsInsert
    <3>4. /\ stored \in Nat /\ calls[i].got \in Answer
          /\ First(i) <= Newest(i) + 1 /\ Newest(i) <= stored /\ First(i) \in Nat
          /\ First(i) <= Later(oldest, stored - HistoryLimit + 1)
      BY <3>3, Numbers DEF IInv, AnswersOK
    <3>5. First(i) <= id
      BY <3>4, Numbers, ChatAssumption DEF Later
    <3>6. id <= Newest(i)
      <4>1. PICK k \in DOMAIN shown[c] : shown[c][k] = id
        BY DEF Shows
      <4>. QED BY <2>0, <3>3, <4>1 DEF Fifo, Before
    <3> DEFINE p == Listed(calls[i].got)
    <3>7. \E k \in DOMAIN p : p[k] = id
      BY <3>4, <3>5, <3>6, ListedPage DEF First, Newest
    <3> HIDE DEF p
    <3>8. CASE shown'[c] = p
      BY <3>7, <3>8 DEF Shows
    <3>. QED BY <2>1, <3>2, <3>8 DEF p
  <2>4. shown'[c] = shown[c] \/ (\E i \in DOMAIN calls : InsertReply(i) \/ HistoryReply(i))
    <3>1. \A d \in Client : Connect(d) \/ Hello(d) \/ ChatSend(d) => shown' = shown
      BY DEF Connect, Hello, ChatSend
    <3>2. \A d \in Client : Disconnect(d) => shown'[c] = shown[c]
      <4>. SUFFICES ASSUME NEW d \in Client, Disconnect(d) PROVE shown'[c] = shown[c]
        OBVIOUS
      <4>1. c # d /\ shown' \in {shown, [shown EXCEPT ![d] = <<>>]}
        BY DEF Disconnect
      <4>. QED BY <2>0, <4>1 DEF IInv, TypeOK
    <3>3. Prune \/ Restart => shown' = shown
      BY DEF Prune, Restart
    <3>4. \A i \in DOMAIN calls : Executes(i) \/ Fails(i) => shown' = shown
      BY DEF Executes, Fails
    <3>. QED BY <3>1, <3>2, <3>3, <3>4 DEF Next
  <2>. QED BY <2>1, <2>2, <2>3, <2>4
<1>. QED BY <1>1, SpecIInv, PTL DEF Spec, NothingVanishes
=============================================================================
