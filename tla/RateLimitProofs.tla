--------------------------- MODULE RateLimitProofs ---------------------------
(***************************************************************************)
(* WindowBound and RetryHonest for any keys, limits and sweeps.            *)
(*                                                                         *)
(* WindowBound speaks of pairs of calls long past.  What makes it last is  *)
(* Potential: the calls since any earlier one, plus what is left in the    *)
(* bucket, never exceed what that call was allowed until NOW.  A call that *)
(* is let through takes from the bucket what it adds to the count, time    *)
(* adds to both sides, and a sweep that refills a bucket raises the        *)
(* allowance by a full one.                                                *)
(***************************************************************************)
EXTENDS RateLimit, SequenceTheorems, TLAPS

Here == [at |-> now, sweeps |-> sweeps]

Potential ==
    \A k \in Key : \A i \in 1..Len(admitted[k]) :
        (Len(admitted[k]) - i + 1) * Period[k] + Level(k)
            <= Allowance(k, admitted[k][i], Here)

\* A refused caller's bucket will have refilled by the time it was told.
Promised ==
    \A k \in Key : promise[k] # NoPromise =>
        Level(k) >= Period[k] \/ Level(k) + (promise[k] - now) >= Period[k]

IInv == TypeOK /\ Potential /\ WindowBound /\ Promised

-----------------------------------------------------------------------------
LEMMA OneMore == \A a, p \in Int : (a + 1) * p = a * p + p
BY Z3

LEMMA FullNat == \A k \in Key : Full(k) \in Nat
<1>. SUFFICES ASSUME NEW k \in Key PROVE Full(k) \in Nat
  OBVIOUS
<1>1. Capacity[k] \in Nat /\ Period[k] \in Nat
  BY RateLimitAssumption
<1>2. \A a, b \in Nat : a * b \in Nat
  BY Z3
<1>. QED BY <1>1, <1>2 DEF Full

LEMMA LevelBounds ==
    ASSUME TypeOK, NEW k \in Key
    PROVE  Level(k) \in Nat /\ Level(k) <= Full(k)
<1>1. Full(k) \in Nat
  BY FullNat
<1>2. CASE bucket[k] = NoBucket
  BY <1>1, <1>2 DEF Level
<1>3. CASE bucket[k] # NoBucket
  <2>1. bucket[k] \in Bucket /\ bucket[k].last <= now /\ now \in Nat
    BY <1>3 DEF TypeOK
  <2>2. bucket[k].tokens \in Nat /\ bucket[k].last \in Nat
    BY <2>1 DEF Bucket
  <2>. QED BY <1>1, <1>3, <2>1, <2>2 DEF Level, Least
<1>. QED BY <1>2, <1>3

LEMMA AllowanceInt ==
    ASSUME NEW k \in Key, NEW f \in Call, NEW t \in Call
    PROVE  Allowance(k, f, t) \in Int
<1>1. Full(k) \in Int /\ f.at \in Int /\ f.sweeps \in Int /\ t.at \in Int /\ t.sweeps \in Int
  BY FullNat DEF Call
<1>2. \A a, b \in Int : a * b \in Int
  OBVIOUS
<1>3. Full(k) * (1 + (t.sweeps - f.sweeps)) \in Int
  BY <1>1, <1>2
<1>. QED BY <1>1, <1>3 DEF Allowance

LEMMA AllowanceAfterTick ==
    ASSUME NEW k \in Key, NEW f \in Call, NEW a \in Nat, NEW s \in Nat
    PROVE  Allowance(k, f, [at |-> a + 1, sweeps |-> s])
               = Allowance(k, f, [at |-> a, sweeps |-> s]) + 1
<1> DEFINE burst == IF k \in Colon THEN Full(k) * (1 + (s - f.sweeps)) ELSE Full(k)
<1>1. f.at \in Int /\ f.sweeps \in Int /\ Full(k) \in Int
  BY FullNat DEF Call
<1>2. burst \in Int
  <2>1. \A x, y \in Int : x * y \in Int
    OBVIOUS
  <2>2. 1 + (s - f.sweeps) \in Int
    BY <1>1
  <2>. QED BY <1>1, <2>1, <2>2
<1>3. /\ Allowance(k, f, [at |-> a + 1, sweeps |-> s]) = burst + (a + 1 - f.at)
      /\ Allowance(k, f, [at |-> a, sweeps |-> s]) = burst + (a - f.at)
  BY <1>1, <1>2 DEF Allowance
<1> HIDE DEF burst
<1>. QED BY <1>1, <1>2, <1>3

LEMMA AllowanceAfterSweep ==
    ASSUME NEW k \in Key, NEW f \in Call, NEW a \in Nat, NEW s \in Nat, k \in Colon
    PROVE  Allowance(k, f, [at |-> a, sweeps |-> s + 1])
               = Allowance(k, f, [at |-> a, sweeps |-> s]) + Full(k)
<1> DEFINE d == 1 + (s - f.sweeps)
           e == 1 + (s + 1 - f.sweeps)
           burst == Full(k) * d
<1>1. f.at \in Int /\ f.sweeps \in Int /\ Full(k) \in Int
  BY FullNat DEF Call
<1>2. d \in Int /\ e = d + 1
  BY <1>1
<1>3. /\ Allowance(k, f, [at |-> a, sweeps |-> s + 1]) = Full(k) * e + (a - f.at)
      /\ Allowance(k, f, [at |-> a, sweeps |-> s]) = burst + (a - f.at)
  <2>1. ASSUME NEW t, NEW c \in Int, t.at = a, t.sweeps = c
        PROVE  Allowance(k, f, t) = Full(k) * (1 + (c - f.sweeps)) + (a - f.at)
    BY <2>1 DEF Allowance
  <2>2. /\ [at |-> a, sweeps |-> s + 1].at = a /\ [at |-> a, sweeps |-> s + 1].sweeps = s + 1
        /\ [at |-> a, sweeps |-> s].at = a /\ [at |-> a, sweeps |-> s].sweeps = s
        /\ s \in Int /\ s + 1 \in Int
    OBVIOUS
  <2>3. Allowance(k, f, [at |-> a, sweeps |-> s + 1]) = Full(k) * e + (a - f.at)
    <3>1. ASSUME NEW t, t.at = a, t.sweeps = s + 1
          PROVE  Allowance(k, f, t) = Full(k) * e + (a - f.at)
      <4>1. 1 + (t.sweeps - f.sweeps) = e
        BY <1>1, <3>1
      <4>2. Allowance(k, f, t) = Full(k) * (1 + (t.sweeps - f.sweeps)) + (t.at - f.at)
        BY DEF Allowance
      <4> HIDE DEF e
      <4>. QED BY <3>1, <4>1, <4>2
    <3> HIDE DEF e
    <3>. QED BY <2>2, <3>1
  <2>4. Allowance(k, f, [at |-> a, sweeps |-> s]) = burst + (a - f.at)
    BY <2>1, <2>2
  <2>. QED BY <2>3, <2>4
<1> HIDE DEF d, e
<1>4. \A x, y \in Int : x * (y + 1) = x * y + x /\ x * y \in Int
  BY Z3
<1>5. Full(k) * e = burst + Full(k) /\ burst \in Int
  BY <1>1, <1>2, <1>4
<1> HIDE DEF burst
<1>. QED BY <1>1, <1>3, <1>5

LEMMA InitIInv == Init => IInv
<1> SUFFICES ASSUME Init PROVE IInv
  OBVIOUS
<1>1. TypeOK
  BY RateLimitAssumption DEF Init, TypeOK
<1>2. \A k \in Key : admitted[k] = <<>> /\ promise[k] = NoPromise
  BY DEF Init
<1>. QED BY <1>1, <1>2 DEF IInv, Potential, WindowBound, Promised

-----------------------------------------------------------------------------
LEMMA AdmitIInv == ASSUME IInv, NEW k \in Key, Admit(k) PROVE IInv'
<1>0. TypeOK /\ Potential /\ WindowBound /\ Promised
  BY DEF IInv
<1> DEFINE p == Period[k]
           n == Len(admitted[k])
           new == [at |-> now, sweeps |-> sweeps]
<1>1. p \in Nat \ {0} /\ Level(k) \in Nat /\ Level(k) <= Full(k) /\ Full(k) \in Nat
  BY <1>0, LevelBounds, FullNat, RateLimitAssumption
<1>2. now \in Nat /\ sweeps \in Nat /\ due \in Nat /\ new \in Call /\ n \in Nat
      /\ admitted[k] \in Seq(Call)
  BY <1>0 DEF TypeOK, Call
<1>3. /\ bucket' = [bucket EXCEPT ![k] = [tokens |-> Level(k) - p, last |-> now]]
      /\ admitted' = [admitted EXCEPT ![k] = Append(@, new)]
      /\ promise' = [promise EXCEPT ![k] = NoPromise]
      /\ now' = now /\ sweeps' = sweeps /\ due' = due /\ Level(k) >= p
  BY DEF Admit
<1>4. TypeOK'
  <2>1. [tokens |-> Level(k) - p, last |-> now] \in Bucket
    BY <1>1, <1>2, <1>3 DEF Bucket
  <2>2. bucket' \in [Key -> Bucket \cup {NoBucket}]
    BY <1>0, <1>3, <2>1 DEF TypeOK
  <2>3. \A j \in Key : bucket'[j] # NoBucket =>
           bucket'[j].tokens <= Full(j) /\ bucket'[j].last <= now
    BY <1>0, <1>1, <1>2, <1>3 DEF TypeOK
  <2>4. admitted' \in [Key -> Seq(Call)]
    BY <1>0, <1>2, <1>3 DEF TypeOK
  <2>. QED BY <1>0, <1>3, <2>2, <2>3, <2>4 DEF TypeOK, Full
<1>5. Level(k)' = Level(k) - p
  <2>1. bucket'[k] = [tokens |-> Level(k) - p, last |-> now]
    BY <1>0, <1>3 DEF TypeOK
  <2>2. bucket'[k] \in Bucket /\ bucket'[k] # NoBucket
    BY <1>1, <1>2, <1>3, <2>1, RateLimitAssumption DEF Bucket
  <2>3. bucket'[k].tokens + (now - bucket'[k].last) = Level(k) - p
    BY <1>1, <1>2, <2>1
  <2>. QED BY <1>1, <1>3, <2>2, <2>3 DEF Level, Least, Full
<1>6. \A j \in Key : j # k =>
         /\ Level(j)' = Level(j) /\ admitted'[j] = admitted[j] /\ promise'[j] = promise[j]
  BY <1>0, <1>3 DEF TypeOK, Level, Full
<1>7. /\ Len(admitted'[k]) = n + 1 /\ admitted'[k][n + 1] = new
      /\ \A i \in 1..n : admitted'[k][i] = admitted[k][i] /\ admitted[k][i] \in Call
  BY <1>0, <1>2, <1>3 DEF TypeOK
<1>8. \A i \in 1..n : (n + 1 - i + 1) * p + Level(k)' <= Allowance(k, admitted[k][i], new)
  <2> TAKE i \in 1..n
  <2>1. (n - i + 1) * p + Level(k) <= Allowance(k, admitted[k][i], new)
    BY <1>0 DEF Potential, Here
  <2>2. (n + 1 - i + 1) * p = (n - i + 1) * p + p /\ (n - i + 1) * p \in Int
    <3>1. (n - i + 1) \in Int /\ p \in Int /\ n + 1 - i + 1 = (n - i + 1) + 1
      BY <1>1, <1>2
    <3>2. \A a, b \in Int : a * b \in Int
      OBVIOUS
    <3>. QED BY <3>1, <3>2, OneMore
  <2>3. Allowance(k, admitted[k][i], new) \in Int
    BY <1>2, <1>7, AllowanceInt
  <2>. QED BY <1>1, <1>5, <2>1, <2>2, <2>3
<1>9. Allowance(k, new, new) >= Full(k) /\ Allowance(k, new, new) \in Int
  <2>1. 1 + (new.sweeps - new.sweeps) = 1 /\ new.at - new.at = 0
    BY <1>2
  <2>2. \A f \in Nat : f * 1 = f
    OBVIOUS
  <2>. QED BY <1>1, <2>1, <2>2 DEF Allowance
<1>10. \A i \in 1..(n + 1) :
          (n + 1 - i + 1) * p + Level(k)' <= Allowance(k, admitted'[k][i], new)
  <2> TAKE i \in 1..(n + 1)
  <2>1. CASE i = n + 1
    <3>1. (n + 1 - i + 1) * p = p
      BY <1>1, <1>2, <2>1
    <3>. QED BY <1>1, <1>5, <1>7, <1>9, <2>1, <3>1
  <2>2. CASE i # n + 1
    <3>1. i \in 1..n
      BY <1>2, <2>2
    <3>. QED BY <1>7, <1>8, <3>1
  <2>. QED BY <2>1, <2>2
<1>11. Potential'
  <2> SUFFICES ASSUME NEW j \in Key, NEW i \in 1..Len(admitted'[j])
               PROVE  (Len(admitted'[j]) - i + 1) * Period[j] + Level(j)'
                          <= Allowance(j, admitted'[j][i], new)
    BY <1>3 DEF Potential, Here, Allowance, Full
  <2>1. CASE j = k
    BY <1>7, <1>10, <2>1
  <2>2. CASE j # k
    BY <1>0, <1>6, <2>2 DEF Potential, Here
  <2>. QED BY <2>1, <2>2
<1>12. WindowBound'
  <2> SUFFICES ASSUME NEW j \in Key, NEW b \in 1..Len(admitted'[j]), NEW i \in 1..b
               PROVE  (b - i + 1) * Period[j] <= Allowance(j, admitted'[j][i], admitted'[j][b])
    BY DEF WindowBound, Allowance, Full
  <2>1. CASE j # k
    BY <1>0, <1>6, <2>1 DEF WindowBound
  <2>2. CASE j = k /\ b \in 1..n
    <3>1. i \in 1..n
      BY <1>2, <2>2
    <3>. QED BY <1>0, <1>7, <2>2, <3>1 DEF WindowBound
  <2>3. CASE j = k /\ b = n + 1
    <3>0. i \in 1..(n + 1)
      BY <1>2, <2>3
    <3>1. (b - i + 1) * p + Level(k)' <= Allowance(k, admitted'[k][i], new)
      BY <1>10, <2>3, <3>0
    <3>2. Level(k)' \in Nat
      BY <1>1, <1>3, <1>5
    <3>3. Allowance(k, admitted'[k][i], new) \in Int
      <4>1. admitted'[k][i] \in Call
        <5>1. CASE i = n + 1
          BY <1>2, <1>7, <5>1
        <5>2. CASE i # n + 1
          <6>1. i \in 1..n
            BY <1>2, <3>0, <5>2
          <6>. QED BY <1>7, <6>1
        <5>. QED BY <5>1, <5>2
      <4>. QED BY <1>2, <4>1, AllowanceInt
    <3>4. (b - i + 1) * p \in Int
      <4>1. b - i + 1 \in Int
        BY <1>2, <2>3
      <4>. QED BY <1>1, <4>1
    <3>. QED BY <1>7, <2>3, <3>1, <3>2, <3>3, <3>4
  <2>. QED BY <1>2, <1>7, <2>1, <2>2, <2>3
<1>13. Promised'
  <2>1. promise'[k] = NoPromise
    BY <1>0, <1>3 DEF TypeOK
  <2>. QED BY <1>0, <1>3, <1>6, <2>1 DEF Promised
<1>. QED BY <1>4, <1>11, <1>12, <1>13 DEF IInv

-----------------------------------------------------------------------------
\* A step that touches no history and lets every bucket's level and allowance
\* grow alike keeps Potential and WindowBound.
LEMMA RefuseIInv == ASSUME IInv, NEW k \in Key, Refuse(k) PROVE IInv'
<1>0. TypeOK /\ Potential /\ WindowBound /\ Promised
  BY DEF IInv
<1>1. Level(k) \in Nat /\ Level(k) <= Full(k) /\ Full(k) \in Nat /\ Period[k] \in Nat
  BY <1>0, LevelBounds, FullNat, RateLimitAssumption
<1>2. /\ bucket' = [bucket EXCEPT ![k] = [tokens |-> Level(k), last |-> now]]
      /\ promise' = [promise EXCEPT ![k] = now + (Period[k] - Level(k))]
      /\ now' = now /\ sweeps' = sweeps /\ due' = due /\ admitted' = admitted
      /\ Level(k) < Period[k]
  BY DEF Refuse, Kept
<1>3. now \in Nat
  BY <1>0 DEF TypeOK
<1>4. [tokens |-> Level(k), last |-> now] \in Bucket
  BY <1>1, <1>3 DEF Bucket
<1>5. bucket'[k] = [tokens |-> Level(k), last |-> now] /\ bucket'[k] # NoBucket
  BY <1>0, <1>2, <1>4, RateLimitAssumption DEF TypeOK, Bucket
<1>6. \A j \in Key : Level(j)' = Level(j)
  <2> TAKE j \in Key
  <2>1. CASE j = k
    <3>1. bucket'[k].tokens + (now - bucket'[k].last) = Level(k)
      BY <1>1, <1>3, <1>5
    <3>. QED BY <1>1, <1>2, <1>5, <2>1, <3>1 DEF Level, Least, Full
  <2>2. CASE j # k
    BY <1>0, <1>2, <2>2 DEF TypeOK, Level, Full
  <2>. QED BY <2>1, <2>2
<1>7. TypeOK'
  <2>1. bucket' \in [Key -> Bucket \cup {NoBucket}]
    BY <1>0, <1>2, <1>4 DEF TypeOK
  <2>2. \A j \in Key : bucket'[j] # NoBucket =>
           bucket'[j].tokens <= Full(j) /\ bucket'[j].last <= now
    BY <1>0, <1>1, <1>2, <1>3 DEF TypeOK
  <2>3. promise' \in [Key -> Nat \cup {NoPromise}]
    <3>1. now + (Period[k] - Level(k)) \in Nat
      BY <1>1, <1>2, <1>3
    <3>. QED BY <1>0, <1>2, <3>1 DEF TypeOK
  <2>. QED BY <1>0, <1>2, <2>1, <2>2, <2>3 DEF TypeOK, Full
<1>8. Potential' /\ WindowBound'
  BY <1>0, <1>2, <1>6 DEF Potential, WindowBound, Allowance, Full, Here
<1>9. Promised'
  <2> SUFFICES ASSUME NEW j \in Key, promise'[j] # NoPromise
               PROVE  Level(j) >= Period[j] \/ Level(j) + (promise'[j] - now) >= Period[j]
    BY <1>2, <1>6 DEF Promised
  <2>1. CASE j # k
    BY <1>0, <1>2, <2>1 DEF Promised, TypeOK
  <2>2. CASE j = k
    <3>1. promise'[k] = now + (Period[k] - Level(k))
      BY <1>0, <1>2 DEF TypeOK
    <3>. QED BY <1>1, <1>2, <1>3, <2>2, <3>1
  <2>. QED BY <2>1, <2>2
<1>. QED BY <1>7, <1>8, <1>9 DEF IInv

LEMMA SweepIInv == ASSUME IInv, Sweep PROVE IInv'
<1>0. TypeOK /\ Potential /\ WindowBound /\ Promised
  BY DEF IInv
<1>1. /\ bucket' = [k \in Key |-> IF Drops(k) THEN NoBucket ELSE bucket[k]]
      /\ now' = now /\ sweeps' = sweeps + 1 /\ due' = due + SweepEvery
      /\ admitted' = admitted /\ promise' = promise
  BY DEF Sweep
<1>2. now \in Nat /\ sweeps \in Nat /\ due \in Nat /\ SweepEvery \in Nat
  BY <1>0, RateLimitAssumption DEF TypeOK
<1>3. TypeOK'
  <2>1. bucket' \in [Key -> Bucket \cup {NoBucket}]
    BY <1>0, <1>1 DEF TypeOK
  <2>2. \A j \in Key : bucket'[j] # NoBucket =>
           bucket'[j].tokens <= Full(j) /\ bucket'[j].last <= now
    BY <1>0, <1>1 DEF TypeOK
  <2>. QED BY <1>0, <1>1, <1>2, <2>1, <2>2 DEF TypeOK, Full
<1>4. ASSUME NEW k \in Key
      PROVE  /\ Level(k) \in Nat /\ Level(k)' \in Nat /\ Full(k) \in Nat
             /\ Level(k) <= Level(k)' /\ Level(k)' <= Full(k)
             /\ k \notin Colon => Level(k)' = Level(k)
  <2>1. Level(k) \in Nat /\ Level(k) <= Full(k) /\ Full(k) \in Nat
    BY <1>0, LevelBounds, FullNat
  <2>2. CASE Drops(k)
    <3>1. Level(k)' = Full(k)
      BY <1>1, <2>2 DEF Level, Full
    <3>2. k \notin Colon => Level(k) = Full(k)
      <4>1. k \notin Colon => bucket[k].tokens >= Full(k) /\ bucket[k] # NoBucket
        BY <2>2 DEF Drops
      <4>2. bucket[k] \in Bucket /\ bucket[k].last <= now
        BY <1>0, <2>2 DEF TypeOK, Drops
      <4>. QED BY <1>2, <2>1, <4>1, <4>2 DEF Level, Least, Bucket
    <3>. QED BY <2>1, <3>1, <3>2
  <2>3. CASE ~Drops(k)
    BY <1>1, <2>1, <2>3 DEF Level, Full
  <2>. QED BY <2>2, <2>3
<1>5. Potential'
  <2> SUFFICES ASSUME NEW k \in Key, NEW i \in 1..Len(admitted[k])
               PROVE  (Len(admitted[k]) - i + 1) * Period[k] + Level(k)'
                          <= Allowance(k, admitted[k][i], Here')
    BY <1>1 DEF Potential, Allowance, Full
  <2> DEFINE used == (Len(admitted[k]) - i + 1) * Period[k]
             first == admitted[k][i]
  <2>1. used + Level(k) <= Allowance(k, first, Here)
    BY <1>0 DEF Potential
  <2>2. admitted[k] \in Seq(Call) /\ first \in Call
    BY <1>0 DEF TypeOK
  <2>3. Here \in Call /\ Here' = [at |-> now, sweeps |-> sweeps + 1] /\ Here' \in Call
    BY <1>1, <1>2 DEF Here, Call
  <2>4. Allowance(k, first, Here) \in Int
    BY <2>2, <2>3, AllowanceInt
  <2>5. used \in Int
    <3>1. Len(admitted[k]) - i + 1 \in Int /\ Period[k] \in Int
      BY <2>2, RateLimitAssumption
    <3>. QED BY <3>1
  <2>6. CASE k \notin Colon
    <3>1. Allowance(k, first, Here') = Allowance(k, first, Here)
      BY <2>3, <2>6 DEF Allowance, Here
    <3>. QED BY <1>4, <2>1, <2>6, <3>1
  <2>7. CASE k \in Colon
    <3>1. Allowance(k, first, Here') = Allowance(k, first, Here) + Full(k)
      BY <1>2, <2>2, <2>3, <2>7, AllowanceAfterSweep DEF Here
    <3>. QED BY <1>4, <2>1, <2>4, <2>5, <3>1
  <2>. QED BY <2>6, <2>7
<1>6. WindowBound'
  BY <1>0, <1>1 DEF WindowBound, Allowance, Full
<1>7. Promised'
  <2> SUFFICES ASSUME NEW k \in Key, promise[k] # NoPromise
               PROVE  Level(k)' >= Period[k] \/ Level(k)' + (promise[k] - now) >= Period[k]
    BY <1>1 DEF Promised
  <2>1. Level(k) >= Period[k] \/ Level(k) + (promise[k] - now) >= Period[k]
    BY <1>0 DEF Promised
  <2>2. Period[k] \in Nat /\ promise[k] \in Nat
    BY <1>0, RateLimitAssumption DEF TypeOK
  <2>. QED BY <1>2, <1>4, <2>1, <2>2
<1>. QED BY <1>3, <1>5, <1>6, <1>7 DEF IInv

LEMMA TickIInv == ASSUME IInv, Tick PROVE IInv'
<1>0. TypeOK /\ Potential /\ WindowBound /\ Promised
  BY DEF IInv
<1>1. /\ now' = now + 1 /\ bucket' = bucket /\ sweeps' = sweeps /\ due' = due
      /\ admitted' = admitted /\ promise' = promise
  BY DEF Tick
<1>2. now \in Nat /\ sweeps \in Nat
  BY <1>0 DEF TypeOK
<1>3. TypeOK'
  <2>1. \A k \in Key : bucket[k] # NoBucket => bucket[k].last <= now + 1
    BY <1>0, <1>2 DEF TypeOK, Bucket
  <2>. QED BY <1>0, <1>1, <2>1 DEF TypeOK, Full
<1>4. ASSUME NEW k \in Key
      PROVE  /\ Level(k) \in Nat /\ Level(k)' \in Nat /\ Level(k)' <= Level(k) + 1
             /\ Level(k)' = Least(Full(k), Level(k) + 1)
  <2>1. Level(k) \in Nat /\ Level(k) <= Full(k) /\ Full(k) \in Nat
    BY <1>0, LevelBounds, FullNat
  <2>2. CASE bucket[k] = NoBucket
    BY <1>1, <2>1, <2>2 DEF Level, Full, Least
  <2>3. CASE bucket[k] # NoBucket
    <3>1. bucket[k].tokens \in Nat /\ bucket[k].last \in Nat /\ bucket[k].last <= now
      BY <1>0, <2>3 DEF TypeOK, Bucket
    <3>2. Level(k) = Least(Full(k), bucket[k].tokens + (now - bucket[k].last))
      BY <2>3 DEF Level
    <3>3. Level(k)' = Least(Full(k), bucket[k].tokens + (now + 1 - bucket[k].last))
      <4>1. Level(k)' = Least(Full(k), bucket[k].tokens + (now' - bucket[k].last))
        <5>1. Full(k)' = Full(k) /\ bucket'[k] = bucket[k] /\ bucket'[k] # NoBucket
          BY <1>1, <2>3 DEF Full
        <5>. QED BY <5>1 DEF Level, Least
      <4>. QED BY <1>1, <1>2, <3>1, <4>1 DEF Least
    <3>. QED BY <1>2, <2>1, <3>1, <3>2, <3>3 DEF Least
  <2>. QED BY <2>2, <2>3
<1>5. Potential'
  <2> SUFFICES ASSUME NEW k \in Key, NEW i \in 1..Len(admitted[k])
               PROVE  (Len(admitted[k]) - i + 1) * Period[k] + Level(k)'
                          <= Allowance(k, admitted[k][i], Here')
    BY <1>1 DEF Potential, Allowance, Full
  <2> DEFINE used == (Len(admitted[k]) - i + 1) * Period[k]
             first == admitted[k][i]
  <2>1. used + Level(k) <= Allowance(k, first, Here)
    BY <1>0 DEF Potential
  <2>2. admitted[k] \in Seq(Call) /\ first \in Call
    BY <1>0 DEF TypeOK
  <2>3. Here \in Call /\ Here' = [at |-> now + 1, sweeps |-> sweeps]
    BY <1>1, <1>2 DEF Here, Call
  <2>4. Allowance(k, first, Here) \in Int
    BY <2>2, <2>3, AllowanceInt
  <2>5. used \in Int
    <3>1. Len(admitted[k]) - i + 1 \in Int /\ Period[k] \in Int
      BY <2>2, RateLimitAssumption
    <3>. QED BY <3>1
  <2>6. Allowance(k, first, Here') = Allowance(k, first, Here) + 1
    BY <1>2, <2>2, <2>3, AllowanceAfterTick DEF Here
  <2>. QED BY <1>4, <2>1, <2>4, <2>5, <2>6
<1>6. WindowBound'
  BY <1>0, <1>1 DEF WindowBound, Allowance, Full
<1>7. Promised'
  <2> SUFFICES ASSUME NEW k \in Key, promise[k] # NoPromise
               PROVE  Level(k)' >= Period[k] \/ Level(k)' + (promise[k] - (now + 1)) >= Period[k]
    BY <1>1 DEF Promised
  <2>1. Level(k) >= Period[k] \/ Level(k) + (promise[k] - now) >= Period[k]
    BY <1>0 DEF Promised
  <2>2. Period[k] \in Nat \ {0} /\ Capacity[k] \in Nat \ {0} /\ promise[k] \in Nat
    BY <1>0, RateLimitAssumption DEF TypeOK
  <2>3. Full(k) >= Period[k] /\ Full(k) \in Nat
    <3>1. \A c, p \in Nat \ {0} : c * p >= p
      BY Z3
    <3>. QED BY <2>2, <3>1, FullNat DEF Full
  <2>. QED BY <1>2, <1>4, <2>1, <2>2, <2>3 DEF Least
<1>. QED BY <1>3, <1>5, <1>6, <1>7 DEF IInv

LEMMA StutterIInv == ASSUME IInv, UNCHANGED vars PROVE IInv'
<1>1. \A k \in Key : Level(k)' = Level(k)
  BY DEF vars, Level, Full
<1>. QED BY <1>1 DEF IInv, TypeOK, Potential, WindowBound, Promised, Allowance, Full, Here, vars

LEMMA SpecIInv == Spec => []IInv
<1>1. IInv /\ [Next]_vars => IInv'
  BY AdmitIInv, RefuseIInv, SweepIInv, TickIInv, StutterIInv DEF Next
<1>. QED BY <1>1, InitIInv, PTL DEF Spec

-----------------------------------------------------------------------------
\* For any keys and limits: buckets are never overfull, and every variable has
\* its type, under any interleaving of calls, sweeps and the clock.
THEOREM RateLimitTypes == Spec => []TypeOK
<1>1. IInv => TypeOK
  BY DEF IInv
<1>. QED BY <1>1, SpecIInv, PTL

\* consume of ratelimit.ts, for any keys and limits: no window of calls exceeds
\* a burst and the refill, plus one burst per sweep for the routes whose name
\* has a colon.
THEOREM RateLimitWindows == Spec => []WindowBound
<1>1. IInv => WindowBound
  BY DEF IInv
<1>. QED BY <1>1, SpecIInv, PTL

\* retryMs, for any keys and limits: a caller who waits as long as it was told
\* finds a token, unless another call of its key took it.
THEOREM RateLimitRetries == Spec => []RetryHonest
<1>1. IInv => RetryHonest
  <2> SUFFICES ASSUME IInv, NEW k \in Key, promise[k] # NoPromise, now >= promise[k]
               PROVE  Level(k) >= Period[k]
    BY DEF RetryHonest
  <2>1. TypeOK /\ Promised
    BY DEF IInv
  <2>2. Level(k) \in Nat /\ Period[k] \in Nat /\ promise[k] \in Nat /\ now \in Nat
    BY <2>1, LevelBounds, RateLimitAssumption DEF TypeOK
  <2>. QED BY <2>1, <2>2 DEF Promised
<1>. QED BY <1>1, SpecIInv, PTL
=============================================================================
