---------------------------- MODULE SeasonProofs ----------------------------
(***************************************************************************)
(* Types, OnePlanPaid, ReceiptsTrue and PrizesFollowRank for any players,  *)
(* runs of the script and split.                                           *)
(*                                                                         *)
(* Sums over functions first: the library's fold has some solution         *)
(* (SumsExist) and does not depend on the order of its choices (SumAny).   *)
(* Then ranks: they grow down the board (RankGrows), so what a list pays   *)
(* is covered, tier by tier, by the headline total (HeadlineCovers).       *)
(* IInv then says of each run that its plan is the one its board and       *)
(* counts give (RunOK), and of the wallets that they are empty before the  *)
(* lock closes and the plan of the run that closed it afterwards           *)
(* (Wallets).                                                              *)
(***************************************************************************)
EXTENDS Season, FiniteSetTheorems, SequenceTheorems, WellFoundedInduction, TLAPS

\* A family of subsets of a finite set has a member with no other inside.
LEMMA SmallestSubset ==
    ASSUME NEW S, IsFiniteSet(S), NEW T, T \subseteq SUBSET S, T # {}
    PROVE  \E s \in T : \A t \in T : t \subseteq s => t = s
<1> DEFINE R == StrictSubsetOrdering(S)  F == FiniteSubsetsOf(S)
<1>1. IsWellFoundedOn(R, F) /\ F = SUBSET S
  BY FS_StrictSubsetOrderingWellFounded, FS_FiniteSubsetsOfFinite
<1>2. \A s, t \in SUBSET S : t \subseteq s /\ t # s => <<t, s>> \in R
  BY DEF StrictSubsetOrdering
<1> HIDE DEF R, F
<1>3. PICK s \in T : \A t \in T : ~ (<<t, s>> \in R)
  BY <1>1, WFMin
<1>. QED BY <1>2, <1>3

\* Induction over the subsets of a finite set.
LEMMA SubsetInduct ==
    ASSUME NEW S, IsFiniteSet(S), NEW T, {} \in T,
           \A s \in SUBSET S : \A x \in S \ s : s \in T => s \cup {x} \in T
    PROVE  SUBSET S \subseteq T
<1> SUFFICES ASSUME (SUBSET S) \ T # {} PROVE FALSE
  OBVIOUS
<1> DEFINE U == (SUBSET S) \ T
<1>1. PICK s \in U : \A t \in U : t \subseteq s => t = s
  <2>1. U \subseteq SUBSET S /\ U # {}
    OBVIOUS
  <2> HIDE DEF U
  <2>. QED BY <2>1, SmallestSubset
<1>2. PICK x \in s : TRUE
  OBVIOUS
<1>3. s \ {x} \in T
  BY <1>1, <1>2
<1>4. s = (s \ {x}) \cup {x} /\ s \ {x} \in SUBSET S /\ x \in S \ (s \ {x})
  BY <1>1, <1>2
<1>. QED BY <1>1, <1>3, <1>4

\* The fold of SumFunctionOnSet.
Pick(s) == CHOOSE x \in s : TRUE
Sums(g, f, D) == g = [s \in D |-> IF s = {} THEN 0 ELSE f[Pick(s)] + g[s \ {Pick(s)}]]

LEMMA SumIsSolution ==
    ASSUME NEW S, NEW f
    PROVE  SumFunctionOnSet(f, S) = (CHOOSE g : Sums(g, f, SUBSET S))[S]
BY DEF SumFunctionOnSet, FoldFunctionOnSet, MapThenFoldSet, Sums, Pick
\* A set of naturals that is not empty has a least member.
LEMMA NatMin == ASSUME NEW T, T \subseteq Nat, T # {}
                PROVE  \E n \in T : \A m \in T : n <= m
<1> DEFINE R == {ss \in Nat \X Nat : ss[1] < ss[2]}
<1>1. IsWellFoundedOn(R, Nat)
  BY NatLessThanWellFounded DEF OpToRel
<1>2. \E n \in T : \A m \in T : ~ (<<m, n>> \in R)
  BY <1>1, WFMin
<1>3. \A n, m \in Nat : <<m, n>> \in R <=> m < n
  OBVIOUS
<1> HIDE DEF R
<1>4. PICK n \in T : \A m \in T : ~ (<<m, n>> \in R)
  BY <1>2
<1>5. \A m \in T : ~ (m < n)
  BY <1>3, <1>4
<1>. QED BY <1>5

\* A set with 0 and every successor of its members has every natural.
LEMMA Induct == ASSUME NEW T, 0 \in T, \A n \in Nat : n \in T => n + 1 \in T
                PROVE  Nat \subseteq T
<1> SUFFICES ASSUME Nat \ T # {} PROVE FALSE
  OBVIOUS
<1>1. PICK n \in Nat \ T : \A m \in Nat \ T : n <= m
  BY NatMin
<1>2. n # 0 /\ n - 1 \in Nat
  OBVIOUS
<1>3. n - 1 \in T
  BY <1>1, <1>2
<1>4. (n - 1) + 1 = n
  BY <1>2
<1>. QED BY <1>2, <1>3, <1>4

\* Two solutions agree where both are defined.
LEMMA SumsAgree ==
    ASSUME NEW S, IsFiniteSet(S), NEW R, S \subseteq R, NEW f, NEW g, NEW h,
           Sums(g, f, SUBSET S), Sums(h, f, SUBSET R)
    PROVE  \A s \in SUBSET S : g[s] = h[s]
<1> DEFINE T == {s \in SUBSET S : g[s] # h[s]}
<1> SUFFICES ASSUME T # {} PROVE FALSE
  OBVIOUS
<1>1. PICK s \in T : \A t \in T : t \subseteq s => t = s
  <2>1. T \subseteq SUBSET S
    OBVIOUS
  <2> HIDE DEF T
  <2>. QED BY <2>1, SmallestSubset
<1>2. /\ g[s] = IF s = {} THEN 0 ELSE f[Pick(s)] + g[s \ {Pick(s)}]
      /\ h[s] = IF s = {} THEN 0 ELSE f[Pick(s)] + h[s \ {Pick(s)}]
  BY DEF Sums
<1>3. s # {}
  BY <1>2
<1>4. Pick(s) \in s
  BY <1>3 DEF Pick
<1>5. g[s \ {Pick(s)}] # h[s \ {Pick(s)}]
  BY <1>2, <1>3
<1>. QED BY <1>1, <1>4, <1>5

LEMMA SumsExist ==
    ASSUME NEW S, IsFiniteSet(S), NEW f
    PROVE  \E g : Sums(g, f, SUBSET S)
<1> DEFINE D(n) == {s \in SUBSET S : Cardinality(s) <= n}
           F(g, n) == [s \in D(n) |-> IF s = {} THEN 0 ELSE f[Pick(s)] + g[s \ {Pick(s)}]]
           T == {n \in Nat : \E g : Sums(g, f, D(n))}
<1>1. \A s \in SUBSET S : IsFiniteSet(s) /\ Cardinality(s) \in Nat
  BY FS_Subset, FS_CardinalityType
<1>2. ASSUME NEW n \in Nat, NEW s \in D(n + 1), s # {} PROVE s \ {Pick(s)} \in D(n)
  <2>1. Pick(s) \in s
    BY <1>2 DEF Pick
  <2>2. Cardinality(s \ {Pick(s)}) = Cardinality(s) - 1
    BY <1>1, <2>1, FS_RemoveElement
  <2>. QED BY <1>1, <2>2
<1>3. \A n \in Nat : D(n) \subseteq D(n + 1)
  BY <1>1
<1>4. 0 \in T
  <2>1. D(0) \subseteq {{}}
    BY <1>1, FS_EmptySet
  <2> HIDE DEF D
  <2>2. Sums(F(0, 0), f, D(0))
    BY <2>1 DEF Sums
  <2>. QED BY <2>2
<1>5. ASSUME NEW n \in Nat, n \in T PROVE n + 1 \in T
  <2>1. PICK g : Sums(g, f, D(n))
    BY <1>5
  <2> HIDE DEF D
  <2> DEFINE h == F(g, n + 1)  k == F(h, n + 1)
  <2>2. ASSUME NEW s \in D(n + 1), s # {} PROVE h[s \ {Pick(s)}] = g[s \ {Pick(s)}]
    <3> DEFINE t == s \ {Pick(s)}
    <3>1. t \in D(n) /\ t \in D(n + 1)
      BY <1>2, <1>3, <2>2
    <3> HIDE DEF t
    <3>2. h[t] = IF t = {} THEN 0 ELSE f[Pick(t)] + g[t \ {Pick(t)}]
      BY <3>1
    <3>3. g[t] = IF t = {} THEN 0 ELSE f[Pick(t)] + g[t \ {Pick(t)}]
      BY <2>1, <3>1 DEF Sums
    <3> HIDE DEF h
    <3>. QED BY <3>2, <3>3 DEF t
  <2>3. \A s \in D(n + 1) : h[s] = IF s = {} THEN 0 ELSE f[Pick(s)] + g[s \ {Pick(s)}]
    OBVIOUS
  <2>4. \A s \in D(n + 1) : k[s] = IF s = {} THEN 0 ELSE f[Pick(s)] + h[s \ {Pick(s)}]
    <3> HIDE DEF h
    <3>. QED OBVIOUS
  <2>5. h = [s \in D(n + 1) |-> h[s]]
    OBVIOUS
  <2>6. k = [s \in D(n + 1) |-> k[s]]
    <3> HIDE DEF h
    <3>. QED OBVIOUS
  <2>7. h = k
    <3> HIDE DEF h, k
    <3>1. \A s \in D(n + 1) : h[s] = k[s]
      BY <2>2, <2>3, <2>4
    <3>2. [s \in D(n + 1) |-> h[s]] = [s \in D(n + 1) |-> k[s]]
      BY <3>1
    <3>. QED BY <2>5, <2>6, <3>2, Zenon
  <2>8. Sums(h, f, D(n + 1))
    <3> HIDE DEF h
    <3>. QED BY <2>7 DEF Sums
  <2> HIDE DEF h
  <2>. QED BY <2>8
<1>6. Nat \subseteq T
  <2> HIDE DEF T
  <2>. QED BY <1>4, <1>5, Induct
<1>7. \A s \in SUBSET S : Cardinality(s) <= Cardinality(S)
  BY FS_Subset
<1>8. D(Cardinality(S)) = SUBSET S /\ Cardinality(S) \in Nat
  BY <1>1, <1>7
<1> HIDE DEF D
<1>. QED BY <1>6, <1>8

\* The sum of f over S: one member and the rest.
LEMMA SumPicked ==
    ASSUME NEW S, IsFiniteSet(S), NEW f
    PROVE  SumFunctionOnSet(f, S) =
             IF S = {} THEN 0 ELSE f[Pick(S)] + SumFunctionOnSet(f, S \ {Pick(S)})
<1> DEFINE R == S \ {Pick(S)}
<1>1. IsFiniteSet(R) /\ R \subseteq S
  BY FS_RemoveElement
<1> HIDE DEF R
<1>2. PICK g : Sums(g, f, SUBSET S) /\ SumFunctionOnSet(f, S) = g[S]
  BY SumsExist, SumIsSolution
<1>3. PICK h : Sums(h, f, SUBSET R) /\ SumFunctionOnSet(f, R) = h[R]
  BY <1>1, SumsExist, SumIsSolution
<1>4. \A s \in SUBSET R : h[s] = g[s]
  <2>1. IsFiniteSet(R)
    BY <1>1
  <2>2. R \subseteq S
    BY <1>1
  <2>3. Sums(h, f, SUBSET R)
    BY <1>3
  <2>4. Sums(g, f, SUBSET S)
    BY <1>2
  <2>. QED BY ONLY <2>1, <2>2, <2>3, <2>4, SumsAgree
<1>5. g[S] = IF S = {} THEN 0 ELSE f[Pick(S)] + g[S \ {Pick(S)}]
  BY <1>2 DEF Sums
<1>. QED BY <1>2, <1>3, <1>4, <1>5 DEF R
LEMMA SumNat ==
    ASSUME NEW S, IsFiniteSet(S), NEW f, \A x \in S : f[x] \in Nat
    PROVE  \A s \in SUBSET S : SumFunctionOnSet(f, s) \in Nat
<1> DEFINE T == {s \in SUBSET S : SumFunctionOnSet(f, s) \notin Nat}
<1> SUFFICES ASSUME T # {} PROVE FALSE
  OBVIOUS
<1>1. PICK s \in T : \A t \in T : t \subseteq s => t = s
  <2>1. T \subseteq SUBSET S
    OBVIOUS
  <2> HIDE DEF T
  <2>. QED BY <2>1, SmallestSubset
<1>2. IsFiniteSet(s)
  BY FS_Subset
<1>3. SumFunctionOnSet(f, s) = IF s = {} THEN 0 ELSE f[Pick(s)] + SumFunctionOnSet(f, s \ {Pick(s)})
  BY <1>2, SumPicked
<1>4. s # {}
  BY <1>3
<1>5. Pick(s) \in s
  BY <1>4 DEF Pick
<1>6. s \ {Pick(s)} \notin T
  BY <1>1, <1>5
<1>. QED BY <1>3, <1>4, <1>5, <1>6

\* ... any member and the rest.
LEMMA SumAny ==
    ASSUME NEW S, IsFiniteSet(S), NEW f, \A x \in S : f[x] \in Nat
    PROVE  \A s \in SUBSET S : \A x \in s :
              SumFunctionOnSet(f, s) = f[x] + SumFunctionOnSet(f, s \ {x})
<1> DEFINE T == {s \in SUBSET S : \E x \in s :
                    SumFunctionOnSet(f, s) # f[x] + SumFunctionOnSet(f, s \ {x})}
<1> SUFFICES ASSUME T # {} PROVE FALSE
  OBVIOUS
<1>1. PICK s \in T : \A t \in T : t \subseteq s => t = s
  <2>1. T \subseteq SUBSET S
    OBVIOUS
  <2> HIDE DEF T
  <2>. QED BY <2>1, SmallestSubset
<1>2. PICK x \in s : SumFunctionOnSet(f, s) # f[x] + SumFunctionOnSet(f, s \ {x})
  OBVIOUS
<1>3. IsFiniteSet(s)
  BY FS_Subset
<1> DEFINE c == Pick(s)
<1>4. c \in s
  BY <1>2 DEF Pick
<1>5. SumFunctionOnSet(f, s) = f[c] + SumFunctionOnSet(f, s \ {c})
  BY <1>2, <1>3, SumPicked
<1>6. x # c
  BY <1>2, <1>5
<1> HIDE DEF c
<1>7. ASSUME NEW t \in SUBSET S, NEW y \in t, t \subseteq s, t # s
      PROVE  SumFunctionOnSet(f, t) = f[y] + SumFunctionOnSet(f, t \ {y})
  <2>1. t \notin T
    <3> HIDE DEF T
    <3>. QED BY <1>1, <1>7
  <2>. QED BY <2>1
<1> HIDE DEF T
<1>8. SumFunctionOnSet(f, s \ {c}) = f[x] + SumFunctionOnSet(f, (s \ {c}) \ {x})
  BY <1>1, <1>2, <1>4, <1>6, <1>7 DEF T
<1>9. SumFunctionOnSet(f, s \ {x}) = f[c] + SumFunctionOnSet(f, (s \ {x}) \ {c})
  BY <1>1, <1>2, <1>4, <1>6, <1>7 DEF T
<1>10. (s \ {x}) \ {c} = (s \ {c}) \ {x}
  OBVIOUS
<1> DEFINE u == (s \ {c}) \ {x}
<1>11. SumFunctionOnSet(f, u) \in Nat /\ f[x] \in Nat /\ f[c] \in Nat
  BY <1>1, <1>2, <1>4, SumNat DEF T
<1> HIDE DEF u
<1>12. SumFunctionOnSet(f, s) = f[c] + (f[x] + SumFunctionOnSet(f, u))
  BY <1>5, <1>8 DEF u
<1>13. SumFunctionOnSet(f, s \ {x}) = f[c] + SumFunctionOnSet(f, u)
  BY <1>9, <1>10 DEF u
<1>. QED BY <1>2, <1>11, <1>12, <1>13

LEMMA SumEmpty == \A f : SumFunctionOnSet(f, {}) = 0
BY SumPicked, FS_EmptySet

\* One more member.
LEMMA SumMore ==
    ASSUME NEW S, IsFiniteSet(S), NEW f, \A x \in S : f[x] \in Nat,
           NEW s \in SUBSET S, NEW x \in S \ s
    PROVE  SumFunctionOnSet(f, s \cup {x}) = f[x] + SumFunctionOnSet(f, s)
<1>1. s \cup {x} \in SUBSET S /\ x \in s \cup {x} /\ (s \cup {x}) \ {x} = s
  OBVIOUS
<1>. QED BY <1>1, SumAny

\* Members that count nothing sum up to nothing.
LEMMA SumZero ==
    ASSUME NEW S, IsFiniteSet(S), NEW f, \A x \in S : f[x] = 0
    PROVE  SumFunctionOnSet(f, S) = 0
<1> DEFINE T == {s \in SUBSET S : SumFunctionOnSet(f, s) = 0}
<1>1. {} \in T
  BY SumEmpty
<1>2. \A s \in SUBSET S : \A x \in S \ s : s \in T => s \cup {x} \in T
  BY SumMore
<1> HIDE DEF T
<1>3. SUBSET S \subseteq T
  BY <1>1, <1>2, SubsetInduct
<1>. QED BY <1>3 DEF T

\* Members of at most a each.
LEMMA SumAtMost ==
    ASSUME NEW S, IsFiniteSet(S), NEW f, NEW a \in Nat,
           \A x \in S : f[x] \in Nat /\ f[x] <= a
    PROVE  SumFunctionOnSet(f, S) <= a * Cardinality(S)
<1> DEFINE T == {s \in SUBSET S : SumFunctionOnSet(f, s) <= a * Cardinality(s)}
<1>1. {} \in T
  BY SumEmpty, FS_EmptySet
<1>2. ASSUME NEW s \in SUBSET S, NEW x \in S \ s, s \in T PROVE s \cup {x} \in T
  <2> DEFINE n == Cardinality(s)
  <2>1. IsFiniteSet(s) /\ n \in Nat
    BY FS_Subset, FS_CardinalityType
  <2>2. Cardinality(s \cup {x}) = n + 1
    BY <2>1, FS_AddElement
  <2>3. SumFunctionOnSet(f, s \cup {x}) = f[x] + SumFunctionOnSet(f, s)
    BY SumMore
  <2>4. SumFunctionOnSet(f, s) \in Nat /\ SumFunctionOnSet(f, s) <= a * n
    BY <1>2, SumNat
  <2> HIDE DEF n
  <2>5. a * (n + 1) = a * n + a /\ a * n \in Nat
    BY <2>1, Z3
  <2>6. f[x] + SumFunctionOnSet(f, s) <= a * (n + 1)
    BY <2>4, <2>5
  <2>. QED BY <2>2, <2>3, <2>6
<1> HIDE DEF T
<1>3. SUBSET S \subseteq T
  BY <1>1, <1>2, SubsetInduct
<1>. QED BY <1>3 DEF T

\* A set in two parts.
LEMMA SumParts ==
    ASSUME NEW S, IsFiniteSet(S), NEW f, \A x \in S : f[x] \in Nat, NEW R \in SUBSET S
    PROVE  SumFunctionOnSet(f, S) = SumFunctionOnSet(f, R) + SumFunctionOnSet(f, S \ R)
<1> DEFINE Sum(s) == SumFunctionOnSet(f, s)
           T == {s \in SUBSET S : Sum(s) = Sum(s \cap R) + Sum(s \ R)}
<1>1. {} \in T
  <2>1. {} \cap R = {} /\ {} \ R = {}
    OBVIOUS
  <2>. QED BY <2>1, SumEmpty
<1>2. ASSUME NEW s \in SUBSET S, NEW x \in S \ s, s \in T PROVE s \cup {x} \in T
  <2>1. Sum(s \cup {x}) = f[x] + Sum(s)
    BY SumMore
  <2>2. f[x] \in Nat /\ Sum(s \cap R) \in Nat /\ Sum(s \ R) \in Nat
    BY SumNat
  <2>3. CASE x \in R
    <3>1. (s \cup {x}) \cap R = (s \cap R) \cup {x} /\ (s \cup {x}) \ R = s \ R
      BY <2>3
    <3>2. Sum((s \cap R) \cup {x}) = f[x] + Sum(s \cap R)
      BY SumMore
    <3> HIDE DEF Sum
    <3>3. Sum((s \cup {x}) \cap R) + Sum((s \cup {x}) \ R) = f[x] + (Sum(s \cap R) + Sum(s \ R))
      <4>1. Sum((s \cup {x}) \cap R) = f[x] + Sum(s \cap R)
        BY <3>1, <3>2, Zenon
      <4>2. Sum((s \cup {x}) \ R) = Sum(s \ R)
        BY <3>1, Zenon
      <4>. QED BY <2>2, <4>1, <4>2
    <3>. QED BY <1>2, <2>1, <3>3
  <2>4. CASE x \notin R
    <3>1. (s \cup {x}) \cap R = s \cap R /\ (s \cup {x}) \ R = (s \ R) \cup {x}
      BY <2>4
    <3>2. Sum((s \ R) \cup {x}) = f[x] + Sum(s \ R)
      BY SumMore
    <3> HIDE DEF Sum
    <3>3. Sum((s \cup {x}) \cap R) + Sum((s \cup {x}) \ R) = f[x] + (Sum(s \cap R) + Sum(s \ R))
      <4>1. Sum((s \cup {x}) \cap R) = Sum(s \cap R)
        BY <3>1, Zenon
      <4>2. Sum((s \cup {x}) \ R) = f[x] + Sum(s \ R)
        BY <3>1, <3>2, Zenon
      <4>. QED BY <2>2, <4>1, <4>2
    <3>. QED BY <1>2, <2>1, <3>3
  <2>. QED BY <2>3, <2>4
<1> HIDE DEF T
<1>3. SUBSET S \subseteq T
  BY <1>1, <1>2, SubsetInduct
<1>4. S \cap R = R
  OBVIOUS
<1>. QED BY <1>3, <1>4 DEF T
-----------------------------------------------------------------------------
(* The split and the ranks.                                                  *)

LEMMA SplitTiers ==
    /\ Len(Split) \in Nat \ {0} /\ DOMAIN Split = 1..Len(Split) /\ IsFiniteSet(DOMAIN Split)
    /\ \A i \in DOMAIN Split :
          /\ Split[i].rankStart \in Nat /\ Split[i].rankEnd \in Nat /\ Split[i].amount \in Nat
          /\ Split[i].rankStart <= Split[i].rankEnd
<1>1. Split \in Seq(Tier) /\ Split # <<>>
  BY SeasonAssumption
<1>2. Len(Split) \in Nat /\ DOMAIN Split = 1..Len(Split) /\ Split \in [1..Len(Split) -> Tier]
  BY <1>1, LenProperties
<1>3. Len(Split) # 0
  BY <1>1, EmptySeq
<1>4. IsFiniteSet(1..Len(Split))
  BY <1>2, FS_Interval
<1>5. ASSUME NEW i \in DOMAIN Split
      PROVE  /\ Split[i].rankStart \in Nat /\ Split[i].rankEnd \in Nat /\ Split[i].amount \in Nat
             /\ Split[i].rankStart <= Split[i].rankEnd
  BY <1>2, SeasonAssumption DEF Tier
<1>. QED BY <1>2, <1>3, <1>4, <1>5

LEMMA MaxRankNat == maxRank \in Nat /\ \A i \in DOMAIN Split : Split[i].rankEnd <= maxRank
<1> DEFINE E == {Split[i].rankEnd : i \in DOMAIN Split}
           n == Len(Split)
           C(k) == \E m \in 1..k : \A i \in 1..k : Split[i].rankEnd <= Split[m].rankEnd
           T == {k \in Nat : k \in 1..n => C(k)}
<1>1. n \in Nat \ {0} /\ DOMAIN Split = 1..n
  BY SplitTiers
<1>2. \A i \in 1..n : Split[i].rankEnd \in Nat
  BY SplitTiers
<1>3. 0 \in T
  OBVIOUS
<1>4. ASSUME NEW k \in Nat, k \in T PROVE k + 1 \in T
  <2> SUFFICES ASSUME k + 1 \in 1..n PROVE C(k + 1)
    <3> HIDE DEF C
    <3>. QED OBVIOUS
  <2> HIDE DEF n
  <2>1. CASE k = 0
    BY <1>1, <1>2, <2>1
  <2>2. CASE k # 0
    <3>1. PICK m \in 1..k : \A i \in 1..k : Split[i].rankEnd <= Split[m].rankEnd
      BY <1>1, <1>4, <2>2
    <3>2. Split[m].rankEnd \in Nat /\ Split[k + 1].rankEnd \in Nat
      BY <1>1, <1>2, <3>1
    <3>3. \A i \in 1..(k + 1) : i \in 1..k \/ i = k + 1
      OBVIOUS
    <3>4. \A i \in 1..(k + 1) : Split[i].rankEnd \in Nat
      BY <1>1, <1>2
    <3>5. CASE Split[k + 1].rankEnd <= Split[m].rankEnd
      BY <3>1, <3>3, <3>5
    <3>6. CASE Split[m].rankEnd <= Split[k + 1].rankEnd
      <4>1. \A i \in 1..(k + 1) : Split[i].rankEnd <= Split[k + 1].rankEnd
        BY <3>1, <3>2, <3>3, <3>4, <3>6
      <4>. QED BY <4>1
    <3>. QED BY <3>2, <3>5, <3>6
  <2>. QED BY <2>1, <2>2
<1>5. n \in T
  <2> HIDE DEF T
  <2>. QED BY <1>1, <1>3, <1>4, Induct
<1>6. PICK m \in 1..n : \A i \in 1..n : Split[i].rankEnd <= Split[m].rankEnd
  BY <1>1, <1>5
<1>7. E \subseteq Nat /\ Split[m].rankEnd \in E /\ \A y \in E : Split[m].rankEnd >= y
  BY <1>1, <1>2, <1>6
<1>8. \E x \in E : \A y \in E : x >= y
  BY <1>7
<1>9. maxRank \in E /\ \A y \in E : maxRank >= y
  <2>1. maxRank = Max(E)
    BY DEF maxRank
  <2> HIDE DEF E
  <2>. QED BY <1>8, <2>1 DEF Max
<1>10. \A i \in DOMAIN Split : Split[i].rankEnd \in E
  OBVIOUS
<1> HIDE DEF E
<1>. QED BY <1>7, <1>9, <1>10

\* A rank without a prize is in no tier; else some tier that holds it sets it.
LEMMA PrizeOfTier ==
    ASSUME NEW n \in Nat
    PROVE  /\ prizeForRank(n) \in Nat
           /\ prizeForRank(n) > 0 => \E i \in DOMAIN Split :
                 /\ Split[i].rankStart <= n /\ n <= Split[i].rankEnd
                 /\ prizeForRank(n) = Split[i].amount
<1> DEFINE holds == {i \in DOMAIN Split : Split[i].rankStart <= n /\ n <= Split[i].rankEnd}
<1>1. CASE holds = {}
  BY <1>1 DEF prizeForRank
<1>2. CASE holds # {}
  <2>1. holds \subseteq Nat
    BY SplitTiers
  <2>2. Min(holds) \in holds
    <3> HIDE DEF holds
    <3>1. \E x \in holds : \A y \in holds : x <= y
      BY <1>2, <2>1, NatMin
    <3>. QED BY <3>1 DEF Min
  <2>3. prizeForRank(n) = Split[Min(holds)].amount
    BY <1>2 DEF prizeForRank
  <2>4. Min(holds) \in DOMAIN Split
    BY <2>2
  <2>5. prizeForRank(n) \in Nat
    BY <2>3, <2>4, SplitTiers
  <2>. QED BY <2>2, <2>3, <2>4, <2>5
<1>. QED BY <1>1, <1>2

\* A board names players, nobody twice.
Board(b) == b \in Seq(Player) /\ \A i, j \in DOMAIN b : b[i] = b[j] => i = j

LEMMA LeaderboardIsBoard ==
    ASSUME rating \in [Player -> 0..MaxRating]
    PROVE  \A b \in leaderboard : Board(b)
<1> DEFINE ranked == {p \in Player : rating[p] > 0}
           n == Cardinality(ranked)
           top == Min({BoardLimit, n})
<1> SUFFICES ASSUME NEW b \in leaderboard PROVE Board(b)
  OBVIOUS
<1>1. n \in Nat
  BY SeasonAssumption, FS_Subset, FS_CardinalityType
<1>2. PICK s \in SetToSeqs(ranked) : b = SubSeq(s, 1, top)
  BY DEF leaderboard
<1>3. s \in [1..n -> ranked] /\ \A i, j \in 1..n : i # j => s[i] # s[j]
  BY DEF SetToSeqs
<1>4. top \in Nat /\ top <= n
  <2>1. BoardLimit \in Nat
    BY SeasonAssumption
  <2> HIDE DEF n
  <2>2. {BoardLimit, n} \subseteq Nat /\ {BoardLimit, n} # {}
    BY <1>1, <2>1
  <2>3. \E x \in {BoardLimit, n} : \A y \in {BoardLimit, n} : x <= y
    BY <2>2, NatMin
  <2>4. top \in {BoardLimit, n} /\ \A y \in {BoardLimit, n} : top <= y
    BY <2>3 DEF Min
  <2>. QED BY <2>2, <2>4
<1> HIDE DEF top, n
<1>5. \A i \in 1..top : s[i] \in Player
  BY <1>1, <1>3, <1>4
<1>6. /\ b \in Seq(Player) /\ Len(b) = IF 1 <= top THEN top ELSE 0
      /\ \A i \in 1..top : b[i] = s[i]
  <2>1. /\ SubSeq(s, 1, top) \in Seq(Player)
        /\ Len(SubSeq(s, 1, top)) = IF 1 <= top THEN top - 1 + 1 ELSE 0
        /\ \A i \in 1..(top - 1 + 1) : SubSeq(s, 1, top)[i] = s[1 + i - 1]
    BY <1>4, <1>5, SubSeqProperties
  <2>2. top - 1 + 1 = top /\ \A i \in 1..top : 1 + i - 1 = i
    BY <1>4
  <2>. QED BY <1>2, <2>1, <2>2
<1>7. DOMAIN b = 1..top
  <2>1. DOMAIN b = 1..Len(b)
    BY <1>6, LenProperties
  <2>. QED BY <1>4, <1>6, <2>1
<1>. QED BY <1>1, <1>3, <1>4, <1>6, <1>7 DEF Board
\* The rank of position i.
Rank(b, c, i) == Cardinality(EligibleTo(b, c, i))

LEMMA RankGrows ==
    ASSUME NEW b, Board(b), NEW c
    PROVE  /\ \A i \in DOMAIN b : Rank(b, c, i) \in Nat
           /\ \A i, j \in DOMAIN b :
                 i < j /\ Eligible(c[b[j]]) => Rank(b, c, i) < Rank(b, c, j)
<1>1. DOMAIN b = 1..Len(b) /\ Len(b) \in Nat
  BY LenProperties DEF Board
<1>2. ASSUME NEW i \in DOMAIN b
      PROVE  IsFiniteSet(EligibleTo(b, c, i)) /\ Rank(b, c, i) \in Nat
  <2>1. IsFiniteSet(1..i) /\ EligibleTo(b, c, i) \in SUBSET (1..i)
    BY <1>1, FS_Interval DEF EligibleTo
  <2>. QED BY <2>1, FS_Subset, FS_CardinalityType DEF Rank
<1>3. ASSUME NEW i \in DOMAIN b, NEW j \in DOMAIN b, i < j, Eligible(c[b[j]])
      PROVE  Rank(b, c, i) < Rank(b, c, j)
  <2> DEFINE E == EligibleTo(b, c, i)  G == EligibleTo(b, c, j)
  <2>1. E \cup {j} \in SUBSET G /\ j \notin E
    BY <1>1, <1>3 DEF EligibleTo
  <2>2. IsFiniteSet(E) /\ IsFiniteSet(G) /\ Rank(b, c, i) = Cardinality(E)
          /\ Rank(b, c, j) = Cardinality(G)
    BY <1>2 DEF Rank
  <2> HIDE DEF E, G
  <2>3. Cardinality(E \cup {j}) = Cardinality(E) + 1
    BY <2>1, <2>2, FS_AddElement
  <2>4. Cardinality(E \cup {j}) <= Cardinality(G)
    BY <2>1, <2>2, FS_Subset
  <2>. QED BY <1>2, <2>2, <2>3, <2>4, FS_CardinalityType
<1>. QED BY <1>2, <1>3

LEMMA PrizeNat ==
    ASSUME NEW b, Board(b), NEW c, NEW i \in DOMAIN b
    PROVE  /\ Prize(b, c, i) \in Nat
           /\ Prize(b, c, i) > 0 => /\ Eligible(c[b[i]])
                                    /\ Prize(b, c, i) = prizeForRank(Rank(b, c, i))
BY RankGrows, PrizeOfTier DEF Prize, Rank

LEMMA WinnersAt ==
    ASSUME NEW b, Board(b), NEW c
    PROVE  /\ \A i \in DOMAIN b : b[i] \in Player /\ Winners(b, c)[b[i]] = Prize(b, c, i)
           /\ \A p \in Player : (\A i \in DOMAIN b : b[i] # p) => Winners(b, c)[p] = 0
           /\ Winners(b, c) \in [Player -> Nat]
<1>1. ASSUME NEW i \in DOMAIN b
      PROVE  b[i] \in Player /\ Winners(b, c)[b[i]] = Prize(b, c, i)
  <2>1. b[i] \in Player
    BY LenProperties DEF Board
  <2>2. b[i] \in Range(b)
    BY DEF Range
  <2>3. (CHOOSE j \in DOMAIN b : b[j] = b[i]) = i
    BY DEF Board
  <2>. QED BY <2>1, <2>2, <2>3 DEF Winners
<1>2. ASSUME NEW p \in Player, \A i \in DOMAIN b : b[i] # p PROVE Winners(b, c)[p] = 0
  BY <1>2 DEF Winners, Range
<1>3. Winners(b, c) \in [Player -> Nat]
  <2>1. \A p \in Player : Winners(b, c)[p] \in Nat
    BY <1>1, <1>2, PrizeNat
  <2>2. Winners(b, c) = [p \in Player |-> Winners(b, c)[p]]
    BY DEF Winners
  <2>. QED BY <2>1, <2>2, Zenon
<1>. QED BY <1>1, <1>2, <1>3

\* A split that never gives a lower rank more than a higher one.
PrizesDescend ==
    \A m, n \in Nat \ {0} : m <= n => prizeForRank(n) <= prizeForRank(m)

LEMMA HigherPaidMore ==
    ASSUME PrizesDescend, NEW b, Board(b), NEW c,
           NEW i \in DOMAIN b, NEW j \in DOMAIN b, i < j, Eligible(c[b[i]])
    PROVE  Winners(b, c)[b[j]] <= Winners(b, c)[b[i]]
<1> DEFINE m == Rank(b, c, i)  n == Rank(b, c, j)
<1> SUFFICES Prize(b, c, j) <= Prize(b, c, i)
  BY WinnersAt
<1>1. Prize(b, c, i) \in Nat /\ Prize(b, c, j) \in Nat
  BY PrizeNat
<1>2. CASE Prize(b, c, j) = 0
  BY <1>1, <1>2
<1>3. CASE Prize(b, c, j) > 0
  <2>1. Eligible(c[b[j]]) /\ Prize(b, c, j) = prizeForRank(n) /\ n <= maxRank
    BY <1>3, PrizeNat DEF Prize, Rank
  <2>2. m \in Nat /\ n \in Nat /\ m < n
    BY <2>1, RankGrows
  <2>3. i \in EligibleTo(b, c, i) /\ IsFiniteSet(EligibleTo(b, c, i))
    <3>1. i \in Nat \ {0}
      BY LenProperties DEF Board
    <3>2. IsFiniteSet(1..i) /\ EligibleTo(b, c, i) \in SUBSET (1..i)
      BY <3>1, FS_Interval DEF EligibleTo
    <3>. QED BY <3>1, <3>2, FS_Subset DEF EligibleTo
  <2>4. m # 0
    BY <2>3, FS_EmptySet DEF Rank
  <2>5. m <= maxRank
    <3> HIDE DEF m, n
    <3>. QED BY <2>1, <2>2, MaxRankNat
  <2>6. Prize(b, c, i) = prizeForRank(m)
    BY <2>5 DEF Prize, Rank
  <2>7. prizeForRank(n) <= prizeForRank(m)
    <3> HIDE DEF m, n
    <3>. QED BY <2>2, <2>4 DEF PrizesDescend
  <2>. QED BY <2>1, <2>6, <2>7
<1>. QED BY <1>1, <1>2, <1>3

-----------------------------------------------------------------------------
(* The headline total covers every list of winners.                          *)

Width(i) == Split[i].rankEnd - Split[i].rankStart + 1
Tiers == [i \in DOMAIN Split |-> Split[i].amount * Width(i)]

\* Players of distinct ranks, each paid what a tier in I that holds his rank
\* pays.
LEMMA TiersCover ==
    ASSUME NEW P, IsFiniteSet(P), NEW w, \A p \in P : w[p] \in Nat,
           NEW r, \A p \in P : r[p] \in Nat, \A p, q \in P : r[p] = r[q] => p = q,
           \A p \in P : \E i \in DOMAIN Split :
              /\ Split[i].rankStart <= r[p] /\ r[p] <= Split[i].rankEnd
              /\ w[p] = Split[i].amount
    PROVE  SumFunctionOnSet(w, P) <= SumFunctionOnSet(Tiers, DOMAIN Split)
<1> DEFINE In(p, i) == /\ Split[i].rankStart <= r[p] /\ r[p] <= Split[i].rankEnd
                       /\ w[p] = Split[i].amount
           Covered(I) == {Q \in SUBSET P : \A p \in Q : \E i \in I : In(p, i)}
           T == {I \in SUBSET DOMAIN Split : \A Q \in Covered(I) :
                    SumFunctionOnSet(w, Q) <= SumFunctionOnSet(Tiers, I)}
<1>1. {} \in T
  <2>1. \A Q \in Covered({}) : Q = {}
    OBVIOUS
  <2>2. SumFunctionOnSet(w, {}) = 0 /\ SumFunctionOnSet(Tiers, {}) = 0
    BY SumEmpty
  <2> HIDE DEF Covered
  <2>3. \A Q \in Covered({}) : SumFunctionOnSet(w, Q) = 0
    BY <2>1, <2>2, Zenon
  <2>. QED BY <2>2, <2>3
<1>2. \A i \in DOMAIN Split : Width(i) \in Nat /\ Tiers[i] \in Nat
  BY SplitTiers, Z3 DEF Width, Tiers
<1>3. ASSUME NEW I \in SUBSET DOMAIN Split, NEW i \in (DOMAIN Split) \ I, I \in T
      PROVE  I \cup {i} \in T
  <2> SUFFICES ASSUME NEW Q \in Covered(I \cup {i})
               PROVE  SumFunctionOnSet(w, Q) <= SumFunctionOnSet(Tiers, I \cup {i})
    <3> HIDE DEF Covered
    <3>. QED OBVIOUS
  <2> DEFINE A == {q \in Q : In(q, i)}  a == Split[i].amount
  <2>1. Q \in SUBSET P /\ A \in SUBSET Q /\ Q \ A \in Covered(I)
    OBVIOUS
  <2>2. IsFiniteSet(Q) /\ IsFiniteSet(A) /\ Cardinality(A) \in Nat
    <3> HIDE DEF A
    <3>. QED BY <2>1, FS_Subset, FS_CardinalityType
  <2>3. SumFunctionOnSet(w, Q) = SumFunctionOnSet(w, A) + SumFunctionOnSet(w, Q \ A)
    <3> HIDE DEF A
    <3>. QED BY <2>1, <2>2, SumParts
  <2>4. SumFunctionOnSet(w, Q \ A) <= SumFunctionOnSet(Tiers, I)
    <3> HIDE DEF A, Covered
    <3>. QED BY <1>3, <2>1
  <2>5. a \in Nat /\ \A q \in A : w[q] \in Nat /\ w[q] <= a
    BY SplitTiers
  <2>6. SumFunctionOnSet(w, A) <= a * Cardinality(A)
    <3> HIDE DEF A, a
    <3>. QED BY <2>2, <2>5, SumAtMost
  <2>7. Cardinality(A) <= Width(i)
    <3> DEFINE lo == Split[i].rankStart  hi == Split[i].rankEnd
               f == [q \in A |-> r[q]]
    <3>1. lo \in Nat /\ hi \in Nat /\ lo <= hi
      BY SplitTiers
    <3>2. \A q \in A : r[q] \in lo..hi
      BY <3>1
    <3>3. \A p, q \in A : r[p] = r[q] => p = q
      OBVIOUS
    <3> HIDE DEF A, lo, hi
    <3>4. f \in Injection(A, lo..hi)
      BY <3>2, <3>3 DEF Injection, IsInjective
    <3>5. IsFiniteSet(lo..hi) /\ Cardinality(lo..hi) = hi - lo + 1
      BY <3>1, FS_Interval
    <3> HIDE DEF f
    <3>6. Cardinality(A) <= Cardinality(lo..hi)
      BY <3>4, <3>5, FS_Injection
    <3>. QED BY <3>5, <3>6 DEF Width, lo, hi
  <2>8. a * Cardinality(A) <= Tiers[i]
    <3>1. Tiers[i] = a * Width(i) /\ Width(i) \in Nat
      BY <1>2 DEF Tiers
    <3> DEFINE k == Cardinality(A)  v == Width(i)
    <3> HIDE DEF a, k, v
    <3>2. a * k <= a * v
      BY <2>2, <2>5, <2>7, <3>1, Z3 DEF k, v
    <3>. QED BY <3>1, <3>2 DEF k, v
  <2>9. SumFunctionOnSet(Tiers, I \cup {i}) = Tiers[i] + SumFunctionOnSet(Tiers, I)
    <3>1. IsFiniteSet(DOMAIN Split)
      BY SplitTiers
    <3>2. \A j \in DOMAIN Split : Tiers[j] \in Nat
      BY <1>2
    <3>. QED BY ONLY <3>1, <3>2, I \in SUBSET DOMAIN Split, i \in (DOMAIN Split) \ I, SumMore
  <2>10. /\ SumFunctionOnSet(w, A) \in Nat /\ SumFunctionOnSet(w, Q \ A) \in Nat
         /\ SumFunctionOnSet(Tiers, I) \in Nat /\ Tiers[i] \in Nat
    <3>1. A \in SUBSET P /\ Q \ A \in SUBSET P
      BY <2>1
    <3> HIDE DEF A
    <3>. QED BY <1>2, <3>1, SplitTiers, SumNat
  <2> DEFINE x == a * Cardinality(A)
  <2>11. x \in Nat
    <3> HIDE DEF A, a
    <3>. QED BY <2>2, <2>5, Z3
  <2> HIDE DEF A, Covered, x, In, T
  <2>12. x <= Tiers[i] /\ SumFunctionOnSet(w, A) <= x
    BY <2>6, <2>8 DEF x
  <2>. QED BY <2>3, <2>4, <2>9, <2>10, <2>11, <2>12
<1>4. P \in Covered(DOMAIN Split)
  OBVIOUS
<1> HIDE DEF Covered
<1>5. DOMAIN Split \in T
  <2> HIDE DEF T
  <2>1. SUBSET DOMAIN Split \subseteq T
    <3>1. IsFiniteSet(DOMAIN Split)
      BY SplitTiers
    <3>. QED BY <1>1, <1>3, <3>1, SubsetInduct
  <2>. QED BY <2>1
<1>. QED BY <1>4, <1>5

LEMMA HeadlineNat == seasonPrizePoolTotal = SumFunctionOnSet(Tiers, DOMAIN Split)
                     /\ seasonPrizePoolTotal \in Nat
<1>1. \A i \in DOMAIN Split : Tiers[i] \in Nat
  BY SplitTiers, Z3 DEF Width, Tiers
<1>2. SumFunctionOnSet(Tiers, DOMAIN Split) \in Nat
  BY <1>1, SplitTiers, SumNat
<1>3. seasonPrizePoolTotal = SumFunctionOnSet(Tiers, DOMAIN Split)
  BY DEF seasonPrizePoolTotal, SumFunction, Tiers, Width
<1>. QED BY <1>2, <1>3

LEMMA HeadlineCovers ==
    ASSUME NEW b, Board(b), NEW c
    PROVE  SumFunction(Winners(b, c)) <= seasonPrizePoolTotal
<1> DEFINE w == Winners(b, c)
           P == {p \in Player : w[p] > 0}
           At(p) == CHOOSE i \in DOMAIN b : b[i] = p
           r == [p \in P |-> Rank(b, c, At(p))]
<1>1. IsFiniteSet(Player) /\ IsFiniteSet(P) /\ P \in SUBSET Player
  BY SeasonAssumption, FS_Subset
<1>2. w \in [Player -> Nat]
  BY WinnersAt
<1>3. ASSUME NEW p \in P
      PROVE  /\ At(p) \in DOMAIN b /\ b[At(p)] = p
             /\ Eligible(c[p]) /\ w[p] = prizeForRank(r[p]) /\ w[p] > 0 /\ r[p] \in Nat
  <2>1. \E i \in DOMAIN b : b[i] = p
    BY WinnersAt
  <2>2. At(p) \in DOMAIN b /\ b[At(p)] = p
    BY <2>1
  <2> DEFINE i == At(p)
  <2> HIDE DEF At
  <2>3. w[p] = Prize(b, c, i) /\ w[p] > 0
    BY <2>2, WinnersAt
  <2>4. r[p] = Rank(b, c, i) /\ Rank(b, c, i) \in Nat
    BY <2>2, RankGrows
  <2> HIDE DEF w, r, P
  <2>. QED BY <2>2, <2>3, <2>4, PrizeNat
<1>4. \A p, q \in P : r[p] = r[q] => p = q
  <2> SUFFICES ASSUME NEW p \in P, NEW q \in P, r[p] = r[q] PROVE p = q
    OBVIOUS
  <2>1. DOMAIN b \subseteq Nat
    BY LenProperties DEF Board
  <2> DEFINE i == At(p)  j == At(q)
  <2>2. /\ i \in DOMAIN b /\ j \in DOMAIN b /\ b[i] = p /\ b[j] = q
        /\ Eligible(c[b[i]]) /\ Eligible(c[b[j]]) /\ Rank(b, c, i) = Rank(b, c, j)
    BY <1>3
  <2> HIDE DEF i, j, P, r
  <2>3. ~ (i < j) /\ ~ (j < i)
    BY <2>2, RankGrows
  <2>4. i = j
    BY <2>1, <2>2, <2>3
  <2>. QED BY <2>2, <2>4
<1>5. \A p \in P : \E i \in DOMAIN Split :
         /\ Split[i].rankStart <= r[p] /\ r[p] <= Split[i].rankEnd
         /\ w[p] = Split[i].amount
  <2> HIDE DEF w, r, P, At
  <2>. QED BY <1>3, PrizeOfTier
<1>6. \A p \in P : w[p] \in Nat /\ r[p] \in Nat
  BY <1>2, <1>3
<1>7. \A p \in Player \ P : w[p] = 0
  BY <1>2
<1> HIDE DEF w, P, r
<1>8. SumFunctionOnSet(w, P) <= SumFunctionOnSet(Tiers, DOMAIN Split)
  BY <1>1, <1>4, <1>5, <1>6, TiersCover
<1>9. SumFunctionOnSet(w, Player \ P) = 0
  BY <1>1, <1>7, FS_Difference, SumZero
<1>10. SumFunctionOnSet(w, Player) = SumFunctionOnSet(w, P) + SumFunctionOnSet(w, Player \ P)
  BY <1>1, <1>2, SumParts
<1>11. SumFunctionOnSet(w, P) \in Nat
  BY <1>1, <1>2, SumNat
<1>12. SumFunction(w) = SumFunctionOnSet(w, Player)
  BY <1>2 DEF SumFunction
<1>. QED BY <1>8, <1>9, <1>10, <1>11, <1>12, HeadlineNat DEF w

-----------------------------------------------------------------------------
(* The inductive invariant.                                                  *)

Executed(r) == run[r].tx = "executed"

\* What a run holds is a board and counts as they once were, and its plan is
\* theirs from the moment it may be sent.
RunOK(r) ==
    /\ Board(run[r].board)
    /\ \A p \in Player : run[r].counts[p] <= staked[p]
    /\ run[r].pc \in {"start", "ranked", "planned"} => run[r].tx = "none"
    /\ run[r].pc = "paid" => Executed(r)
    /\ run[r].pc \in {"planned", "waiting"} \/ run[r].tx # "none"
          => run[r].winners = Winners(run[r].board, run[r].counts)

Runs == \A r \in Run : RunOK(r)

Money == deposited = pool.balance + recovered + SumFunction(wallet)

\* The wallets hold nothing or the plan of the run that paid.
Wallets ==
    /\ ~pool.distributed => wallet = Nobody /\ \A r \in Run : ~Executed(r)
    /\ wallet # Nobody => \E r \in Run : Executed(r)
    /\ \A r \in Run : Executed(r) => wallet = run[r].winners

Receipts == \A x \in receipts : Executed(x.digest) /\ x.winners = run[x.digest].winners

IInv == TypeOK /\ Runs /\ Money /\ Wallets /\ Receipts
LEMMA NobodySum == SumFunction(Nobody) = 0 /\ Nobody \in [Player -> Nat]
<1>1. DOMAIN Nobody = Player /\ \A p \in Player : Nobody[p] = 0
  BY DEF Nobody
<1>2. Nobody \in [Player -> Nat]
  BY DEF Nobody
<1>. QED BY <1>1, <1>2, SeasonAssumption, SumZero DEF SumFunction

LEMMA PaidNat == ASSUME NEW w \in [Player -> Nat] PROVE SumFunction(w) \in Nat
<1>1. DOMAIN w = Player /\ \A p \in Player : w[p] \in Nat
  OBVIOUS
<1>. QED BY <1>1, SeasonAssumption, SumNat DEF SumFunction

LEMMA EmptyBoard == Board(<<>>)
BY EmptySeq DEF Board

LEMMA InitIInv == Init => IInv
<1> SUFFICES ASSUME Init PROVE IInv
  OBVIOUS
<1>1. /\ run = [r \in Run |-> NewRun] /\ NewRun \in RunState
      /\ NewRun.tx = "none" /\ NewRun.pc = "start" /\ NewRun.board = <<>>
      /\ NewRun.counts = Nobody
  BY NobodySum, EmptySeq DEF Init, NewRun, RunState
<1>2. run \in [Run -> RunState] /\ \A r \in Run : run[r] = NewRun
  BY <1>1
<1>3. TypeOK
  <2>1. pool \in [balance : Nat, distributed : BOOLEAN] /\ wallet \in [Player -> Nat]
    BY NobodySum DEF Init
  <2>2. staked \in [Player -> Nat]
    BY SeasonAssumption DEF Init
  <2>. QED BY <1>2, <2>1, <2>2 DEF Init, TypeOK
<1>4. Runs
  <2>1. \A p \in Player : staked[p] \in Nat /\ Nobody[p] = 0
    BY SeasonAssumption DEF Init, Nobody
  <2>. QED BY <1>1, <1>2, <2>1, EmptyBoard DEF Runs, RunOK, Executed
<1>5. Money /\ Wallets /\ Receipts
  BY <1>1, <1>2, NobodySum DEF Init, Money, Wallets, Receipts, Executed
<1>. QED BY <1>3, <1>4, <1>5 DEF IInv

Outside == <<pool, deposited, recovered, wallet, rating, staked, changes>>

\* A run moves on without being paid; it may leave a receipt of what it paid.
LEMMA RunStep ==
    ASSUME IInv, NEW r \in Run, UNCHANGED Outside, run' \in [Run -> RunState],
           \A q \in Run \ {r} : run'[q] = run[q],
           RunOK(r)',
           run'[r].tx = "executed" <=> run[r].tx = "executed",
           run[r].tx = "executed" => run'[r].winners = run[r].winners,
           \/ receipts' = receipts
           \/ Executed(r) /\ receipts' = receipts \cup {[digest |-> r, winners |-> run[r].winners]}
    PROVE  IInv'
<1>1. TypeOK'
  <2>1. receipts' \subseteq [digest : Run, winners : [Player -> Nat]]
    <3>1. run[r].winners \in [Player -> Nat]
      BY DEF IInv, TypeOK, RunState
    <3>. QED BY <3>1 DEF IInv, TypeOK
  <2>. QED BY <2>1 DEF IInv, TypeOK, Outside
<1>2. \A q \in Run : /\ run'[q].tx = "executed" <=> run[q].tx = "executed"
                     /\ run[q].tx = "executed" => run'[q].winners = run[q].winners
  OBVIOUS
<1>3. Runs'
  <2> SUFFICES ASSUME NEW q \in Run PROVE RunOK(q)'
    BY DEF Runs
  <2>1. CASE q = r
    BY <2>1
  <2>2. CASE q # r
    BY <2>2 DEF IInv, Runs, RunOK, Executed, Outside
  <2>. QED BY <2>1, <2>2
<1>4. Money' /\ Wallets'
  BY <1>2 DEF IInv, Money, Wallets, Executed, Outside
<1>5. Receipts'
  <2> SUFFICES ASSUME NEW x \in receipts'
               PROVE  run'[x.digest].tx = "executed" /\ x.winners = run'[x.digest].winners
    BY DEF Receipts, Executed
  <2>1. CASE x \in receipts
    <3>1. x.digest \in Run
      BY <2>1 DEF IInv, TypeOK
    <3>2. run[x.digest].tx = "executed" /\ x.winners = run[x.digest].winners
      BY <2>1 DEF IInv, Receipts, Executed
    <3>. QED BY <1>2, <3>1, <3>2
  <2>2. CASE x \notin receipts
    <3>1. x = [digest |-> r, winners |-> run[r].winners] /\ run[r].tx = "executed"
      BY <2>2 DEF Executed
    <3>. QED BY <1>2, <3>1
  <2>. QED BY <2>1, <2>2
<1>. QED BY <1>1, <1>3, <1>4, <1>5 DEF IInv

LEMMA ReadBoardStep == ASSUME IInv, NEW r \in Run, ReadBoard(r) PROVE IInv'
<1>1. PICK b \in leaderboard : run' = [run EXCEPT ![r].pc = "ranked", ![r].board = b]
  BY DEF ReadBoard
<1>2. run \in [Run -> RunState] /\ run[r].pc = "start" /\ RunOK(r)
  BY DEF ReadBoard, IInv, TypeOK, Runs
<1>3. Board(b)
  BY LeaderboardIsBoard DEF IInv, TypeOK
<1>4. /\ run' \in [Run -> RunState] /\ \A q \in Run \ {r} : run'[q] = run[q]
      /\ run'[r] = [run[r] EXCEPT !.pc = "ranked", !.board = b]
  BY <1>1, <1>2, <1>3 DEF RunState, Board
<1>5. /\ run'[r].pc = "ranked" /\ run'[r].board = b /\ run'[r].counts = run[r].counts
      /\ run'[r].tx = run[r].tx /\ run'[r].winners = run[r].winners
  BY <1>2, <1>4 DEF RunState
<1>6. UNCHANGED Outside /\ receipts' = receipts
  BY DEF ReadBoard, Outside
<1>7. RunOK(r)'
  BY <1>2, <1>3, <1>5, <1>6 DEF RunOK, Executed, Outside
<1>. QED BY <1>4, <1>5, <1>6, <1>7, RunStep

LEMMA PlanStep == ASSUME IInv, NEW r \in Run, Plan(r) PROVE IInv'
<1> DEFINE w == Winners(run[r].board, staked)
<1>1. PICK to \in {"done", "planned"} :
         run' = [run EXCEPT ![r].counts = staked, ![r].winners = w, ![r].pc = to]
  BY DEF Plan
<1>2. run \in [Run -> RunState] /\ run[r].pc = "ranked" /\ RunOK(r) /\ staked \in [Player -> Nat]
  BY DEF Plan, IInv, TypeOK, Runs
<1>3. w \in [Player -> Nat]
  BY <1>2, WinnersAt DEF RunOK
<1> HIDE DEF w
<1>4. /\ run' \in [Run -> RunState] /\ \A q \in Run \ {r} : run'[q] = run[q]
      /\ run'[r] = [run[r] EXCEPT !.counts = staked, !.winners = w, !.pc = to]
  <2> DEFINE v == [run[r] EXCEPT !.counts = staked, !.winners = w, !.pc = to]
  <2>1. v \in RunState
    BY <1>2, <1>3 DEF RunState
  <2>2. run' = [run EXCEPT ![r] = v]
    BY <1>1
  <2> HIDE DEF v
  <2>3. run' \in [Run -> RunState] /\ (\A q \in Run \ {r} : run'[q] = run[q]) /\ run'[r] = v
    BY <1>2, <2>1, <2>2
  <2>. QED BY <2>3 DEF v
<1>5. /\ run'[r].pc = to /\ run'[r].board = run[r].board /\ run'[r].counts = staked
      /\ run'[r].tx = run[r].tx /\ run'[r].winners = w
  BY <1>2, <1>4 DEF RunState
<1>6. UNCHANGED Outside /\ receipts' = receipts
  BY DEF Plan, Outside
<1>7. run[r].tx = "none"
  BY <1>2 DEF RunOK
<1>8. RunOK(r)'
  <2>1. \A p \in Player : staked[p] <= staked[p]
    BY <1>2
  <2>. QED BY <1>2, <1>5, <1>6, <1>7, <2>1 DEF RunOK, Executed, Outside, w
<1>. QED BY <1>4, <1>5, <1>6, <1>7, <1>8, RunStep

\* The steps that change a run's place or its transaction only.
LEMMA MoveStep ==
    ASSUME IInv, NEW r \in Run, NEW v \in RunState, run' = [run EXCEPT ![r] = v],
           v.board = run[r].board, v.counts = run[r].counts, v.winners = run[r].winners,
           UNCHANGED Outside, receipts' = receipts,
           v.tx = "executed" <=> run[r].tx = "executed",
           v.pc \in {"start", "ranked", "planned"} => v.tx = "none",
           v.pc = "paid" => v.tx = "executed",
           v.pc \in {"planned", "waiting"} \/ v.tx # "none"
              => run[r].pc \in {"planned", "waiting"} \/ run[r].tx # "none"
    PROVE  IInv'
<1>1. run \in [Run -> RunState] /\ RunOK(r)
  BY DEF IInv, TypeOK, Runs
<1>2. run' \in [Run -> RunState] /\ (\A q \in Run \ {r} : run'[q] = run[q]) /\ run'[r] = v
  BY <1>1
<1>3. RunOK(r)'
  BY <1>1, <1>2 DEF RunOK, Executed, Outside
<1>. QED BY <1>2, <1>3, RunStep

LEMMA FailStep ==
    ASSUME IInv, NEW r \in Run, run[r].tx = "sent", run' = [run EXCEPT ![r].tx = "failed"],
           UNCHANGED Outside, receipts' = receipts
    PROVE  IInv'
<1> DEFINE v == [run[r] EXCEPT !.tx = "failed"]
<1>1. run[r] \in RunState /\ RunOK(r)
  BY DEF IInv, TypeOK, Runs
<1>2. run[r].pc \notin {"start", "ranked", "planned", "paid"}
  BY <1>1 DEF RunOK, Executed
<1>3. run' = [run EXCEPT ![r] = v]
  OBVIOUS
<1>4. /\ v \in RunState /\ v.pc = run[r].pc /\ v.tx = "failed"
      /\ v.board = run[r].board /\ v.counts = run[r].counts /\ v.winners = run[r].winners
  BY <1>1 DEF RunState
<1> HIDE DEF v
<1>. QED BY <1>2, <1>3, <1>4, MoveStep

LEMMA ScriptStep ==
    ASSUME IInv, NEW r \in Run, Submit(r) \/ Answered(r) \/ Stops(r) \/ Refused(r)
    PROVE  IInv'
<1>1. run \in [Run -> RunState] /\ RunOK(r) /\ run[r] \in RunState
  BY DEF IInv, TypeOK, Runs
<1>2. CASE Submit(r)
  <2> DEFINE v == [run[r] EXCEPT !.pc = "waiting", !.tx = "sent"]
  <2>1. /\ run' = [run EXCEPT ![r] = v] /\ run[r].pc = "planned" /\ run[r].tx = "none"
        /\ UNCHANGED Outside /\ receipts' = receipts
    BY <1>1, <1>2 DEF Submit, RunOK, Outside
  <2>2. /\ v \in RunState /\ v.pc = "waiting" /\ v.tx = "sent"
        /\ v.board = run[r].board /\ v.counts = run[r].counts /\ v.winners = run[r].winners
    BY <1>1 DEF RunState
  <2> HIDE DEF v
  <2>. QED BY <2>1, <2>2, MoveStep
<1>3. CASE Answered(r)
  <2> DEFINE to == IF Succeeded(r) THEN "paid" ELSE "stopped"
             v == [run[r] EXCEPT !.pc = to]
  <2>1. to \in {"paid", "stopped"} /\ (to = "paid" => run[r].tx = "executed")
    BY DEF Succeeded
  <2>2. run' = [run EXCEPT ![r] = v]
    BY <1>3 DEF Answered
  <2>3. run[r].tx # "none" /\ UNCHANGED Outside /\ receipts' = receipts
    BY <1>3 DEF Answered, Outside
  <2> HIDE DEF to
  <2>4. /\ v \in RunState /\ v.pc = to /\ v.tx = run[r].tx
        /\ v.board = run[r].board /\ v.counts = run[r].counts /\ v.winners = run[r].winners
    BY <1>1, <2>1 DEF RunState
  <2> HIDE DEF v
  <2>. QED BY <2>1, <2>2, <2>3, <2>4, MoveStep
<1>4. CASE Stops(r)
  <2> DEFINE v == [run[r] EXCEPT !.pc = "stopped"]
  <2>1. run' = [run EXCEPT ![r] = v] /\ UNCHANGED Outside /\ receipts' = receipts
    BY <1>4 DEF Stops, Outside
  <2>2. /\ v \in RunState /\ v.pc = "stopped" /\ v.tx = run[r].tx
        /\ v.board = run[r].board /\ v.counts = run[r].counts /\ v.winners = run[r].winners
    BY <1>1 DEF RunState
  <2> HIDE DEF v
  <2>. QED BY <2>1, <2>2, MoveStep
<1>5. CASE Refused(r)
  <2>1. run' = [run EXCEPT ![r].tx = "failed"] /\ UNCHANGED Outside /\ receipts' = receipts
    BY <1>5 DEF Refused, Outside
  <2>2. run[r].tx = "sent"
    BY <1>5 DEF Refused
  <2>. QED BY <1>1, <2>1, <2>2, FailStep
<1>. QED BY <1>2, <1>3, <1>4, <1>5

LEMMA ReceiptStep == ASSUME IInv, NEW r \in Run, WriteReceipt(r) PROVE IInv'
<1>1. run \in [Run -> RunState] /\ RunOK(r) /\ run[r].pc = "paid"
  BY DEF IInv, TypeOK, Runs, WriteReceipt
<1>2. Executed(r)
  BY <1>1 DEF RunOK
<1>3. /\ run' \in [Run -> RunState] /\ \A q \in Run \ {r} : run'[q] = run[q]
      /\ run'[r] = [run[r] EXCEPT !.pc = "done"]
  BY <1>1 DEF WriteReceipt, RunState
<1>4. /\ run'[r].pc = "done" /\ run'[r].board = run[r].board /\ run'[r].counts = run[r].counts
      /\ run'[r].tx = run[r].tx /\ run'[r].winners = run[r].winners
  BY <1>1, <1>3 DEF RunState
<1>5. /\ UNCHANGED Outside
      /\ receipts' = receipts \cup {[digest |-> r, winners |-> run[r].winners]}
  BY DEF WriteReceipt, Outside
<1>6. RunOK(r)'
  BY <1>1, <1>2, <1>4, <1>5 DEF RunOK, Executed, Outside
<1>. QED BY <1>2, <1>3, <1>4, <1>5, <1>6, RunStep

\* The payout: the first one finds empty wallets and leaves its plan in them.
LEMMA DistributeStep == ASSUME IInv, NEW r \in Run, distribute(r) PROVE IInv'
<1> DEFINE w == run[r].winners
<1>1. run \in [Run -> RunState] /\ RunOK(r) /\ run[r].tx = "sent"
  BY DEF IInv, TypeOK, Runs, distribute
<1>2. run[r].pc \notin {"start", "ranked", "planned", "paid"}
  BY <1>1 DEF RunOK, Executed
<1>3. CASE ~ (Open /\ Payable(w))
  <2>1. run' = [run EXCEPT ![r].tx = "failed"] /\ UNCHANGED Outside /\ receipts' = receipts
    BY <1>3 DEF distribute, Outside
  <2>. QED BY <1>1, <2>1, FailStep
<1>4. CASE Open /\ Payable(w)
  <2>1. /\ pool' = [balance |-> pool.balance - SumFunction(w), distributed |-> TRUE]
        /\ wallet' = [p \in Player |-> wallet[p] + w[p]]
        /\ run' = [run EXCEPT ![r].tx = "executed"]
        /\ UNCHANGED <<deposited, recovered, rating, staked, receipts, changes>>
    BY <1>4 DEF distribute
  <2>2. w \in [Player -> Nat] /\ SumFunction(w) \in Nat /\ SumFunction(w) <= pool.balance
    <3>1. w \in [Player -> Nat]
      BY <1>1 DEF RunState
    <3>. QED BY <1>4, <3>1, PaidNat DEF Payable
  <2>3. wallet = Nobody /\ \A q \in Run : ~Executed(q)
    BY <1>4 DEF IInv, Wallets, Open
  <2> HIDE DEF w
  <2>4. wallet' = w
    <3>1. \A p \in Player : wallet[p] + w[p] = w[p]
      BY <2>2, <2>3 DEF Nobody
    <3>2. wallet' = [p \in Player |-> w[p]]
      BY <2>1, <3>1
    <3>. QED BY <2>2, <3>2
  <2>5. /\ run' \in [Run -> RunState] /\ \A q \in Run \ {r} : run'[q] = run[q]
        /\ run'[r] = [run[r] EXCEPT !.tx = "executed"]
    BY <1>1, <2>1 DEF RunState
  <2>6. /\ run'[r].pc = run[r].pc /\ run'[r].board = run[r].board
        /\ run'[r].counts = run[r].counts /\ run'[r].winners = w /\ run'[r].tx = "executed"
    BY <1>1, <2>5 DEF RunState, w
  <2>7. pool.balance \in Nat /\ pool'.balance = pool.balance - SumFunction(w) /\ pool'.distributed
    BY <2>1 DEF IInv, TypeOK
  <2>8. TypeOK'
    <3>1. pool' \in [balance : Nat, distributed : BOOLEAN]
      BY <2>1, <2>2, <2>7
    <3>. QED BY <2>1, <2>2, <2>4, <2>5, <3>1 DEF IInv, TypeOK
  <2>9. Runs'
    <3> SUFFICES ASSUME NEW q \in Run PROVE RunOK(q)'
      BY DEF Runs
    <3>1. CASE q = r
      BY <1>1, <1>2, <2>1, <2>6, <3>1 DEF RunOK, Executed, w
    <3>2. CASE q # r
      BY <2>1, <2>5, <3>2 DEF IInv, Runs, RunOK, Executed
    <3>. QED BY <3>1, <3>2
  <2>10. Money'
    <3>1. deposited = pool.balance + recovered + 0
      BY <2>3, NobodySum DEF IInv, Money
    <3>2. deposited \in Nat /\ recovered \in Nat
      BY DEF IInv, TypeOK
    <3>3. deposited' = deposited /\ recovered' = recovered
      BY <2>1
    <3>. QED BY <2>2, <2>4, <2>7, <3>1, <3>2, <3>3 DEF Money
  <2>11. Wallets'
    BY <2>3, <2>4, <2>5, <2>6, <2>7 DEF Wallets, Executed
  <2>12. Receipts'
    <3>1. receipts = {}
      BY <2>3 DEF IInv, TypeOK, Receipts
    <3>. QED BY <2>1, <3>1 DEF Receipts
  <2>. QED BY <2>8, <2>9, <2>10, <2>11, <2>12 DEF IInv
<1>. QED BY <1>3, <1>4

\* The pool between payouts, and the standings.
LEMMA PoolStep ==
    ASSUME IInv, (\E amount \in 1..MaxFunds : deposit(amount)) \/ withdraw_remainder
    PROVE  IInv'
<1>1. /\ UNCHANGED <<wallet, rating, staked, run, receipts, changes>>
      /\ pool' \in [balance : Nat, distributed : BOOLEAN] /\ pool'.distributed = pool.distributed
      /\ deposited' \in Nat /\ recovered' \in Nat
      /\ deposited' = pool'.balance + recovered' + SumFunction(wallet)
  <2>1. /\ pool \in [balance : Nat, distributed : BOOLEAN] /\ deposited \in Nat /\ recovered \in Nat
        /\ SumFunction(wallet) \in Nat
        /\ deposited = pool.balance + recovered + SumFunction(wallet)
    BY PaidNat DEF IInv, TypeOK, Money
  <2>2. CASE \E amount \in 1..MaxFunds : deposit(amount)
    BY <2>1, <2>2 DEF deposit
  <2>3. CASE withdraw_remainder
    BY <2>1, <2>3 DEF withdraw_remainder
  <2>. QED BY <2>2, <2>3
<1>2. TypeOK'
  BY <1>1 DEF IInv, TypeOK
<1>3. Runs'
  BY <1>1 DEF IInv, Runs, RunOK, Executed
<1>4. Money' /\ Wallets' /\ Receipts'
  BY <1>1 DEF IInv, Money, Wallets, Receipts, Executed
<1>. QED BY <1>2, <1>3, <1>4 DEF IInv

LEMMA StandingStep == ASSUME IInv, NEW p \in Player, DuelCounted(p) \/ Rated(p) PROVE IInv'
<1>1. UNCHANGED <<pool, deposited, recovered, wallet, run, receipts>>
  BY DEF DuelCounted, Rated
<1>2. /\ staked' \in [Player -> Nat] /\ rating' \in [Player -> 0..MaxRating] /\ changes' \in Nat
      /\ \A q \in Player : staked[q] <= staked'[q]
  <2>1. staked \in [Player -> Nat] /\ rating \in [Player -> 0..MaxRating] /\ changes \in Nat
    BY DEF IInv, TypeOK
  <2>2. CASE DuelCounted(p)
    BY <2>1, <2>2 DEF DuelCounted
  <2>3. CASE Rated(p)
    <3>1. PICK x \in (1..MaxRating) \ {rating[p]} : rating' = [rating EXCEPT ![p] = x]
      BY <2>3 DEF Rated
    <3>2. x \in 0..MaxRating
      BY SeasonAssumption
    <3>. QED BY <2>1, <2>3, <3>1, <3>2 DEF Rated
  <2>. QED BY <2>2, <2>3
<1>3. TypeOK'
  BY <1>1, <1>2 DEF IInv, TypeOK
<1>4. Runs'
  <2> SUFFICES ASSUME NEW r \in Run PROVE RunOK(r)'
    BY DEF Runs
  <2>1. \A q \in Player : run[r].counts[q] <= staked'[q]
    <3>1. run[r].counts \in [Player -> Nat] /\ staked \in [Player -> Nat]
      BY DEF IInv, TypeOK, RunState
    <3>2. \A q \in Player : run[r].counts[q] <= staked[q]
      BY DEF IInv, Runs, RunOK
    <3>. QED BY <1>2, <3>1, <3>2
  <2>. QED BY <1>1, <2>1 DEF IInv, Runs, RunOK, Executed
<1>5. Money' /\ Wallets' /\ Receipts'
  BY <1>1 DEF IInv, Money, Wallets, Receipts, Executed
<1>. QED BY <1>3, <1>4, <1>5 DEF IInv

LEMMA StutterStep == ASSUME IInv, UNCHANGED vars PROVE IInv'
<1>1. TypeOK'
  BY DEF IInv, TypeOK, vars
<1>2. Runs'
  BY DEF IInv, Runs, RunOK, Executed, vars
<1>3. Money' /\ Wallets' /\ Receipts'
  BY DEF IInv, Money, Wallets, Receipts, Executed, vars
<1>. QED BY <1>1, <1>2, <1>3 DEF IInv

LEMMA SpecIInv == Spec => []IInv
<1>1. ASSUME IInv, [Next]_vars PROVE IInv'
  <2>1. CASE \E amount \in 1..MaxFunds : deposit(amount)
    BY <1>1, <2>1, PoolStep
  <2>2. CASE withdraw_remainder
    BY <1>1, <2>2, PoolStep
  <2>3. CASE \E r \in Run : \/ ReadBoard(r) \/ Plan(r) \/ Submit(r) \/ Answered(r)
                            \/ WriteReceipt(r) \/ Stops(r) \/ distribute(r) \/ Refused(r)
    BY <1>1, <2>3, ReadBoardStep, PlanStep, ScriptStep, ReceiptStep, DistributeStep
  <2>4. CASE \E p \in Player : DuelCounted(p) \/ Rated(p)
    BY <1>1, <2>4, StandingStep
  <2>5. CASE UNCHANGED vars
    BY <1>1, <2>5, StutterStep
  <2>. QED BY <1>1, <2>1, <2>2, <2>3, <2>4, <2>5 DEF Next
<1>. QED BY <1>1, InitIInv, PTL DEF Spec

-----------------------------------------------------------------------------
(* Theorems.                                                                 *)

\* For any players, runs, split and bounds, the state keeps its type; above
\* all the pool is never overdrawn (prize_pool.move:144-150).
THEOREM SeasonTypes == Spec => []TypeOK
<1>1. IInv => TypeOK
  BY DEF IInv
<1>. QED BY <1>1, SpecIInv, PTL

\* However many runs of season-distribute race, one plan is paid, whole, or
\* nothing (the lock of prize_pool.move:139); all money is accounted for, and
\* the headline of season.ts covers what was paid.
THEOREM SeasonOnePlanPaid == Spec => []OnePlanPaid
<1>1. IInv => OnePlanPaid
  <2> SUFFICES ASSUME IInv PROVE OnePlanPaid
    OBVIOUS
  <2>1. SumFunction(wallet) <= seasonPrizePoolTotal
    <3>1. CASE wallet = Nobody
      BY <3>1, NobodySum, HeadlineNat
    <3>2. CASE wallet # Nobody
      <4>1. PICK r \in Run : Executed(r) /\ wallet = run[r].winners
        BY <3>2 DEF IInv, Wallets
      <4>2. Board(run[r].board) /\ run[r].winners = Winners(run[r].board, run[r].counts)
        BY <4>1 DEF IInv, Runs, RunOK, Executed
      <4>. QED BY <4>1, <4>2, HeadlineCovers
    <3>. QED BY <3>1, <3>2
  <2>. QED BY <2>1 DEF IInv, Money, Wallets, Executed, OnePlanPaid
<1>. QED BY <1>1, SpecIInv, PTL

\* Every receipt tells what the wallets hold (season-distribute.ts:138-165).
THEOREM SeasonReceipts == Spec => []ReceiptsTrue
<1>1. IInv => ReceiptsTrue
  <2> SUFFICES ASSUME IInv, NEW x \in receipts PROVE wallet = x.winners
    BY DEF ReceiptsTrue
  <2>1. x.digest \in Run
    BY DEF IInv, TypeOK
  <2>2. Executed(x.digest) /\ x.winners = run[x.digest].winners
    BY DEF IInv, Receipts
  <2>. QED BY <2>1, <2>2 DEF IInv, Wallets
<1>. QED BY <1>1, SpecIInv, PTL

\* Where the split never gives a lower rank more, prizes follow the board the
\* paying run read, and only players with the staked duels are paid, although
\* board and counts are two queries (season-distribute.ts:52-71).
THEOREM SeasonPrizesFollowRank == PrizesDescend => (Spec => []PrizesFollowRank)
<1> SUFFICES ASSUME PrizesDescend PROVE Spec => []PrizesFollowRank
  OBVIOUS
<1>1. IInv => PrizesFollowRank
  <2> SUFFICES ASSUME IInv PROVE PrizesFollowRank
    OBVIOUS
  <2>1. ASSUME NEW r \in Run, Executed(r)
        PROVE  /\ wallet = run[r].winners /\ Board(run[r].board)
               /\ wallet = Winners(run[r].board, run[r].counts)
    BY <2>1 DEF IInv, Wallets, Runs, RunOK, Executed
  <2>2. ASSUME NEW p \in Player, wallet[p] > 0 PROVE staked[p] >= MinStaked
    <3>1. PICK r \in Run : Executed(r)
      BY <2>2 DEF IInv, Wallets, Nobody
    <3> DEFINE b == run[r].board  c == run[r].counts
    <3>2. Board(b) /\ wallet = Winners(b, c)
      BY <2>1, <3>1
    <3>3. c[p] \in Nat /\ staked[p] \in Nat /\ c[p] <= staked[p]
      BY DEF IInv, Runs, RunOK, TypeOK, RunState
    <3> HIDE DEF b, c
    <3>4. PICK i \in DOMAIN b : b[i] = p
      BY <2>2, <3>2, WinnersAt
    <3>5. Prize(b, c, i) > 0
      BY <2>2, <3>2, <3>4, WinnersAt
    <3>6. Eligible(c[p])
      BY <3>2, <3>4, <3>5, PrizeNat
    <3>. QED BY <3>3, <3>6, SeasonAssumption DEF Eligible
  <2>3. ASSUME NEW r \in Run, run[r].tx = "executed",
               NEW i \in DOMAIN run[r].board, NEW j \in DOMAIN run[r].board, i < j,
               Eligible(run[r].counts[run[r].board[i]])
        PROVE  wallet[run[r].board[i]] >= wallet[run[r].board[j]]
    <3> DEFINE b == run[r].board  c == run[r].counts
    <3>1. Board(b) /\ wallet = Winners(b, c)
      BY <2>1, <2>3 DEF Executed
    <3>2. b[i] \in Player /\ b[j] \in Player /\ wallet \in [Player -> Nat]
      BY <2>3, <3>1, WinnersAt
    <3> HIDE DEF b, c
    <3>3. Winners(b, c)[b[j]] <= Winners(b, c)[b[i]]
      BY <2>3, <3>1, HigherPaidMore DEF b, c
    <3>. QED BY <3>1, <3>2, <3>3 DEF b
  <2>. QED BY <2>2, <2>3 DEF PrizesFollowRank
<1>. QED BY <1>1, SpecIInv, PTL
=============================================================================
