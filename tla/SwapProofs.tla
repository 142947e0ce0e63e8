----------------------------- MODULE SwapProofs -----------------------------
(***************************************************************************)
(* Types, NothingStranded, ShareValueKept, DepositNeverProfits,            *)
(* TradeNeverProfits and FirstDepositFair for pools of any size, any fee   *)
(* and any amounts.                                                        *)
(* TypeOK /\ NothingStranded is inductive: a withdrawal of some but not    *)
(* all shares leaves some of each coin because its payouts round down.     *)
(* The square root is not expanded for that: the first deposit's cast and  *)
(* assertion are all the argument needs of it.  What it computes is        *)
(* FirstDepositFair's part, at the end.                                    *)
(***************************************************************************)
EXTENDS Swap, WellFoundedInduction, TLAPS

Opened == lpTotal # 0 => Open

IInv == TypeOK /\ NothingStranded /\ Opened

-----------------------------------------------------------------------------
(* Arithmetic                                                              *)

LEMMA Products == \A a, b \in Nat : a * b \in Nat /\ (a > 0 /\ b > 0 => a * b > 0)
BY Z3

LEMMA MonotoneTimes ==
    \A a, b, c, d \in Nat : a <= b /\ c <= d => a * c <= b * d
<1>. SUFFICES ASSUME NEW a \in Nat, NEW b \in Nat, NEW c \in Nat, NEW d \in Nat,
                     a <= b, c <= d
              PROVE  a * c <= b * d
  OBVIOUS
<1>1. a * c <= b * c
  BY Z3
<1>2. b * c <= b * d
  BY Z3
<1>. QED BY <1>1, <1>2, Products

LEMMA CancelTimes ==
    \A a, b, c \in Nat : c > 0 /\ a * c <= b * c => a <= b
BY Z3

LEMMA CancelStrict ==
    \A a, b, c \in Nat : a * c < b * c => a < b
BY Z3

LEMMA Regroup == \A a, b, c \in Nat : (a * c) * (b * c) = a * b * (c * c)
BY Z3

LEMMA RoundedDown ==
    \A a \in Nat : \A b \in Nat \ {0} : a \div b \in Nat /\ (a \div b) * b <= a
BY Z3

LEMMA RoundedBelow ==
    \A a, b, c \in Nat : b > 0 /\ a <= c * b => a \div b <= c
<1>. SUFFICES ASSUME NEW a \in Nat, NEW b \in Nat, NEW c \in Nat, b > 0, a <= c * b
              PROVE  a \div b <= c
  OBVIOUS
<1>1. a \div b \in Nat /\ (a \div b) * b <= a
  BY RoundedDown
<1> DEFINE q == a \div b
<1> HIDE DEF q
<1>2. q * b <= c * b
  BY <1>1, Products DEF q
<1>3. q <= c
  BY <1>1, <1>2, CancelTimes DEF q
<1>. QED BY <1>3 DEF q

-----------------------------------------------------------------------------
(* Operators of the pool                                                   *)

\* A proportion times the whole is at most what it was taken of.
LEMMA ProportionBound ==
    ASSUME NEW n \in Nat, NEW r \in Nat, NEW s \in Nat, s > 0
    PROVE  Proportion(n, r, s) \in Nat /\ Proportion(n, r, s) * s <= n * r
BY RoundedDown, Products DEF Proportion

\* A withdrawal pays at most the reserve, and less if shares remain.
LEMMA PayoutBound ==
    ASSUME NEW n \in Nat, NEW r \in Nat, NEW s \in Nat, n > 0, n <= s
    PROVE  /\ Proportion(n, r, s) \in Nat
           /\ Proportion(n, r, s) <= r
           /\ n < s /\ r > 0 => Proportion(n, r, s) < r
           /\ n = s => Proportion(n, r, s) = r
<1> DEFINE q == Proportion(n, r, s)
<1>1. q \in Nat /\ q * s <= n * r
  BY ProportionBound
<1>2. n * r <= r * s
  BY MonotoneTimes, Z3
<1>3. n = s => q = r
  <2>1. \A a \in Nat : (s * a) \div s = a
    BY Z3
  <2>. QED BY <2>1 DEF Proportion
<1>4. n < s /\ r > 0 => n * r < r * s
  BY Z3
<1> HIDE DEF q
<1>5. q * s <= r * s
  BY <1>1, <1>2, Products
<1>6. q <= r
  BY <1>1, <1>5, CancelTimes
<1>7. n < s /\ r > 0 => q < r
  <2>. SUFFICES ASSUME n < s, r > 0 PROVE q < r
    OBVIOUS
  <2>1. q * s < r * s
    BY <1>1, <1>4, Products
  <2>. QED BY <1>1, <2>1, CancelStrict
<1>. QED BY <1>1, <1>3, <1>6, <1>7 DEF q

\* Minting the proportion m of a deposit x: the share's claim grows no more
\* than the reserve.
LEMMA MintBound ==
    ASSUME NEW m \in Nat, NEW x \in Nat, NEW r \in Nat, NEW s \in Nat, m * r <= x * s
    PROVE  /\ r * (s + m) <= (r + x) * s
           /\ m * (r + x) <= x * (s + m)
<1>1. r * (s + m) = r * s + m * r /\ (r + x) * s = r * s + x * s
  BY Z3
<1>2. m * (r + x) = m * r + m * x /\ x * (s + m) = x * s + m * x
  BY Z3
<1>. QED BY <1>1, <1>2, Products

\* Burning n shares of s for q of r: what stays is worth no less.
LEMMA BurnBound ==
    ASSUME NEW n \in Nat, NEW q \in Nat, NEW r \in Nat, NEW s \in Nat,
           n <= s, q <= r, q * s <= n * r
    PROVE  r * (s - n) <= (r - q) * s
<1>1. r * (s - n) = r * s - n * r /\ (r - q) * s = r * s - q * s
  BY Z3
<1>. QED BY <1>1, Products

FeeFactorOK == feeFactor \in Nat /\ 0 < feeFactor /\ feeFactor <= Multiplier

LEMMA FeeFactorBound == TypeOK /\ Open => FeeFactorOK
BY SwapAssumption DEF TypeOK, Open, FeeFactorOK, feeFactor

\* A trade never buys more than the constant product allows without a fee.
LEMMA BoughtBound ==
    ASSUME FeeFactorOK, NEW p \in Nat, NEW i \in Nat, NEW o \in Nat, i > 0, o > 0
    PROVE  /\ Bought(p, i, o) \in Nat
           /\ Bought(p, i, o) < o
           /\ Bought(p, i, o) * (i + p) <= o * p
<1> DEFINE f == feeFactor
           M == Multiplier
           q == Bought(p, i, o)
           D == i * M + p * f
<1>0. f \in Nat /\ M \in Nat /\ 0 < f /\ f <= M
  BY SwapAssumption DEF FeeFactorOK
<1>1. i * M \in Nat /\ i * M > 0 /\ p * f \in Nat
  BY <1>0, Products
<1>2. D \in Nat /\ D > 0
  BY <1>1
<1>3. o * p * f \in Nat
  BY <1>0, Products
<1>4. q \in Nat /\ q * D <= o * p * f
  BY <1>2, <1>3, RoundedDown DEF Bought
<1> HIDE DEF q, f, M
<1>5. q < o
  <2>1. SUFFICES ASSUME o <= q PROVE FALSE
    BY <1>4
  <2>2. o * D <= q * D
    BY <1>2, <1>4, <2>1, MonotoneTimes
  <2>3. o * D = o * (i * M) + o * p * f
    BY <1>0, Z3
  <2>4. o * (i * M) > 0 /\ o * (i * M) \in Nat
    BY <1>1, Products
  <2> HIDE DEF D
  <2>5. o * D \in Nat /\ q * D \in Nat
    BY <1>2, <1>4, Products
  <2>. QED BY <1>3, <1>4, <2>2, <2>3, <2>4, <2>5
<1>6. (q * (i + p)) * f <= (o * p) * f
  <2>1. (i + p) * f <= D
    <3>1. i * f <= i * M
      BY <1>0, MonotoneTimes
    <3>2. (i + p) * f = i * f + p * f
      BY <1>0, Z3
    <3>. QED BY <1>0, <1>1, <3>1, <3>2, Products
  <2>2. (i + p) * f \in Nat
    BY <1>0, Products
  <2> DEFINE t == (i + p) * f
  <2>3. (q * (i + p)) * f = q * t
    BY <1>0, <1>4, Z3
  <2> HIDE DEF D, t
  <2>4. q * t <= q * D
    BY <1>2, <1>4, <2>1, <2>2, MonotoneTimes DEF t
  <2>5. q * t \in Nat /\ q * D \in Nat
    BY <1>2, <1>4, <2>2, Products DEF t
  <2>. QED BY <1>3, <1>4, <2>3, <2>4, <2>5
<1>7. q * (i + p) <= o * p
  <2>1. q * (i + p) \in Nat /\ o * p \in Nat
    BY <1>4, Products
  <2>. QED BY <1>0, <1>6, <2>1, CancelTimes
<1>. QED BY <1>4, <1>5, <1>7 DEF q
-----------------------------------------------------------------------------
(* The pool                                                                *)

LEMMA ReservesNat == TypeOK => reserveX \in Nat /\ reserveY \in Nat /\ lpTotal \in Nat
BY SwapAssumption DEF TypeOK

\* What a deposit mints, once there are shares.
LEMMA MintedBound ==
    ASSUME IInv, lpTotal # 0, NEW x \in Nat, NEW y \in Nat
    PROVE  LET minted == LpToMint(x, y, reserveX, reserveY, lpTotal) IN
           /\ minted \in Nat
           /\ minted * reserveX <= x * lpTotal
           /\ minted * reserveY <= y * lpTotal
<1> DEFINE minted == LpToMint(x, y, reserveX, reserveY, lpTotal)
           px == Proportion(x, lpTotal, reserveX)
           py == Proportion(y, lpTotal, reserveY)
<1>1. reserveX \in Nat /\ reserveY \in Nat /\ lpTotal \in Nat /\ reserveX > 0 /\ reserveY > 0
  BY ReservesNat DEF IInv, NothingStranded
<1>2. /\ px \in Nat /\ px * reserveX <= x * lpTotal
      /\ py \in Nat /\ py * reserveY <= y * lpTotal
  BY <1>1, ProportionBound
<1>3. minted = Lesser(px, py)
  BY DEF LpToMint
<1> HIDE DEF px, py, minted
<1>4. minted \in Nat /\ minted <= px /\ minted <= py
  BY <1>2, <1>3 DEF Lesser
<1>5. minted * reserveX <= px * reserveX /\ minted * reserveY <= py * reserveY
  BY <1>1, <1>2, <1>4, MonotoneTimes
<1>6. minted * reserveX <= x * lpTotal /\ minted * reserveY <= y * lpTotal
  BY <1>1, <1>2, <1>4, <1>5, Products
<1>. QED BY <1>4, <1>6 DEF minted

\* The value of the shares after both reserves are worth no less per share.
LEMMA ValueKept ==
    ASSUME NEW a \in Nat, NEW b \in Nat, NEW s \in Nat,
           NEW c \in Nat, NEW d \in Nat, NEW t \in Nat,
           a * t <= c * s, b * t <= d * s
    PROVE  a * b * (t * t) <= c * d * (s * s)
<1>1. (a * t) * (b * t) <= (c * s) * (d * s)
  BY MonotoneTimes, Products
<1>. QED BY <1>1, Regroup

LEMMA InitIInv == Init => IInv
BY SwapAssumption DEF Init, IInv, TypeOK, NothingStranded, Opened

LEMMA CreateStep == ASSUME IInv, NEW fee \in Fees, CreatePool(fee)
                    PROVE  IInv' /\ (lpTotal # 0 /\ lpTotal' # 0 => ShareValueStep)
<1>1. IInv'
  BY SwapAssumption DEF IInv, TypeOK, NothingStranded, Opened, Open, CreatePool
<1>2. reserveX * reserveY * (lpTotal * lpTotal) \in Nat
  BY ReservesNat, Products DEF IInv
<1>. QED BY <1>1, <1>2 DEF CreatePool, ShareValueStep

LEMMA AddStep == ASSUME IInv, NEW x \in Amounts, NEW y \in Amounts, AddLiquidity(x, y)
                 PROVE  IInv' /\ (lpTotal # 0 /\ lpTotal' # 0 => ShareValueStep)
<1> DEFINE minted == LpToMint(x, y, reserveX, reserveY, lpTotal)
<1>1. /\ reserveX \in Nat /\ reserveY \in Nat /\ lpTotal \in Nat /\ x \in Nat /\ y \in Nat
      /\ MaxU64 \in Nat
  BY ReservesNat, SwapAssumption DEF IInv
<1>2. /\ x > 0 /\ y > 0
      /\ minted \in 1..(MaxU64 - 1) /\ minted < MaxU64 - lpTotal
      /\ reserveX + x <= MaxU64 /\ reserveY + y <= MaxU64
      /\ reserveX' = reserveX + x
      /\ reserveY' = reserveY + y
      /\ lpTotal' = lpTotal + minted
      /\ feePct' = feePct
  BY DEF AddLiquidity, Fits
<1>3. lpTotal # 0 =>
        /\ minted \in Nat
        /\ minted * reserveX <= x * lpTotal
        /\ minted * reserveY <= y * lpTotal
  BY <1>1, MintedBound
<1> HIDE DEF minted
<1>4. TypeOK'
  BY <1>1, <1>2 DEF IInv, TypeOK
<1>5. NothingStranded'
  BY <1>1, <1>2 DEF NothingStranded
<1>6. lpTotal # 0 => ShareValueStep
  <2>. SUFFICES ASSUME lpTotal # 0 PROVE ShareValueStep
    OBVIOUS
  <2>1. /\ reserveX * (lpTotal + minted) <= (reserveX + x) * lpTotal
        /\ reserveY * (lpTotal + minted) <= (reserveY + y) * lpTotal
    BY <1>1, <1>3, MintBound
  <2>2. lpTotal + minted \in Nat /\ reserveX + x \in Nat /\ reserveY + y \in Nat
    BY <1>1, <1>3
  <2>3. reserveX * reserveY * ((lpTotal + minted) * (lpTotal + minted))
            <= (reserveX + x) * (reserveY + y) * (lpTotal * lpTotal)
    BY <1>1, <2>1, <2>2, ValueKept
  <2>. QED BY <1>2, <2>3 DEF ShareValueStep
<1>7. Opened'
  BY <1>2 DEF Opened, Open, AddLiquidity
<1>. QED BY <1>4, <1>5, <1>6, <1>7 DEF IInv

LEMMA RemoveStep == ASSUME IInv, NEW lp \in 1..lpTotal, RemoveLiquidity(lp)
                    PROVE  IInv' /\ (lpTotal # 0 /\ lpTotal' # 0 => ShareValueStep)
<1> DEFINE xOut == Proportion(lp, reserveX, lpTotal)
           yOut == Proportion(lp, reserveY, lpTotal)
<1>1. /\ reserveX \in Nat /\ reserveY \in Nat /\ lpTotal \in Nat
      /\ lp \in Nat /\ lp > 0 /\ lp <= lpTotal /\ lpTotal > 0
      /\ reserveX > 0 /\ reserveY > 0
  BY ReservesNat DEF IInv, NothingStranded
<1>2. /\ lpTotal' = lpTotal - lp
      /\ reserveX' = reserveX - xOut
      /\ reserveY' = reserveY - yOut
      /\ feePct' = feePct
  BY DEF RemoveLiquidity
<1>3. /\ xOut \in Nat /\ xOut <= reserveX
      /\ lp < lpTotal => xOut < reserveX
      /\ lp = lpTotal => xOut = reserveX
  BY <1>1, PayoutBound
<1>4. /\ yOut \in Nat /\ yOut <= reserveY
      /\ lp < lpTotal => yOut < reserveY
      /\ lp = lpTotal => yOut = reserveY
  BY <1>1, PayoutBound
<1>5. xOut * lpTotal <= lp * reserveX /\ yOut * lpTotal <= lp * reserveY
  BY <1>1, ProportionBound
<1> HIDE DEF xOut, yOut
<1>6. TypeOK'
  BY <1>1, <1>2, <1>3, <1>4, SwapAssumption DEF IInv, TypeOK
<1>7. NothingStranded'
  BY <1>1, <1>2, <1>3, <1>4 DEF NothingStranded
<1>8. ShareValueStep
  <2>1. /\ reserveX * (lpTotal - lp) <= (reserveX - xOut) * lpTotal
        /\ reserveY * (lpTotal - lp) <= (reserveY - yOut) * lpTotal
    BY <1>1, <1>3, <1>4, <1>5, BurnBound
  <2>2. lpTotal - lp \in Nat /\ reserveX - xOut \in Nat /\ reserveY - yOut \in Nat
    BY <1>1, <1>3, <1>4
  <2>3. reserveX * reserveY * ((lpTotal - lp) * (lpTotal - lp))
            <= (reserveX - xOut) * (reserveY - yOut) * (lpTotal * lpTotal)
    BY <1>1, <2>1, <2>2, ValueKept
  <2>. QED BY <1>2, <2>3 DEF ShareValueStep
<1>9. Opened'
  BY <1>2 DEF Opened, Open, RemoveLiquidity
<1>. QED BY <1>6, <1>7, <1>8, <1>9 DEF IInv

\* A trade of p for q against reserves i and o lowers the product of the
\* reserves for no number of shares.
LEMMA TradeValue ==
    ASSUME NEW p \in Nat, NEW q \in Nat, NEW i \in Nat, NEW o \in Nat, NEW s \in Nat,
           q <= o, q * (i + p) <= o * p
    PROVE  i * o * (s * s) <= (i + p) * (o - q) * (s * s)
<1>1. (i + p) * (o - q) = i * o + o * p - q * (i + p)
  BY Z3
<1>2. /\ i * o \in Nat /\ o * p \in Nat /\ q * (i + p) \in Nat /\ s * s \in Nat
      /\ i + p \in Nat /\ o - q \in Nat
  BY Products
<1>3. (i + p) * (o - q) \in Nat
  BY <1>2, Products
<1>4. i * o <= (i + p) * (o - q)
  BY <1>1, <1>2, <1>3
<1>. QED BY <1>2, <1>3, <1>4, MonotoneTimes

LEMMA SwapStep == ASSUME IInv, NEW paid \in Amounts, SwapXForY(paid) \/ SwapYForX(paid)
                  PROVE  IInv' /\ (lpTotal # 0 /\ lpTotal' # 0 => ShareValueStep)
<1>1. /\ reserveX \in Nat /\ reserveY \in Nat /\ lpTotal \in Nat /\ paid \in Nat
      /\ MaxU64 \in Nat /\ reserveX > 0 /\ reserveY > 0 /\ FeeFactorOK
  BY ReservesNat, FeeFactorBound, SwapAssumption DEF IInv, SwapXForY, SwapYForX
<1>2. CASE SwapXForY(paid)
  <2> DEFINE q == Bought(paid, reserveX, reserveY)
  <2>1. q \in Nat /\ q < reserveY /\ q * (reserveX + paid) <= reserveY * paid
    BY <1>1, BoughtBound
  <2>2. /\ reserveX' = reserveX + paid /\ reserveX + paid <= MaxU64
        /\ reserveY' = reserveY - q
        /\ feePct' = feePct /\ lpTotal' = lpTotal
    BY <1>2 DEF SwapXForY, Fits
  <2> HIDE DEF q
  <2>3. IInv'
    BY <1>1, <2>1, <2>2 DEF IInv, TypeOK, NothingStranded, Opened, Open
  <2>4. reserveX * reserveY * (lpTotal * lpTotal)
            <= (reserveX + paid) * (reserveY - q) * (lpTotal * lpTotal)
    BY <1>1, <2>1, TradeValue
  <2>. QED BY <2>2, <2>3, <2>4 DEF ShareValueStep
<1>3. CASE SwapYForX(paid)
  <2> DEFINE q == Bought(paid, reserveY, reserveX)
  <2>1. q \in Nat /\ q < reserveX /\ q * (reserveY + paid) <= reserveX * paid
    BY <1>1, BoughtBound
  <2>2. /\ reserveY' = reserveY + paid /\ reserveY + paid <= MaxU64
        /\ reserveX' = reserveX - q
        /\ feePct' = feePct /\ lpTotal' = lpTotal
    BY <1>3 DEF SwapYForX, Fits
  <2> HIDE DEF q
  <2>3. IInv'
    BY <1>1, <2>1, <2>2 DEF IInv, TypeOK, NothingStranded, Opened, Open
  <2>4. reserveY * reserveX * (lpTotal * lpTotal)
            <= (reserveY + paid) * (reserveX - q) * (lpTotal * lpTotal)
    BY <1>1, <2>1, TradeValue
  <2>5. /\ reserveX * reserveY = reserveY * reserveX
        /\ (reserveX - q) * (reserveY + paid) = (reserveY + paid) * (reserveX - q)
    BY <1>1, <2>1, Z3
  <2>. QED BY <2>2, <2>3, <2>4, <2>5 DEF ShareValueStep
<1>. QED BY <1>2, <1>3

LEMMA NextStep == ASSUME IInv, Next
                  PROVE  IInv' /\ (lpTotal # 0 /\ lpTotal' # 0 => ShareValueStep)
BY CreateStep, AddStep, RemoveStep, SwapStep DEF Next

LEMMA StutterStep == ASSUME IInv, UNCHANGED vars PROVE IInv'
BY DEF IInv, TypeOK, NothingStranded, Opened, Open, vars

LEMMA SpecIInv == Spec => []IInv
BY InitIInv, NextStep, StutterStep, PTL DEF Spec

-----------------------------------------------------------------------------
(* Theorems                                                                *)

\* Reserves and supply stay within 64 bits and never go negative.
THEOREM SwapTypes == Spec => []TypeOK
<1>1. IInv => TypeOK
  BY DEF IInv
<1>. QED BY <1>1, SpecIInv, PTL

\* Shares and reserves run out together, in any sequence of calls.
THEOREM SwapNothingStranded == Spec => []NothingStranded
<1>1. IInv => NothingStranded
  BY DEF IInv
<1>. QED BY <1>1, SpecIInv, PTL

\* No call lowers what the remaining shares are worth.
THEOREM SwapShareValue == Spec => ShareValueKept
<1>1. IInv /\ [Next]_vars => [lpTotal # 0 /\ lpTotal' # 0 => ShareValueStep]_vars
  BY NextStep
<1>. QED BY <1>1, SpecIInv, PTL DEF Spec, ShareValueKept

\* A deposit that is withdrawn at once returns no more of either coin.
THEOREM SwapDepositNeverProfits == Spec => []DepositNeverProfits
<1>1. IInv => DepositNeverProfits
  <2>. SUFFICES ASSUME IInv, lpTotal # 0, NEW x \in Amounts \ {0}, NEW y \in Amounts \ {0},
                       LpToMint(x, y, reserveX, reserveY, lpTotal) > 0
                PROVE  LET minted == LpToMint(x, y, reserveX, reserveY, lpTotal) IN
                       /\ Proportion(minted, reserveX + x, lpTotal + minted) <= x
                       /\ Proportion(minted, reserveY + y, lpTotal + minted) <= y
    BY DEF DepositNeverProfits
  <2> DEFINE m == LpToMint(x, y, reserveX, reserveY, lpTotal)
  <2>1. /\ reserveX \in Nat /\ reserveY \in Nat /\ lpTotal \in Nat /\ lpTotal > 0
        /\ x \in Nat /\ y \in Nat
    BY ReservesNat, SwapAssumption DEF IInv
  <2>2. m \in Nat /\ m * reserveX <= x * lpTotal /\ m * reserveY <= y * lpTotal
    BY <2>1, MintedBound
  <2> HIDE DEF m
  <2>3. m * (reserveX + x) <= x * (lpTotal + m) /\ m * (reserveY + y) <= y * (lpTotal + m)
    BY <2>1, <2>2, MintBound
  <2>4. /\ m * (reserveX + x) \in Nat /\ m * (reserveY + y) \in Nat
        /\ lpTotal + m \in Nat /\ lpTotal + m > 0
    BY <2>1, <2>2, Products
  <2>5. /\ Proportion(m, reserveX + x, lpTotal + m) <= x
        /\ Proportion(m, reserveY + y, lpTotal + m) <= y
    BY <2>1, <2>3, <2>4, RoundedBelow DEF Proportion
  <2>. QED BY <2>5 DEF m
<1>. QED BY <1>1, SpecIInv, PTL

\* A trade that is undone at once returns no more, and takes no reserve whole.
LEMMA RoundTrip ==
    ASSUME FeeFactorOK, NEW p \in Nat, NEW i \in Nat, NEW o \in Nat, i > 0, o > 0
    PROVE  LET q == Bought(p, i, o) IN q < o /\ Bought(q, o - q, i + p) <= p
<1> DEFINE q == Bought(p, i, o)
           back == Bought(q, o - q, i + p)
<1>1. q \in Nat /\ q < o /\ q * (i + p) <= o * p
  BY BoughtBound
<1>2. o - q \in Nat /\ o - q > 0 /\ i + p \in Nat /\ i + p > 0
  BY <1>1
<1>3. back \in Nat /\ back * ((o - q) + q) <= (i + p) * q
  <2> HIDE DEF q
  <2>. QED BY <1>1, <1>2, BoughtBound
<1> HIDE DEF q, back
<1>4. (o - q) + q = o /\ (i + p) * q = q * (i + p) /\ o * p = p * o
  BY <1>1, Z3
<1>5. back * o <= p * o
  BY <1>1, <1>2, <1>3, <1>4, Products
<1>6. back <= p
  BY <1>3, <1>5, CancelTimes
<1>. QED BY <1>1, <1>6 DEF q, back

\* Trading there and back at once never profits, at any reserves and fee.
THEOREM SwapTradeNeverProfits == Spec => []TradeNeverProfits
<1>1. IInv => TradeNeverProfits
  <2>. SUFFICES ASSUME IInv, lpTotal # 0, NEW paid \in Amounts \ {0}
                PROVE  LET y == Bought(paid, reserveX, reserveY)
                           x == Bought(paid, reserveY, reserveX)
                       IN  /\ y < reserveY /\ x < reserveX
                           /\ Bought(y, reserveY - y, reserveX + paid) <= paid
                           /\ Bought(x, reserveX - x, reserveY + paid) <= paid
    BY DEF TradeNeverProfits
  <2>1. /\ reserveX \in Nat /\ reserveY \in Nat /\ paid \in Nat
        /\ reserveX > 0 /\ reserveY > 0
    BY ReservesNat, SwapAssumption DEF IInv, NothingStranded
  <2>2. FeeFactorOK
    BY FeeFactorBound DEF IInv, Opened
  <2>. QED BY <2>1, <2>2, RoundTrip
<1>. QED BY <1>1, SpecIInv, PTL

\* Neither round trip pays.
THEOREM SwapRoundTripNeverProfits == Spec => []RoundTripNeverProfits
BY SwapDepositNeverProfits, SwapTradeNeverProfits, PTL DEF RoundTripNeverProfits
-----------------------------------------------------------------------------
(* The square root.  Its loop is a function of naturals, defined by an       *)
(* equation: DescendExists shows that the equation has a solution, by        *)
(* induction on z, and DescendRoot what every solution returns.              *)

\* A set of naturals that is not empty has a least member.
LEMMA NatMin == ASSUME NEW T, T \subseteq Nat, T # {}
                PROVE  \E n \in T : \A m \in T : n <= m
<1> DEFINE R == {ss \in Nat \X Nat : ss[1] < ss[2]}
<1>1. IsWellFoundedOn(R, Nat)
  BY NatLessThanWellFounded DEF OpToRel
<1>2. \E n \in T : \A m \in T : ~ (<<m, n>> \in R)
  BY <1>1, WFMin
<1>3. \A n, m \in Nat : <<m, n>> \in R <=> m < n
  OBVIOUS
<1> HIDE DEF R
<1>4. PICK n \in T : \A m \in T : ~ (<<m, n>> \in R)
  BY <1>2
<1>5. \A m \in T : ~ (m < n)
  BY <1>3, <1>4
<1>. QED BY <1>5

\* A set with 0 and every successor of its members has every natural.
LEMMA Induct == ASSUME NEW T, 0 \in T, \A n \in Nat : n \in T => n + 1 \in T
                PROVE  Nat \subseteq T
<1> SUFFICES ASSUME Nat \ T # {} PROVE FALSE
  OBVIOUS
<1>1. PICK n \in Nat \ T : \A m \in Nat \ T : n <= m
  BY NatMin
<1>2. n # 0 /\ n - 1 \in Nat
  OBVIOUS
<1>3. n - 1 \in T
  BY <1>1, <1>2
<1>4. (n - 1) + 1 = n
  BY <1>2
<1>. QED BY <1>2, <1>3, <1>4

Points == Pos \X Pos \X Pos

\* The point after p, the points with z up to n, and the loop on those.
After(p) == <<p[1], (p[1] \div p[2] + p[2]) \div 2, p[2]>>
UpTo(n) == {p \in Points : p[3] <= n}
Solves(f, S) == f = [p \in S |-> IF p[2] < p[3] THEN f[After(p)] ELSE p[3]]

LEMMA AfterPoint ==
    ASSUME NEW p \in Points, p[2] < p[3]
    PROVE  After(p) \in Points /\ After(p)[3] < p[3] /\ After(p)[3] = p[2]
<1> DEFINE y == p[1]  x == p[2]  q == y \div x
<1>1. y \in Pos /\ x \in Pos /\ p[3] \in Pos
  BY DEF Points
<1>2. q \in Nat /\ y < x * (q + 1)
  BY <1>1, Z3 DEF Pos
<1>3. q + x >= 2
  BY <1>1, <1>2 DEF Pos
<1> HIDE DEF q
<1>4. (q + x) \div 2 \in Pos
  BY <1>1, <1>2, <1>3 DEF Pos
<1>. QED BY <1>1, <1>4 DEF q, After, Points

\* Two solutions agree where both are defined.
LEMMA SolutionsAgree ==
    ASSUME NEW m \in Nat, NEW n \in Nat, m <= n, NEW f, NEW g,
           Solves(f, UpTo(m)), Solves(g, UpTo(n))
    PROVE  \A p \in UpTo(m) : f[p] = g[p]
<1> DEFINE T == {k \in Nat : \E p \in UpTo(m) : p[3] = k /\ f[p] # g[p]}
<1> SUFFICES ASSUME T # {} PROVE FALSE
  BY DEF UpTo, Points, Pos
<1>1. PICK k \in T : \A j \in T : k <= j
  BY NatMin
<1>2. PICK p \in UpTo(m) : p[3] = k /\ f[p] # g[p]
  BY <1>1
<1>3. p \in Points /\ p \in UpTo(n) /\ p[3] \in Nat
  BY <1>2 DEF UpTo, Points, Pos
<1>4. f[p] = IF p[2] < p[3] THEN f[After(p)] ELSE p[3]
  BY <1>2 DEF Solves
<1>5. g[p] = IF p[2] < p[3] THEN g[After(p)] ELSE p[3]
  BY <1>3 DEF Solves
<1>6. p[2] < p[3]
  BY <1>2, <1>4, <1>5
<1>7. After(p) \in Points /\ After(p)[3] < p[3] /\ After(p)[3] \in Nat
  BY <1>3, <1>6, AfterPoint DEF Points, Pos
<1>8. After(p) \in UpTo(m)
  BY <1>2, <1>3, <1>7 DEF UpTo
<1>9. f[After(p)] # g[After(p)]
  BY <1>2, <1>4, <1>5, <1>6
<1>10. After(p)[3] \in T
  BY <1>7, <1>8, <1>9
<1>. QED BY <1>1, <1>2, <1>7, <1>10

LEMMA SolutionUpTo == \A n \in Nat : \E f : Solves(f, UpTo(n))
<1> DEFINE T == {n \in Nat : \E f : Solves(f, UpTo(n))}
           F(n, f) == [p \in UpTo(n) |-> IF p[2] < p[3] THEN f[After(p)] ELSE p[3]]
<1>1. 0 \in T
  <2>1. UpTo(0) = {}
    BY DEF UpTo, Points, Pos
  <2>2. Solves(F(0, 0), UpTo(0))
    BY <2>1 DEF Solves
  <2>. QED BY <2>2
<1>2. ASSUME NEW n \in Nat, n \in T PROVE n + 1 \in T
  <2>1. PICK f : Solves(f, UpTo(n))
    BY <1>2
  <2> DEFINE g == F(n + 1, f)
  <2>2. ASSUME NEW p \in UpTo(n + 1), p[2] < p[3] PROVE g[After(p)] = f[After(p)]
    <3>1. After(p) \in Points /\ After(p)[3] < p[3] /\ p[3] \in Nat /\ After(p)[3] \in Nat
      BY <2>2, AfterPoint DEF UpTo, Points, Pos
    <3>2. After(p) \in UpTo(n) /\ After(p) \in UpTo(n + 1)
      BY <2>2, <3>1 DEF UpTo
    <3> DEFINE a == After(p)
    <3>3. g[a] = IF a[2] < a[3] THEN f[After(a)] ELSE a[3]
      BY <3>2
    <3>4. f[a] = IF a[2] < a[3] THEN f[After(a)] ELSE a[3]
      BY <3>2, <2>1 DEF Solves
    <3>. QED BY <3>3, <3>4
  <2>3. g = F(n + 1, g)
    <3>1. \A p \in UpTo(n + 1) :
             (IF p[2] < p[3] THEN f[After(p)] ELSE p[3]) = (IF p[2] < p[3] THEN g[After(p)] ELSE p[3])
      BY <2>2
    <3> DEFINE h == F(n + 1, g)
    <3>2. \A p \in UpTo(n + 1) : h[p] = IF p[2] < p[3] THEN g[After(p)] ELSE p[3]
      OBVIOUS
    <3>3. \A p \in UpTo(n + 1) : g[p] = IF p[2] < p[3] THEN f[After(p)] ELSE p[3]
      OBVIOUS
    <3>4. g = [p \in UpTo(n + 1) |-> g[p]] /\ h = [p \in UpTo(n + 1) |-> h[p]]
      OBVIOUS
    <3> HIDE DEF g, h
    <3>5. g = h
      BY <3>1, <3>2, <3>3, <3>4
    <3>. QED BY <3>5 DEF h
  <2> HIDE DEF g
  <2>4. Solves(g, UpTo(n + 1))
    BY <2>3 DEF Solves
  <2>. QED BY <2>4
<1> HIDE DEF T
<1>3. Nat \subseteq T
  BY <1>1, <1>2, Induct
<1>. QED BY <1>3 DEF T

LEMMA DescendExists == Solves(descend, Points)
<1> DEFINE upTo(n) == CHOOSE f : Solves(f, UpTo(n))
           g == [p \in Points |-> upTo(p[3])[p]]
<1>1. \A n \in Nat : Solves(upTo(n), UpTo(n))
  BY SolutionUpTo
<1> HIDE DEF upTo
<1>2. ASSUME NEW p \in Points PROVE g[p] = IF p[2] < p[3] THEN g[After(p)] ELSE p[3]
  <2> DEFINE z == p[3]
  <2>1. z \in Nat /\ p \in UpTo(z)
    BY <1>2 DEF UpTo, Points, Pos
  <2>2. upTo(z)[p] = IF p[2] < p[3] THEN upTo(z)[After(p)] ELSE p[3]
    BY <1>1, <2>1 DEF Solves
  <2>3. ASSUME p[2] < p[3] PROVE upTo(z)[After(p)] = g[After(p)]
    <3> DEFINE a == After(p)
    <3>1. a \in Points /\ a[3] < z /\ a[3] \in Nat
      BY <1>2, <2>3, AfterPoint DEF Points, Pos
    <3>2. a \in UpTo(a[3])
      BY <3>1 DEF UpTo
    <3> HIDE DEF a
    <3>3. upTo(a[3])[a] = upTo(z)[a]
      BY <1>1, <2>1, <3>1, <3>2, SolutionsAgree
    <3>4. g[a] = upTo(a[3])[a]
      BY <3>1
    <3>. QED BY <3>3, <3>4 DEF a
  <2>4. g[p] = upTo(z)[p]
    BY <1>2
  <2> HIDE DEF g, z
  <2>. QED BY <2>2, <2>3, <2>4
<1>3. \E f : Solves(f, Points)
  <2>1. g = [p \in Points |-> g[p]]
    OBVIOUS
  <2> HIDE DEF g
  <2>2. [p \in Points |-> g[p]] = [p \in Points |-> IF p[2] < p[3] THEN g[After(p)] ELSE p[3]]
    BY <1>2
  <2>. QED BY <2>1, <2>2 DEF Solves
<1>4. descend = CHOOSE f : Solves(f, Points)
  BY DEF descend, Solves, Points, After
<1>. QED BY <1>3, <1>4

\* Twice the average of y / x and x, rounded, exceeds the root of y.
LEMMA AverageAbove ==
    ASSUME NEW y \in Pos, NEW x \in Pos
    PROVE  LET m == (y \div x + x) \div 2 IN m \in Pos /\ (m + 1) * (m + 1) > y
<1> DEFINE q == y \div x  m == (q + x) \div 2
<1>1. x \in Nat /\ y \in Nat /\ x >= 1 /\ y >= 1
  BY DEF Pos
<1>2. q \in Nat /\ y < x * (q + 1)
  BY <1>1, Z3
<1> HIDE DEF q
<1>3. q + x >= 2
  BY <1>1, <1>2
<1>4. m \in Nat /\ m >= 1 /\ 2 * (m + 1) >= q + x + 1
  BY <1>1, <1>2, <1>3
<1> HIDE DEF m
<1>5. (q + 1 + x) * (q + 1 + x) >= 4 * (x * (q + 1))
  <2> DEFINE a == q + 1
  <2>1. (a - x) * (a - x) >= 0
    BY <1>1, <1>2, Z3
  <2>2. (a + x) * (a + x) = (a - x) * (a - x) + 4 * (x * a)
    BY <1>1, <1>2, Z3
  <2>. QED BY <1>1, <1>2, <2>1, <2>2, Z3
<1>6. (2 * (m + 1)) * (2 * (m + 1)) >= (q + 1 + x) * (q + 1 + x)
  BY <1>1, <1>2, <1>4, MonotoneTimes
<1>7. (2 * (m + 1)) * (2 * (m + 1)) = 4 * ((m + 1) * (m + 1))
  BY <1>4, Z3
<1>8. (m + 1) * (m + 1) > y
  <2> DEFINE s == (m + 1) * (m + 1)  t == x * (q + 1)  u == (q + 1 + x) * (q + 1 + x)
  <2>1. s \in Nat /\ t \in Nat /\ u \in Nat
    BY <1>1, <1>2, <1>4, Products
  <2>2. u >= 4 * t /\ 4 * s >= u /\ y < t
    BY <1>2, <1>5, <1>6, <1>7
  <2> HIDE DEF s, t, u
  <2>3. s > y
    BY <1>1, <2>1, <2>2
  <2>. QED BY <2>3 DEF s
<1>. QED BY <1>4, <1>8 DEF m, q, Pos

\* Between the loop's steps both x and z are above the root, rounded down; if
\* the loop is to stop, z is not above it.
Descending(p) ==
    /\ p \in Points
    /\ p[2] < p[3] \/ p[3] * p[3] <= p[1]
    /\ (p[2] + 1) * (p[2] + 1) > p[1]
    /\ (p[3] + 1) * (p[3] + 1) > p[1]

IsRoot(r, y) == r \in Nat /\ r * r <= y /\ y < (r + 1) * (r + 1)

LEMMA AfterDescending ==
    ASSUME NEW p, Descending(p), p[2] < p[3]
    PROVE  Descending(After(p)) /\ After(p)[1] = p[1]
<1> DEFINE y == p[1]  x == p[2]  q == y \div x  m == (q + x) \div 2
<1>1. y \in Pos /\ x \in Pos /\ (x + 1) * (x + 1) > y
  BY DEF Descending, Points
<1>2. m \in Pos /\ (m + 1) * (m + 1) > y
  BY <1>1, AverageAbove
<1>3. q \in Nat /\ q * x <= y
  BY <1>1, RoundedDown DEF Pos
<1>4. m < x \/ x * x <= y
  <2> SUFFICES ASSUME ~(m < x) PROVE x * x <= y
    OBVIOUS
  <2>1. x <= q
    <3> HIDE DEF q
    <3>. QED BY <1>1, <1>2, <1>3 DEF Pos
  <2>2. x * x <= q * x
    BY <1>1, <1>3, <2>1, MonotoneTimes DEF Pos
  <2>. QED BY <1>1, <1>3, <2>2, Products DEF Pos
<1>5. After(p) = <<y, m, x>>
  BY DEF After
<1> HIDE DEF m, y, x
<1>. QED BY <1>1, <1>2, <1>4, <1>5 DEF Descending, Points, y, x

LEMMA DescendRoot == \A p : Descending(p) => IsRoot(descend[p], p[1])
<1> DEFINE T == {k \in Nat : \E p : Descending(p) /\ p[3] = k /\ ~IsRoot(descend[p], p[1])}
<1> SUFFICES ASSUME T # {} PROVE FALSE
  BY DEF Descending, Points, Pos
<1>1. PICK k \in T : \A j \in T : k <= j
  BY NatMin
<1>2. PICK p : Descending(p) /\ p[3] = k /\ ~IsRoot(descend[p], p[1])
  BY <1>1
<1>3. p \in Points /\ p[1] \in Nat /\ p[3] \in Nat
  BY <1>2 DEF Descending, Points, Pos
<1>4. descend[p] = IF p[2] < p[3] THEN descend[After(p)] ELSE p[3]
  BY <1>3, DescendExists DEF Solves
<1>5. CASE p[2] < p[3]
  <2>1. Descending(After(p)) /\ After(p)[1] = p[1]
    BY <1>2, <1>5, AfterDescending
  <2>2. After(p)[3] < p[3] /\ After(p)[3] \in Nat
    BY <1>3, <1>5, AfterPoint DEF Points, Pos
  <2>3. ~IsRoot(descend[After(p)], After(p)[1])
    BY <1>2, <1>4, <1>5, <2>1
  <2>4. After(p)[3] \in T
    BY <2>1, <2>2, <2>3
  <2>. QED BY <1>1, <1>2, <2>2, <2>4
<1>6. CASE ~(p[2] < p[3])
  BY <1>2, <1>3, <1>4, <1>6 DEF Descending, IsRoot
<1>. QED BY <1>5, <1>6

\* sqrt returns the integer square root of every natural.
LEMMA SqrtRoot == \A y \in Nat : IsRoot(sqrt(y), y)
<1> SUFFICES ASSUME NEW y \in Nat PROVE IsRoot(sqrt(y), y)
  OBVIOUS
<1>1. CASE y > 3
  <2> DEFINE x == y \div 2 + 1
  <2>1. x \in Pos /\ x < y /\ 2 * x >= y + 1
    BY <1>1 DEF Pos
  <2> HIDE DEF x
  <2>2. (x + 1) * (x + 1) > y
    BY <1>1, <2>1, Z3 DEF Pos
  <2>3. (y + 1) * (y + 1) > y
    BY Z3
  <2>4. Descending(<<y, x, y>>)
    BY <1>1, <2>1, <2>2, <2>3 DEF Descending, Points, Pos
  <2>5. sqrt(y) = descend[<<y, x, y>>]
    BY <1>1 DEF sqrt, x
  <2>. QED BY <2>4, <2>5, DescendRoot
<1>2. CASE ~(y > 3)
  BY <1>2 DEF sqrt, IsRoot
<1>. QED BY <1>1, <1>2

\* For every width: the first deposit's shares are the integer square root of
\* x * y, however large, so they never exceed the geometric mean (swap.move:81,
\* 241-255).
THEOREM SwapFirstDepositFair == Spec => []FirstDepositFair
<1>1. IInv => FirstDepositFair
  <2> SUFFICES ASSUME lpTotal = 0, NEW x \in 0..MaxU64, NEW y \in 0..MaxU64
               PROVE  IsRoot(LpToMint(x, y, reserveX, reserveY, lpTotal), x * y)
    BY DEF FirstDepositFair, IsRoot
  <2>1. x * y \in Nat
    BY SwapAssumption, Products
  <2>. QED BY <2>1, SqrtRoot DEF LpToMint
<1>. QED BY <1>1, SpecIInv, PTL
=============================================================================
