-------------------------------- MODULE Swap --------------------------------
(***************************************************************************)
(* One pool of contracts/swap/sources/swap.move: a constant-product market *)
(* of two coins whose shares are minted for deposits and burnt for         *)
(* withdrawals, everything rounded down.  A call that aborts changes       *)
(* nothing and is no step; min_amount_out only makes a swap abort.  Who    *)
(* holds the shares does not matter to the code: whoever burns some brings *)
(* them as a coin.                                                         *)
(***************************************************************************)
EXTENDS Integers

CONSTANTS
    Amounts,        \* amounts of either coin paid in
    Fees,           \* fees tried at creation
    Multiplier,     \* 10000
    MaxU64, MaxU128,
    NoPool          \* feePct before create_pool

ASSUME SwapAssumption ==
    /\ Amounts \subseteq Nat /\ Fees \subseteq Nat
    /\ Multiplier \in Nat \ {0}
    /\ MaxU64 \in Nat /\ MaxU128 \in Nat /\ MaxU64 * MaxU64 <= MaxU128
    /\ NoPool \notin Nat

VARIABLES
    feePct, reserveX, reserveY, lpTotal

vars == <<feePct, reserveX, reserveY, lpTotal>>

Init ==
    /\ feePct = NoPool
    /\ reserveX = 0 /\ reserveY = 0
    /\ lpTotal = 0

CreatePool(fee) ==
    /\ feePct = NoPool
    /\ fee < Multiplier
    /\ feePct' = fee
    /\ UNCHANGED <<reserveX, reserveY, lpTotal>>

Open == feePct # NoPool

-----------------------------------------------------------------------------
(* Shares                                                                  *)

Pos == Nat \ {0}

\* Newton's iteration from above, at <<y, x, z>>: z falls until the next x does
\* not.
descend[p \in Pos \X Pos \X Pos] ==
    LET y == p[1]  x == p[2]  z == p[3] IN
        IF x < z THEN descend[<<y, (y \div x + x) \div 2, x>>] ELSE z

sqrtMutant(y) == IF y > 3 THEN descend[<<y, y \div 2 + 1, y \div 2 + 1>>] ELSE IF y # 0 THEN 1 ELSE 0
sqrt(y) == IF y > 3 THEN descend[<<y, y \div 2 + 1, y>>] ELSE IF y # 0 THEN 1 ELSE 0

LesserMutant(a, b) == IF a < b THEN b ELSE a
Lesser(a, b) == IF a < b THEN a ELSE b

\* amount * part / whole, rounded down.
ProportionMutant(amount, part, whole) == (amount * part + whole - 1) \div whole
Proportion(amount, part, whole) == (amount * part) \div whole

\* Shares for a deposit of x and y into reserves rx and ry.
LpToMint(x, y, rx, ry, total) ==
    IF total = 0 THEN sqrt(x * y)
    ELSE Lesser(Proportion(x, total, rx), Proportion(y, total, ry))

\* Coins join the reserves, unless they overflow; so do shares the supply.
Fits(balance, amount) == balance + amount <= MaxU64

AddLiquidity(x, y) ==
    LET minted == LpToMint(x, y, reserveX, reserveY, lpTotal) IN
    /\ Open
    /\ x > 0 /\ y > 0
    /\ lpTotal # 0 => /\ Proportion(x, lpTotal, reserveX) <= MaxU64
                      /\ Proportion(y, lpTotal, reserveY) <= MaxU64
    /\ minted \in 1..(MaxU64 - 1)
    /\ Fits(reserveX, x) /\ Fits(reserveY, y) /\ minted < MaxU64 - lpTotal
    /\ reserveX' = reserveX + x
    /\ reserveY' = reserveY + y
    /\ lpTotal' = lpTotal + minted
    /\ UNCHANGED feePct

RemoveLiquidity(lp) ==
    LET xOut == Proportion(lp, reserveX, lpTotal)
        yOut == Proportion(lp, reserveY, lpTotal)
    IN
    /\ Open
    /\ lp \in 1..lpTotal
    /\ xOut > 0 /\ yOut > 0
    /\ lpTotal' = lpTotal - lp
    /\ reserveX' = reserveX - xOut
    /\ reserveY' = reserveY - yOut
    /\ UNCHANGED feePct

-----------------------------------------------------------------------------
(* Swaps                                                                   *)

feeFactor == Multiplier - feePct

\* What `paid` of a coin buys of the other one.
BoughtMutant(paid, in, out) ==
    (out * paid * feeFactor) \div (in * Multiplier)
Bought(paid, in, out) ==
    (out * paid * feeFactor) \div (in * Multiplier + paid * feeFactor)

NoOverflow(paid, in, out) ==
    /\ out * paid * feeFactor <= MaxU128
    /\ in * Multiplier + paid * feeFactor <= MaxU128

SwapXForY(dx) ==
    /\ Open
    /\ dx > 0 /\ reserveX > 0 /\ reserveY > 0
    /\ NoOverflow(dx, reserveX, reserveY) /\ Fits(reserveX, dx)
    /\ reserveX' = reserveX + dx
    /\ reserveY' = reserveY - Bought(dx, reserveX, reserveY)
    /\ UNCHANGED <<feePct, lpTotal>>

SwapYForX(dy) ==
    /\ Open
    /\ dy > 0 /\ reserveX > 0 /\ reserveY > 0
    /\ NoOverflow(dy, reserveY, reserveX) /\ Fits(reserveY, dy)
    /\ reserveY' = reserveY + dy
    /\ reserveX' = reserveX - Bought(dy, reserveY, reserveX)
    /\ UNCHANGED <<feePct, lpTotal>>

-----------------------------------------------------------------------------
Next ==
    \/ \E fee \in Fees : CreatePool(fee)
    \/ \E x, y \in Amounts : AddLiquidity(x, y)
    \/ \E lp \in 1..lpTotal : RemoveLiquidity(lp)
    \/ \E paid \in Amounts : SwapXForY(paid) \/ SwapYForX(paid)

Spec == Init /\ [][Next]_vars

-----------------------------------------------------------------------------
(* Properties                                                              *)

\* Every variable has its type: no reserve is negative or beyond 64 bits.
TypeOK ==
    /\ feePct \in {fee \in Fees : fee < Multiplier} \cup {NoPool}
    /\ reserveX \in 0..MaxU64 /\ reserveY \in 0..MaxU64
    /\ lpTotal \in 0..MaxU64

\* Shares and reserves run out together: no sequence of deposits, withdrawals
\* and swaps leaves coins no share can claim, or shares on an empty reserve (a
\* later deposit would divide by it).
NothingStranded ==
    IF lpTotal = 0 THEN reserveX = 0 /\ reserveY = 0
                   ELSE reserveX > 0 /\ reserveY > 0

\* No call lowers what the remaining shares are worth, reserveX * reserveY /
\* lpTotal^2: every rounding is in favour of those who stay.
ShareValueStep ==
    reserveX * reserveY * (lpTotal' * lpTotal') <= reserveX' * reserveY' * (lpTotal * lpTotal)
ShareValueKept == [][lpTotal # 0 /\ lpTotal' # 0 => ShareValueStep]_vars

\* Whoever deposits and withdraws at once gets back no more of either coin.
DepositNeverProfits ==
    lpTotal # 0 => \A x, y \in Amounts \ {0} :
        LET minted == LpToMint(x, y, reserveX, reserveY, lpTotal) IN
        minted > 0 =>
            /\ Proportion(minted, reserveX + x, lpTotal + minted) <= x
            /\ Proportion(minted, reserveY + y, lpTotal + minted) <= y

\* Whoever swaps and swaps back at once gets back no more, and no swap empties
\* a reserve.
TradeNeverProfits ==
    lpTotal # 0 => \A paid \in Amounts \ {0} :
        LET y == Bought(paid, reserveX, reserveY)
            x == Bought(paid, reserveY, reserveX)
        IN  /\ y < reserveY /\ x < reserveX
            /\ Bought(y, reserveY - y, reserveX + paid) <= paid
            /\ Bought(x, reserveX - x, reserveY + paid) <= paid

\* Neither a deposit and its withdrawal nor a swap and its return pays, in any
\* pool that a sequence of calls can leave.
RoundTripNeverProfits == DepositNeverProfits /\ TradeNeverProfits

\* The first deposit's shares are the integer square root of x * y, so they
\* claim neither more nor, by a whole share, less than the geometric mean.
FirstDepositFair ==
    lpTotal = 0 => \A x, y \in 0..MaxU64 :
        LET minted == LpToMint(x, y, reserveX, reserveY, lpTotal) IN
        minted * minted <= x * y /\ x * y < (minted + 1) * (minted + 1)
=============================================================================
