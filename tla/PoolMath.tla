------------------------------ MODULE PoolMath ------------------------------
(***************************************************************************)
(* The arithmetic of a pair as contracts/compound_proxy repeats it:        *)
(* contract.rs for constant product pairs, simulation.rs for stable ones.  *)
(* Amounts are naturals.  Where the code divides in Decimal256, with 18    *)
(* digits, the quotient is exact here and the result the same for amounts  *)
(* of fewer digits.                                                        *)
(***************************************************************************)
EXTENDS Ratios

CONSTANTS
    COMMISSION_DENOM,   \* 10000 in the code
    AMP_PRECISION,      \* 100 in the code
    ITERATIONS          \* 32 in the code

ASSUME PoolMathAssumption ==
    COMMISSION_DENOM \in Nat \ {0} /\ AMP_PRECISION \in Nat \ {0} /\ ITERATIONS \in Nat

\* Uint256::isqrt, rounded down.
Isqrt(n) ==
    LET root[x \in 0 .. n] ==
            IF x = 0 THEN 0
            ELSE LET r == 2 * root[x \div 4]
                 IN  IF (r + 1) * (r + 1) <= x THEN r + 1 ELSE r
    IN  root[n]

\* A faulty variant: the amounts of the two assets are mixed up.
GetSwapAmountCrossed(amount_a, amount_b, pool_a, pool_b, bps) ==
    Isqrt((amount_b + pool_a) * pool_a) - pool_a

\* get_swap_amount: how much of `a' to sell so that the rest of it and what
\* is returned have the proportion of the pool.
GetSwapAmount(amount_a, amount_b, pool_a, pool_b, bps) ==
    LET area_ax == (amount_a + pool_a) * pool_b
        area_bx == (amount_b + pool_b) * pool_a
        a == bps * bps * area_ax + 4 * (COMMISSION_DENOM - bps) * COMMISSION_DENOM * area_bx
        b == bps * area_ax + Isqrt(area_ax) * Isqrt(a)
        sold == (b \div (2 * COMMISSION_DENOM)) \div (amount_b + pool_b)
    IN  IF sold > pool_a THEN sold - pool_a ELSE 0

\* simulate: what a constant product pair returns.
Simulate(offer_pool, ask_pool, offer_amount, bps) ==
    LET return_amount == ask_pool - MulRatioCeil(offer_pool, ask_pool, offer_pool + offer_amount)
    IN  return_amount - MulRatio(return_amount, bps, COMMISSION_DENOM)

\* What selling the asset that is in excess comes to; a sale that returns
\* nothing is not made.
Sale(amount_a, amount_b, pool_a, pool_b, bps) ==
    LET sold     == GetSwapAmount(amount_a, amount_b, pool_a, pool_b, bps)
        returned == IF sold = 0 THEN 0 ELSE Simulate(pool_a, pool_b, sold, bps)
    IN  IF returned = 0 THEN [sold |-> 0, returned |-> 0]
        ELSE [sold |-> sold, returned |-> returned]

\* The LP minted for x and y.
ProvideShare(x, y, pool) ==
    IF pool.total = 0 THEN Isqrt(x * y)
    ELSE AtMost(MulRatio(x, pool.total, pool.a), MulRatio(y, pool.total, pool.b))

\* calculate_step.
CalculateStep(d, leverage, sum_x, d_product) ==
    (((leverage * sum_x) \div AMP_PRECISION + 2 * d_product) * d)
        \div (((leverage - AMP_PRECISION) * d) \div AMP_PRECISION + 3 * d_product)

\* A faulty variant: one coin is left out of the product.
ProductOneCoin(d, a, b) == (d * d) \div (2 * a + 1)

Product(d, a, b) == (((d * d) \div (2 * a + 1)) * d) \div (2 * b + 1)

\* compute_d: the invariant of a stable pool by Newton's method.
ComputeD(leverage, a, b) ==
    LET next(d) == CalculateStep(d, leverage, a + b, Product(d, a, b))
        after[i \in 0 .. ITERATIONS] ==
            IF i = 0 THEN a + b
            ELSE LET d == after[i - 1] IN IF d = 0 THEN 0 ELSE next(d)
    IN  after[ITERATIONS]

\* The LP minted for x and y by a stable pair that has LP.
StableShare(x, y, pool, leverage) ==
    LET before == ComputeD(leverage, pool.a, pool.b)
        after  == ComputeD(leverage, pool.a + x, pool.b + y)
    IN  IF before >= after THEN 0 ELSE MulRatio(pool.total, after - before, before)

-----------------------------------------------------------------------------
(* What these are approximations of *)

\* The LP that selling `sold' of the first asset leads to.
ShareAfterSale(sold, x, y, pool, bps) ==
    LET returned == Simulate(pool.a, pool.b, sold, bps)
    IN  ProvideShare(x - sold, y + returned,
                     [pool EXCEPT !.a = @ + sold, !.b = @ - returned])

\* How far the two roots of get_swap_amount, each less than 1 too small, can
\* keep the sale from the exact solution.
Reach(amount_a, amount_b, pool_a, pool_b, bps) ==
    LET area_ax == (amount_a + pool_a) * pool_b
        area_bx == (amount_b + pool_b) * pool_a
        a == bps * bps * area_ax + 4 * (COMMISSION_DENOM - bps) * COMMISSION_DENOM * area_bx
    IN  2 + (Isqrt(area_ax) + Isqrt(a)) \div (2 * COMMISSION_DENOM * (amount_b + pool_b))

\* Of x and y, selling `sold' of x is the best for the LP but for rounding.
\* `worth' compares LP with what the second asset makes once n has returned.
\* The sale gets all that what it returns makes, but for 1 unit: it leaves
\* enough of x.  And no sale gets more than what a sale larger by Reach would
\* make of the second asset, with 1 unit more: a larger one lacks x.
IsBestSale(sold, x, y, pool, bps) ==
    LET returned(s) == Simulate(pool.a, pool.b, s, bps)
        lp(s) == ShareAfterSale(s, x, y, pool, bps)
        worth(n) == (y + n) * pool.total
        least == returned(sold) - 1
        most  == 1 + returned(GetSwapAmount(x, y, pool.a, pool.b, bps)
                                  + Reach(x, y, pool.a, pool.b, bps))
    IN  /\ sold <= x
        /\ worth(least) < (lp(sold) + 1) * (pool.b - least)
        /\ \A s \in 0 .. x : lp(s) * (pool.b - most) <= worth(most)

\* The invariant D solves  D^3 / K + (L - 1)*D = L*S, S being the sum and L
\* the leverage; K is 4ab, for which the code takes what it can divide by.
\* d is not below the root iff the left side is not below the right one; the
\* multiple of K is taken apart to keep the numbers small.
NotBelow(leverage, a, b, d) ==
    LET K == (2 * a + 1) * (2 * b + 1)
        linear == leverage * (a + b) - (leverage - AMP_PRECISION) * d
    IN  d * d * d >= K * (linear \div AMP_PRECISION)
                         + MulRatioCeil(K, linear % AMP_PRECISION, AMP_PRECISION)

\* How far a round may end below the root.
Below(leverage) == IF leverage % AMP_PRECISION = 0 THEN 1 ELSE 2

\* How far the rounds may end above a number that is not below the root: each
\* leaves two thirds of what it was and adds what its truncations are worth,
\* and one that starts below ends a few units above at most.
Above(leverage, a, b) ==
    LET unit == ((leverage - AMP_PRECISION) \div AMP_PRECISION) * (2 * b + 1)
        truncated(k) == k * (2 * b + 1) + a + b + 1
        below == Below(leverage)
        turned == truncated((2 * below + 1) * (below + 2)) \div unit
        gap[i \in 0 .. ITERATIONS] ==
            IF i = 0 THEN a + b
            ELSE LET left == (2 * unit * gap[i - 1] + 3 * truncated(2)) \div (3 * unit)
                 IN  IF left > turned THEN left ELSE turned
    IN  gap[ITERATIONS]

\* d is the root but for Below and Above.
IsInvariant(leverage, a, b, d) ==
    /\ NotBelow(leverage, a, b, d + Below(leverage))
    /\ d > Above(leverage, a, b) + 1 => ~NotBelow(leverage, a, b, d - Above(leverage, a, b) - 1)
=============================================================================
