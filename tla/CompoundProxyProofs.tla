------------------------ MODULE CompoundProxyProofs ------------------------
(***************************************************************************)
(* Theorems about CompoundProxy and PoolMath, for every pair, route, list  *)
(* of rewards and bound: the square root and the invariant are numbers,    *)
(* what is sold can be paid, the accounts of a compound add up, and the    *)
(* simulation promises no more than the messages bring, as far as it can   *)
(* foresee what they meet.                                                 *)
(***************************************************************************)
EXTENDS CompoundProxy, RatiosTheorems, SequenceTheorems, TLAPS

-----------------------------------------------------------------------------
(* Square roots *)

\* One step of the recursion of Isqrt.
RootStep(f, x) ==
    IF x = 0 THEN 0
    ELSE LET r == 2 * f[x \div 4]
         IN  IF (r + 1) * (r + 1) <= x THEN r + 1 ELSE r

\* A positive number is more than its quarter.
LEMMA QuarterBelow ==
    ASSUME NEW x \in Nat \ {0}
    PROVE  x \div 4 \in Nat /\ x \div 4 < x
  OBVIOUS

\* The recursion of Isqrt has a solution.
LEMMA RootsExist ==
    ASSUME NEW n \in Nat
    PROVE  \E f : f = [x \in 0 .. n |-> RootStep(f, x)]
  <1> DEFINE P(k) == \E f : f = [x \in 0 .. k |-> RootStep(f, x)]
             T == {k \in Nat : ~P(k)}
  <1>1. ASSUME T # {} PROVE FALSE
    <2>1. T \in SUBSET Nat
      OBVIOUS
    <2>2. PICK m \in T : \A k \in T : m <= k
      BY <1>1, <2>1, SmallestNumber
    <2>3. CASE m = 0
      <3>1. [x \in 0 .. 0 |-> 0] = [x \in 0 .. 0 |-> RootStep([y \in 0 .. 0 |-> 0], x)]
        BY DEF RootStep
      <3>2. P(0)
        BY <3>1
      <3>3. QED
        BY <2>2, <2>3, <3>2
    <2>4. CASE m # 0
      <3>1. m - 1 \in Nat /\ m - 1 < m /\ m \in Nat
        BY <2>2, <2>4
      <3>2. P(m - 1)
        BY <3>1, <2>2
      <3>3. PICK f : f = [x \in 0 .. m - 1 |-> RootStep(f, x)]
        BY <3>2
      <3> DEFINE g == [x \in 0 .. m |-> IF x = m THEN RootStep(f, x) ELSE f[x]]
      <3>4. ASSUME NEW x \in 0 .. m PROVE g[x] = RootStep(g, x)
        <4>1. x # 0 => x \div 4 \in 0 .. m - 1
          BY <3>1, QuarterBelow
        <4>2. x # 0 => g[x \div 4] = f[x \div 4]
          BY <4>1, <3>1
        <4>3. RootStep(g, x) = RootStep(f, x)
          BY <4>2 DEF RootStep
        <4>4. x # m => f[x] = RootStep(f, x)
          BY <3>3, <3>1
        <4>5. QED
          BY <4>3, <4>4
      <3>5. g = [x \in 0 .. m |-> RootStep(g, x)]
        BY <3>4
      <3>6. P(m)
        BY <3>5
      <3>7. QED
        BY <3>6, <2>2
    <2>5. QED
      BY <2>3, <2>4
  <1>2. QED
    BY <1>1

\* Isqrt is a value of that solution.
LEMMA IsqrtUnfolds ==
    ASSUME NEW n \in Nat
    PROVE  \E f : f = [x \in 0 .. n |-> RootStep(f, x)] /\ Isqrt(n) = f[n]
  BY RootsExist DEF Isqrt, RootStep

\* Isqrt is the square root, rounded down.
LEMMA IsqrtIsRoot ==
    ASSUME NEW n \in Nat
    PROVE  /\ Isqrt(n) \in Nat
           /\ Isqrt(n) * Isqrt(n) <= n
           /\ n < (Isqrt(n) + 1) * (Isqrt(n) + 1)
  <1>1. PICK f : f = [x \in 0 .. n |-> RootStep(f, x)] /\ Isqrt(n) = f[n]
    BY IsqrtUnfolds
  <1>a. ASSUME NEW x \in 0 .. n PROVE f[x] = RootStep(f, x)
    BY <1>1
  <1> DEFINE Root(x) == f[x] \in Nat /\ f[x] * f[x] <= x /\ x < (f[x] + 1) * (f[x] + 1)
             T == {x \in Nat : x <= n /\ ~Root(x)}
  <1>2. ASSUME T # {} PROVE FALSE
    <2>1. T \in SUBSET Nat
      OBVIOUS
    <2>2. PICK m \in T : \A k \in T : m <= k
      BY <1>2, <2>1, SmallestNumber
    <2>a. m \in Nat /\ m \in 0 .. n
      BY <2>2
    <2>3. m \in Nat /\ m \in 0 .. n /\ f[m] = RootStep(f, m)
      BY <2>a, <1>a
    <2>4. CASE m = 0
      <3>1. f[m] = 0
        BY <2>3, <2>4 DEF RootStep
      <3>2. QED
        BY <2>2, <2>4, <3>1
    <2>5. CASE m # 0
      <3> DEFINE q == m \div 4
      <3>1. q \in Nat /\ q < m /\ 4 * q <= m /\ m < 4 * q + 4
        BY <2>3, <2>5, QuarterBelow, DivBounds
      <3>2. Root(q)
        BY <3>1, <2>2, <2>3
      <3> DEFINE p == f[q]
                 r == 2 * p
      <3>3. p \in Nat /\ r \in Nat /\ p * p <= q /\ q < (p + 1) * (p + 1)
        BY <3>2
      <3>4. f[m] = IF (r + 1) * (r + 1) <= m THEN r + 1 ELSE r
        BY <2>3, <2>5 DEF RootStep
      <3> HIDE DEF p, q, T
      <3>5. r * r = 4 * (p * p) /\ (r + 2) * (r + 2) = 4 * ((p + 1) * (p + 1))
        BY <3>3
      <3>6. /\ p * p \in Nat /\ (p + 1) * (p + 1) \in Nat
            /\ r * r \in Nat /\ (r + 1) * (r + 1) \in Nat /\ (r + 2) * (r + 2) \in Nat
        BY <3>3
      <3>7. r * r <= m /\ m < (r + 2) * (r + 2)
        BY <3>1, <3>3, <3>5, <3>6, <2>3
      <3> HIDE DEF r
      <3>8. (r + 1) + 1 = r + 2
        BY <3>3
      <3>9. Root(m)
        BY <3>3, <3>4, <3>6, <3>7, <3>8, <2>3
      <3>10. QED
        BY <3>9, <2>2 DEF T
    <2>6. QED
      BY <2>4, <2>5
  <1>3. n \in Nat /\ n <= n /\ n \notin T
    BY <1>2
  <1>4. Root(n)
    BY <1>3
  <1>5. QED
    BY <1>1, <1>4

-----------------------------------------------------------------------------
(* What is sold and what comes back *)

\* The larger of two naturals has the larger square.
LEMMA SquareBounds ==
    ASSUME NEW u \in Nat, NEW v \in Nat, u * u <= v * v
    PROVE  u <= v
  <1> SUFFICES ASSUME v + 1 <= u PROVE FALSE
    OBVIOUS
  <1>1. (v + 1) * (v + 1) <= u * u
    <2>1. (v + 1) * (v + 1) <= u * (v + 1) /\ (v + 1) * u <= u * u
      BY TimesMonotone
    <2>2. u * (v + 1) = (v + 1) * u
      OBVIOUS
    <2>3. (v + 1) * (v + 1) \in Nat /\ u * (v + 1) \in Nat /\ u * u \in Nat
      OBVIOUS
    <2>4. QED
      BY <2>1, <2>2, <2>3
  <1>2. (v + 1) * (v + 1) = v * v + 2 * v + 1 /\ v * v \in Nat /\ u * u \in Nat
    OBVIOUS
  <1>3. QED
    BY <1>1, <1>2

\* Naturals are ordered as their squares are.
LEMMA SquaresOrdered ==
    ASSUME NEW u \in Nat, NEW v \in Nat, u <= v
    PROVE  u * u <= v * v
  <1>1. u * u <= u * v /\ u * v <= v * v
    BY TimesMonotone
  <1>2. u * u \in Nat /\ u * v \in Nat /\ v * v \in Nat
    OBVIOUS
  <1>3. QED
    BY <1>1, <1>2

\* The sum in get_swap_amount, for areas x >= y: p is the commission, d what
\* it is out of.
LEMMA SwapSumBounds ==
    ASSUME NEW x \in Nat, NEW y \in Nat, y <= x,
           NEW d \in Nat, NEW p \in Nat, p <= d,
           NEW a \in Nat, a = p * p * x + 4 * (d - p) * d * y
    PROVE  /\ Isqrt(x) * Isqrt(a) \in Nat
           /\ p * x + Isqrt(x) * Isqrt(a) <= 2 * d * x
  <1> DEFINE u == Isqrt(x)
             v == Isqrt(a)
             w == 2 * d - p
  <1>1. u \in Nat /\ v \in Nat /\ u * u <= x /\ v * v <= a
    BY IsqrtIsRoot
  <1> HIDE DEF u, v
  <1>2. w \in Nat
    OBVIOUS
  <1>3. a <= w * w * x
    <2>1. d - p \in Nat /\ 4 * (d - p) * d \in Nat
      OBVIOUS
    <2>2. (4 * (d - p) * d) * y <= (4 * (d - p) * d) * x
      BY <2>1, TimesMonotone
    <2>3. w * w = p * p + 4 * (d - p) * d
      OBVIOUS
    <2>4. w * w * x = p * p * x + (4 * (d - p) * d) * x
      BY <2>1, <2>3
    <2>5. (4 * (d - p) * d) * y \in Nat /\ (4 * (d - p) * d) * x \in Nat /\ p * p * x \in Nat
      BY <2>1
    <2>6. QED
      BY <2>2, <2>4, <2>5
  <1> HIDE DEF w
  <1>4. (u * v) * (u * v) <= (w * x) * (w * x)
    <2>1. u * u \in Nat /\ v * v \in Nat /\ w * w * x \in Nat
      BY <1>1, <1>2
    <2>2. (u * u) * (v * v) <= x * (v * v)
      BY <1>1, <2>1, TimesMonotone
    <2>3. v * v <= w * w * x
      BY <1>1, <1>3, <2>1
    <2>4. x * (v * v) <= x * (w * w * x)
      BY <2>1, <2>3, TimesMonotone
    <2>5. (u * v) * (u * v) = (u * u) * (v * v) /\ (w * x) * (w * x) = x * (w * w * x)
      BY <1>1, <1>2
    <2>6. (u * u) * (v * v) \in Nat /\ x * (v * v) \in Nat /\ x * (w * w * x) \in Nat
      BY <2>1
    <2>7. QED
      BY <2>2, <2>4, <2>5, <2>6
  <1>5. u * v \in Nat /\ w * x \in Nat
    BY <1>1, <1>2
  <1>6. u * v <= w * x
    BY <1>4, <1>5, SquareBounds
  <1>7. p * x + w * x = 2 * d * x
    BY DEF w
  <1>8. p * x \in Nat /\ p * x + u * v <= p * x + w * x
    BY <1>5, <1>6
  <1>9. QED
    BY <1>5, <1>7, <1>8 DEF u, v

\* get_swap_amount never sells more than there is of the asset in excess.
LEMMA SwapAmountBounds ==
    ASSUME NEW x \in Nat, NEW y \in Nat, NEW a \in Nat, NEW b \in Nat,
           NEW bps \in 0 .. COMMISSION_DENOM - 1,
           y * a <= x * b, y + b > 0
    PROVE  /\ GetSwapAmount(x, y, a, b, bps) \in Nat
           /\ GetSwapAmount(x, y, a, b, bps) <= x
  <1> DEFINE d == COMMISSION_DENOM
             ax == (x + a) * b
             bx == (y + b) * a
             in == bps * bps * ax + 4 * (d - bps) * d * bx
             sum == bps * ax + Isqrt(ax) * Isqrt(in)
             q == sum \div (2 * d)
             sold == q \div (y + b)
  <1>1. d \in Nat \ {0} /\ bps \in Nat /\ bps <= d
    BY PoolMathAssumption
  <1>2. GetSwapAmount(x, y, a, b, bps) = IF sold > a THEN sold - a ELSE 0
    BY DEF GetSwapAmount
  <1> HIDE DEF d
  <1>3. ax \in Nat /\ bx \in Nat /\ bx <= ax
    <2>1. ax = x * b + a * b /\ bx = y * a + a * b
      OBVIOUS
    <2>2. x * b \in Nat /\ a * b \in Nat /\ y * a \in Nat
      OBVIOUS
    <2> HIDE DEF ax, bx
    <2>3. QED
      BY <2>1, <2>2
  <1>4. ax <= (x + a) * (y + b)
    BY TimesMonotone
  <1> HIDE DEF ax, bx
  <1>5. in \in Nat
    <2>1. d - bps \in Nat
      BY <1>1
    <2>2. 4 * (d - bps) * d \in Nat /\ bps * bps \in Nat
      BY <1>1, <2>1
    <2>3. (4 * (d - bps) * d) * bx \in Nat /\ (bps * bps) * ax \in Nat
      BY <1>3, <2>2
    <2>4. QED
      BY <2>3
  <1> HIDE DEF in
  <1>6. Isqrt(ax) * Isqrt(in) \in Nat /\ sum <= 2 * d * ax
    BY <1>1, <1>3, <1>5, SwapSumBounds DEF in
  <1>7. bps * ax \in Nat /\ sum \in Nat
    BY <1>1, <1>3, <1>6
  <1> HIDE DEF sum
  <1>8. q \in Nat /\ q <= ax
    <2>1. 2 * d \in Nat \ {0}
      BY <1>1
    <2>2. q \in Nat /\ (2 * d) * q <= sum
      BY <2>1, <1>7, DivBounds
    <2> HIDE DEF q
    <2>3. q * (2 * d) <= ax * (2 * d)
      BY <2>1, <2>2, <1>3, <1>6, <1>7
    <2>4. QED
      BY <2>1, <2>2, <2>3, <1>3, TimesCancel
  <1> HIDE DEF q
  <1>9. sold \in Nat /\ sold <= x + a
    <2>1. y + b \in Nat \ {0}
      OBVIOUS
    <2>2. sold \in Nat /\ (y + b) * sold <= q
      BY <2>1, <1>8, DivBounds
    <2> HIDE DEF sold
    <2>3. sold * (y + b) <= (x + a) * (y + b)
      <3>1. sold * (y + b) \in Nat /\ (x + a) * (y + b) \in Nat
        BY <2>1, <2>2
      <3>2. sold * (y + b) = (y + b) * sold
        BY <2>2
      <3>3. QED
        BY <3>1, <3>2, <2>2, <1>3, <1>4, <1>8
    <2>4. QED
      BY <2>1, <2>2, <2>3, TimesCancel
  <1> HIDE DEF sold
  <1>10. QED
    BY <1>2, <1>9

\* A sale returns at most what the pair has of the other asset, and leaves
\* some if there is some of both.
LEMMA SimulateBounds ==
    ASSUME NEW offer \in Nat, NEW ask \in Nat, NEW sold \in Nat \ {0},
           NEW bps \in 0 .. COMMISSION_DENOM - 1
    PROVE  /\ Simulate(offer, ask, sold, bps) \in Nat
           /\ Simulate(offer, ask, sold, bps) <= ask
           /\ offer > 0 /\ ask > 0 => Simulate(offer, ask, sold, bps) < ask
  <1> DEFINE left == MulRatioCeil(offer, ask, offer + sold)
             out == ask - left
             fee == MulRatio(out, bps, COMMISSION_DENOM)
  <1>1. COMMISSION_DENOM \in Nat \ {0} /\ bps \in Nat /\ bps <= COMMISSION_DENOM
    BY PoolMathAssumption
  <1>2. Simulate(offer, ask, sold, bps) = out - fee
    BY DEF Simulate
  <1>3. left \in Nat /\ left <= ask
    <2>1. left = MulRatioCeil(ask, offer, offer + sold)
      BY DEF MulRatioCeil
    <2>2. offer + sold \in Nat \ {0} /\ offer <= offer + sold
      OBVIOUS
    <2>3. QED
      BY <2>1, <2>2, RatioAtMostOne, MulRatioCeilBounds
  <1>4. offer > 0 /\ ask > 0 => left > 0
    <2> SUFFICES ASSUME offer > 0, ask > 0 PROVE left > 0
      OBVIOUS
    <2>1. offer * ask > 0
      OBVIOUS
    <2>2. offer * ask <= (offer + sold) * left
      BY MulRatioCeilBounds
    <2> HIDE DEF left
    <2>3. left = 0 => (offer + sold) * left = 0
      OBVIOUS
    <2>4. offer * ask \in Nat
      OBVIOUS
    <2>5. QED
      BY <2>1, <2>2, <2>3, <2>4, <1>3
  <1> HIDE DEF left
  <1>5. out \in Nat
    BY <1>3
  <1> HIDE DEF out
  <1>6. fee \in Nat /\ fee <= out
    BY <1>1, <1>5, MulRatioBounds, RatioAtMostOne
  <1> HIDE DEF fee
  <1>7. out <= ask /\ (left > 0 => out < ask)
    BY <1>3 DEF out
  <1>8. QED
    BY <1>2, <1>4, <1>5, <1>6, <1>7

\* A sale of the asset in excess.
LEMMA SaleBounds ==
    ASSUME NEW x \in Nat, NEW y \in Nat, NEW a \in Nat, NEW b \in Nat,
           NEW bps \in 0 .. COMMISSION_DENOM - 1,
           y * a < x * b
    PROVE  LET sale == Sale(x, y, a, b, bps)
           IN  /\ sale \in [sold: Nat, returned: Nat]
               /\ sale.sold <= x /\ sale.returned <= b
               /\ sale.sold = 0 <=> sale.returned = 0
               /\ sale.sold > 0 => sale.returned = Simulate(a, b, sale.sold, bps)
               /\ a > 0 => sale.returned < b
  <1> DEFINE sold == GetSwapAmount(x, y, a, b, bps)
             returned == IF sold = 0 THEN 0 ELSE Simulate(a, b, sold, bps)
  <1>1. b > 0
    <2>1. b = 0 => x * b = 0
      OBVIOUS
    <2>2. y * a \in Nat
      OBVIOUS
    <2>3. QED
      BY <2>1, <2>2
  <1>2. y * a <= x * b /\ y + b > 0
    <2>1. y * a \in Nat /\ x * b \in Nat
      OBVIOUS
    <2>2. QED
      BY <2>1, <1>1
  <1>3. sold \in Nat /\ sold <= x
    BY <1>2, SwapAmountBounds
  <1>4. Sale(x, y, a, b, bps) = IF returned = 0 THEN [sold |-> 0, returned |-> 0]
                                ELSE [sold |-> sold, returned |-> returned]
    BY DEF Sale
  <1> HIDE DEF sold
  <1>5. CASE sold = 0
    BY <1>1, <1>3, <1>4, <1>5
  <1>6. CASE sold # 0
    <2>1. /\ Simulate(a, b, sold, bps) \in Nat
          /\ Simulate(a, b, sold, bps) <= b
          /\ a > 0 => Simulate(a, b, sold, bps) < b
      BY <1>1, <1>3, <1>6, SimulateBounds
    <2>2. QED
      BY <1>1, <1>3, <1>4, <1>6, <2>1
  <1>7. QED
    BY <1>5, <1>6

-----------------------------------------------------------------------------
(* The invariant of a stable pool *)

\* One round of compute_d, and the i-th of the rounds f.
NextD(leverage, a, b, d) ==
    IF d = 0 THEN 0 ELSE CalculateStep(d, leverage, a + b, Product(d, a, b))

Round(leverage, a, b, f, i) ==
    IF i = 0 THEN a + b ELSE NextD(leverage, a, b, f[i - 1])

\* The product of a pool of one unit vanishes.
LEMMA ProductBounds ==
    ASSUME NEW d \in Nat, NEW a \in Nat, NEW b \in Nat
    PROVE  /\ Product(d, a, b) \in Nat
           /\ d = 1 /\ a + b > 0 => Product(d, a, b) = 0
  <1> DEFINE p == (d * d) \div (2 * a + 1)
             q == (p * d) \div (2 * b + 1)
  <1>1. d * d \in Nat /\ 2 * a + 1 \in Nat \ {0} /\ 2 * b + 1 \in Nat \ {0}
    OBVIOUS
  <1>2. p \in Nat /\ (2 * a + 1) * p <= d * d
    BY <1>1, DivBounds
  <1> HIDE DEF p
  <1>3. p * d \in Nat
    BY <1>2
  <1>4. q \in Nat /\ (2 * b + 1) * q <= p * d
    BY <1>1, <1>3, DivBounds
  <1> HIDE DEF q
  <1>5. ASSUME d = 1, a > 0 PROVE q = 0
    <2>1. p = 0
      <3>1. p >= 1 => (2 * a + 1) * p >= 2 * a + 1
        BY <1>1, <1>2, TimesMonotone
      <3>2. QED
        BY <1>2, <1>5, <3>1
    <2>2. (2 * b + 1) * q <= 0
      BY <1>4, <2>1
    <2>3. q >= 1 => (2 * b + 1) * q >= 2 * b + 1
      BY <1>1, <1>4, TimesMonotone
    <2>4. QED
      BY <1>4, <2>2, <2>3
  <1>6. ASSUME d = 1, b > 0 PROVE q = 0
    <2>1. p <= 1
      <3>1. p >= 2 => (2 * a + 1) * p >= (2 * a + 1) * 2
        BY <1>1, <1>2, TimesMonotone
      <3>2. QED
        BY <1>2, <1>6, <3>1
    <2>2. (2 * b + 1) * q <= 1
      BY <1>2, <1>4, <1>6, <2>1
    <2>3. q >= 1 => (2 * b + 1) * q >= 2 * b + 1
      BY <1>1, <1>4, TimesMonotone
    <2>4. QED
      BY <1>4, <1>6, <2>2, <2>3
  <1>7. Product(d, a, b) = q
    BY DEF Product, p, q
  <1>8. QED
    BY <1>4, <1>5, <1>6, <1>7

\* A round divides by no zero and does not reach zero.
LEMMA NextDPositive ==
    ASSUME NEW leverage \in Nat, 2 * AMP_PRECISION <= leverage,
           NEW a \in Nat, NEW b \in Nat, a + b > 0, NEW d \in Nat \ {0}
    PROVE  NextD(leverage, a, b, d) \in Nat \ {0}
  <1> DEFINE amp == AMP_PRECISION
             sum == a + b
             p == Product(d, a, b)
             u == (leverage * sum) \div amp
             v == ((leverage - amp) * d) \div amp
             num == (u + 2 * p) * d
             den == v + 3 * p
  <1>1. NextD(leverage, a, b, d) = num \div den
    BY DEF NextD, CalculateStep
  <1>2. amp \in Nat \ {0} /\ 2 * amp <= leverage
    BY PoolMathAssumption
  <1>3. p \in Nat /\ (d = 1 => p = 0)
    BY ProductBounds
  <1>4. sum \in Nat \ {0}
    OBVIOUS
  <1> HIDE DEF amp, p, sum
  <1>5. u \in Nat /\ leverage * sum < amp * u + amp
    <2>1. leverage * sum \in Nat
      BY <1>4
    <2>2. QED
      BY <2>1, <1>2, DivBounds
  <1>6. (leverage - amp) * d \in Nat /\ leverage - amp \in Nat
    BY <1>2
  <1>7. v \in Nat /\ amp * v <= (leverage - amp) * d
    BY <1>2, <1>6, DivBounds
  <1>8. v >= 1
    <2>1. amp * d <= (leverage - amp) * d
      BY <1>2, <1>6, TimesMonotone
    <2>2. amp * 1 <= amp * d
      BY <1>2, TimesMonotone
    <2>3. (leverage - amp) * d < amp * v + amp
      BY <1>2, <1>6, DivBounds
    <2> HIDE DEF v
    <2>4. v = 0 => amp * v = 0
      BY <1>2
    <2>5. amp * d \in Nat /\ amp * 1 = amp
      BY <1>2
    <2>6. QED
      BY <1>2, <1>6, <1>7, <2>1, <2>2, <2>3, <2>4, <2>5
  <1> HIDE DEF u, v
  <1>9. v <= u * d
    <2>1. leverage * 1 <= leverage * sum
      BY <1>4, TimesMonotone
    <2>2. leverage - amp <= amp * u
      <3>1. leverage * sum \in Nat /\ amp * u \in Nat
        BY <1>2, <1>4, <1>5
      <3>2. QED
        BY <1>2, <1>5, <2>1, <3>1
    <2>3. (leverage - amp) * d <= (amp * u) * d
      BY <1>2, <1>5, <1>6, <2>2, TimesMonotone
    <2>4. (amp * u) * d = (u * d) * amp /\ u * d \in Nat /\ (u * d) * amp \in Nat
      BY <1>2, <1>5
    <2>5. v * amp <= (u * d) * amp
      <3>1. v * amp = amp * v /\ v * amp \in Nat
        BY <1>2, <1>7
      <3>2. QED
        BY <1>6, <1>7, <2>3, <2>4, <3>1
    <2>6. QED
      BY <1>2, <1>7, <2>4, <2>5, TimesCancel
  <1>10. 3 * p <= 2 * p * d
    <2>1. CASE d = 1
      BY <1>3, <2>1
    <2>2. CASE d >= 2
      <3>1. (2 * p) * 2 <= (2 * p) * d
        BY <1>3, <2>2, TimesMonotone
      <3>2. (2 * p) * d \in Nat
        BY <1>3
      <3>3. QED
        BY <1>3, <3>1, <3>2
    <2>3. QED
      BY <2>1, <2>2
  <1>11. num \in Nat /\ den \in Nat \ {0} /\ den <= num
    <2>1. num = u * d + 2 * p * d
      BY <1>3, <1>5
    <2>2. u * d \in Nat /\ 2 * p * d \in Nat
      BY <1>3, <1>5
    <2>3. QED
      BY <1>3, <1>7, <1>8, <1>9, <1>10, <2>1, <2>2
  <1> HIDE DEF num, den
  <1>12. num \div den \in Nat /\ num < den * (num \div den) + den
    BY <1>11, DivBounds
  <1> DEFINE q == num \div den
  <1> HIDE DEF q
  <1>13. q = 0 => den * q = 0
    BY <1>11
  <1>14. q # 0
    BY <1>11, <1>12, <1>13 DEF q
  <1>15. QED
    BY <1>1, <1>12, <1>14 DEF q

Rounds(leverage, a, b, n) == \E f : f = [i \in 0 .. n |-> Round(leverage, a, b, f, i)]

\* The rounds of compute_d exist, however many there are.
LEMMA RoundsExist ==
    ASSUME NEW leverage, NEW a, NEW b, NEW n \in Nat
    PROVE  Rounds(leverage, a, b, n)
  <1> DEFINE P(k) == \E f : f = [i \in 0 .. k |-> Round(leverage, a, b, f, i)]
             T == {k \in Nat : ~P(k)}
  <1>1. ASSUME T # {} PROVE FALSE
    <2>1. T \in SUBSET Nat
      OBVIOUS
    <2>2. PICK m \in T : \A k \in T : m <= k
      BY <1>1, <2>1, SmallestNumber
    <2>3. CASE m = 0
      <3>1. [i \in 0 .. 0 |-> a + b]
              = [i \in 0 .. 0 |-> Round(leverage, a, b, [j \in 0 .. 0 |-> a + b], i)]
        BY DEF Round
      <3>2. P(0)
        BY <3>1
      <3>3. QED
        BY <2>2, <2>3, <3>2
    <2>4. CASE m # 0
      <3>1. m - 1 \in Nat /\ m - 1 < m /\ m \in Nat
        BY <2>2, <2>4
      <3>2. P(m - 1)
        BY <3>1, <2>2
      <3>3. PICK f : f = [i \in 0 .. m - 1 |-> Round(leverage, a, b, f, i)]
        BY <3>2
      <3> DEFINE g == [i \in 0 .. m |->
                          IF i = m THEN Round(leverage, a, b, f, i) ELSE f[i]]
      <3>4. ASSUME NEW i \in 0 .. m PROVE g[i] = Round(leverage, a, b, g, i)
        <4>1. i # 0 => i - 1 \in 0 .. m - 1
          BY <3>1
        <4>2. i # 0 => g[i - 1] = f[i - 1]
          BY <4>1, <3>1
        <4>3. Round(leverage, a, b, g, i) = Round(leverage, a, b, f, i)
          BY <4>2 DEF Round
        <4>4. i # m => f[i] = Round(leverage, a, b, f, i)
          BY <3>3, <3>1
        <4>5. QED
          BY <4>3, <4>4
      <3>5. g = [i \in 0 .. m |-> Round(leverage, a, b, g, i)]
        BY <3>4
      <3>6. P(m)
        BY <3>5
      <3>7. QED
        BY <3>6, <2>2
    <2>5. QED
      BY <2>3, <2>4
  <1>2. P(n)
    BY <1>1
  <1>3. QED
    BY <1>2 DEF Rounds

\* compute_d gives the last of the rounds.
LEMMA ComputeDUnfolds ==
    ASSUME NEW leverage, NEW a, NEW b
    PROVE  \E f : /\ f = [i \in 0 .. ITERATIONS |-> Round(leverage, a, b, f, i)]
                 /\ ComputeD(leverage, a, b) = f[ITERATIONS]
  <1>2. ITERATIONS \in Nat
    BY PoolMathAssumption
  <1>3. \E f : f = [i \in 0 .. ITERATIONS |-> Round(leverage, a, b, f, i)]
    <2>1. Rounds(leverage, a, b, ITERATIONS)
      BY <1>2, RoundsExist
    <2>2. QED
      BY <2>1 DEF Rounds
  <1> DEFINE rounds == CHOOSE f : f = [i \in 0 .. ITERATIONS |-> Round(leverage, a, b, f, i)]
  <1>1. ComputeD(leverage, a, b) = rounds[ITERATIONS]
    BY DEF ComputeD, NextD, Round
  <1>4. rounds = [i \in 0 .. ITERATIONS |-> Round(leverage, a, b, rounds, i)]
    BY <1>3
  <1>5. QED
    BY <1>1, <1>4

\* No round of compute_d is zero.
LEMMA RoundsPositive ==
    ASSUME NEW leverage \in Nat, 2 * AMP_PRECISION <= leverage,
           NEW a \in Nat, NEW b \in Nat, a + b > 0,
           NEW f, f = [i \in 0 .. ITERATIONS |-> Round(leverage, a, b, f, i)],
           NEW i \in 0 .. ITERATIONS
    PROVE  f[i] \in Nat \ {0}
  <1>1. ASSUME NEW j \in 0 .. ITERATIONS
        PROVE  f[j] = IF j = 0 THEN a + b ELSE NextD(leverage, a, b, f[j - 1])
    <2>1. f[j] = Round(leverage, a, b, f, j)
      OBVIOUS
    <2>2. QED
      BY <2>1 DEF Round
  <1> DEFINE T == {j \in Nat : j <= ITERATIONS /\ f[j] \notin Nat \ {0}}
  <1>2. ASSUME T # {} PROVE FALSE
    <2>1. T \in SUBSET Nat
      OBVIOUS
    <2>2. PICK m \in T : \A k \in T : m <= k
      BY <1>2, <2>1, SmallestNumber
    <2>3. m \in Nat /\ m \in 0 .. ITERATIONS
      BY <2>2, PoolMathAssumption
    <2>4. f[m] = IF m = 0 THEN a + b ELSE NextD(leverage, a, b, f[m - 1])
      BY <1>1, <2>3
    <2>5. m = 0 => f[m] \in Nat \ {0}
      BY <2>4
    <2>6. m # 0 => f[m - 1] \in Nat \ {0}
      <3> SUFFICES ASSUME m # 0, f[m - 1] \notin Nat \ {0} PROVE FALSE
        OBVIOUS
      <3>1. m - 1 \in Nat /\ m - 1 <= ITERATIONS /\ m - 1 < m
        BY <2>3, PoolMathAssumption
      <3>2. m - 1 \in T
        BY <3>1
      <3>3. QED
        BY <2>2, <2>3, <3>1, <3>2
    <2>7. m # 0 => f[m] \in Nat \ {0}
      BY <2>4, <2>6, NextDPositive
    <2>8. QED
      BY <2>2, <2>5, <2>7
  <1>3. i \in Nat /\ i <= ITERATIONS /\ i \notin T
    BY <1>2, PoolMathAssumption
  <1>4. QED
    BY <1>3

\* compute_d divides by no zero, and the invariant of a pool that holds
\* something is not zero.
LEMMA ComputeDPositive ==
    ASSUME NEW leverage \in Nat, 2 * AMP_PRECISION <= leverage,
           NEW a \in Nat, NEW b \in Nat, a + b > 0
    PROVE  ComputeD(leverage, a, b) \in Nat \ {0}
  <1>1. PICK f : /\ f = [i \in 0 .. ITERATIONS |-> Round(leverage, a, b, f, i)]
                 /\ ComputeD(leverage, a, b) = f[ITERATIONS]
    BY ComputeDUnfolds
  <1>2. ITERATIONS \in 0 .. ITERATIONS
    BY PoolMathAssumption
  <1>3. QED
    BY <1>1, <1>2, RoundsPositive

-----------------------------------------------------------------------------
(* The invariant that is found *)

\* The equation of the invariant, of a number d: the sum of the reserves is
\* s, their product k, and the leverage n out of m.
Gap(n, m, s, k, d) == m * d * d * d + k * (n - m) * d - k * n * s

\* What `%' and `\div' make of a number of any sign.
LEMMA DivMod ==
    ASSUME NEW i \in Int, NEW m \in Nat \ {0}
    PROVE  i \div m \in Int /\ i % m \in Nat /\ i = m * (i \div m) + (i % m)
  OBVIOUS

\* The equation in the form that keeps its numbers small.
LEMMA NotBelowIsGap ==
    ASSUME NEW n \in Nat, NEW a \in Nat, NEW b \in Nat, NEW d \in Nat
    PROVE  NotBelow(n, a, b, d)
             <=> Gap(n, AMP_PRECISION, a + b, (2 * a + 1) * (2 * b + 1), d) >= 0
  <1> DEFINE m == AMP_PRECISION
             s == a + b
             k == (2 * a + 1) * (2 * b + 1)
             linear == n * s - (n - m) * d
             q == linear \div m
             r == linear % m
             c == MulRatioCeil(k, r, m)
             cube == d * d * d
  <1>1. NotBelow(n, a, b, d) <=> cube >= k * q + c
    BY DEF NotBelow
  <1>2. m \in Nat \ {0} /\ s \in Nat /\ k \in Nat /\ cube \in Nat
    BY PoolMathAssumption
  <1>3. Gap(n, m, s, k, d) = m * cube - k * linear
    <2> HIDE DEF m, s, k
    <2>1. k * linear = k * n * s - k * (n - m) * d
      BY <1>2
    <2>2. m * cube = m * d * d * d
      BY <1>2
    <2>3. QED
      BY <1>2, <2>1, <2>2 DEF Gap
  <1> HIDE DEF m, s, k, cube
  <1>4. linear \in Int
    BY <1>2
  <1> HIDE DEF linear
  <1>5. q \in Int /\ r \in Nat /\ linear = m * q + r
    BY <1>2, <1>4, DivMod
  <1> HIDE DEF q, r
  <1>6. c \in Nat /\ k * r <= m * c /\ m * c < k * r + m
    BY <1>2, <1>5, MulRatioCeilBounds
  <1> HIDE DEF c
  <1> DEFINE i == cube - k * q - c
  <1>7. m * i = m * cube - m * (k * q) - m * c /\ k * linear = m * (k * q) + k * r /\ i \in Int
    BY <1>2, <1>5, <1>6
  <1>8. cube >= k * q + c <=> i >= 0
    BY <1>2, <1>5, <1>6
  <1> HIDE DEF i
  <1>9. m * cube \in Int /\ m * (k * q) \in Int /\ m * c \in Int /\ k * r \in Int
    BY <1>2, <1>5, <1>6
  <1>10. i >= 0 => m * i >= 0
    BY <1>2, <1>7
  <1>11. i <= -1 => m * i <= - m
    BY <1>2, <1>7
  <1>12. QED
    BY <1>1, <1>2, <1>3, <1>6, <1>7, <1>8, <1>9, <1>10, <1>11 DEF m, s, k

\* It grows with d.
LEMMA GapGrows ==
    ASSUME NEW n \in Nat, NEW m \in Nat, m <= n, NEW s \in Nat, NEW k \in Nat,
           NEW d \in Nat, NEW e \in Nat, d <= e
    PROVE  Gap(n, m, s, k, d) \in Int /\ Gap(n, m, s, k, d) <= Gap(n, m, s, k, e)
  <1>1. d * d * d <= e * e * e
    <2>1. d * d <= e * e /\ d * d \in Nat /\ e * e \in Nat
      <3>1. d * d <= d * e /\ d * e <= e * e
        BY TimesMonotone
      <3>2. d * d \in Nat /\ d * e \in Nat /\ e * e \in Nat
        OBVIOUS
      <3>3. QED
        BY <3>1, <3>2
    <2>2. (d * d) * d <= (e * e) * d /\ (e * e) * d <= (e * e) * e
      BY <2>1, TimesMonotone
    <2>3. (d * d) * d \in Nat /\ (e * e) * d \in Nat /\ (e * e) * e \in Nat
      BY <2>1
    <2>4. QED
      BY <2>2, <2>3
  <1>2. m * (d * d * d) <= m * (e * e * e)
    <2>1. d * d * d \in Nat /\ e * e * e \in Nat
      OBVIOUS
    <2>2. QED
      BY <1>1, <2>1, TimesMonotone
  <1>3. (k * (n - m)) * d <= (k * (n - m)) * e
    <2>1. n - m \in Nat
      OBVIOUS
    <2>2. k * (n - m) \in Nat
      BY <2>1
    <2>3. QED
      BY <2>2, TimesMonotone
  <1>4. m * (d * d * d) = m * d * d * d /\ m * (e * e * e) = m * e * e * e
    OBVIOUS
  <1>5. m * d * d * d \in Int /\ m * e * e * e \in Int /\ (k * (n - m)) * d \in Int
        /\ (k * (n - m)) * e \in Int /\ k * n * s \in Int
    OBVIOUS
  <1>6. QED
    BY <1>2, <1>3, <1>4, <1>5 DEF Gap

\* The sum of the reserves and 1 is not below.
LEMMA GapOfSum ==
    ASSUME NEW n \in Nat, NEW m \in Nat, m <= n, NEW a \in Nat, NEW b \in Nat
    PROVE  Gap(n, m, a + b, (2 * a + 1) * (2 * b + 1), a + b + 1) >= 0
  <1> DEFINE s == a + b
             k == (2 * a + 1) * (2 * b + 1)
             e == s + 1
  <1>1. s \in Nat /\ k \in Nat /\ e \in Nat /\ n - m \in Nat
    OBVIOUS
  <1>2. k <= e * e
    <2>1. e * e = k + (a - b) * (a - b)
      OBVIOUS
    <2>2. (a - b) * (a - b) \in Int /\ (a - b) * (a - b) >= 0
      <3>1. CASE a <= b
        <4>1. b - a \in Nat /\ (a - b) * (a - b) = (b - a) * (b - a)
          BY <3>1
        <4>2. QED
          BY <4>1
      <3>2. CASE b <= a
        <4>1. a - b \in Nat
          BY <3>2
        <4>2. QED
          BY <4>1
      <3>3. QED
        BY <3>1, <3>2
    <2> HIDE DEF k, e
    <2>3. e * e \in Nat
      BY <1>1
    <2>4. QED
      BY <1>1, <2>1, <2>2, <2>3
  <1>3. Gap(n, m, s, k, e) = (e * e - k) * (m * e) + k * n
    <2>1. s = e - 1
      OBVIOUS
    <2> HIDE DEF s, k, e
    <2>2. Gap(n, m, s, k, e) = m * e * e * e + k * (n - m) * e - k * n * (e - 1)
      BY <1>1, <2>1 DEF Gap
    <2>3. k * (n - m) * e - k * n * (e - 1) = k * n - k * (m * e)
      BY <1>1
    <2>4. (e * e - k) * (m * e) = m * e * e * e - k * (m * e)
      BY <1>1
    <2>5. QED
      BY <1>1, <2>2, <2>3, <2>4
  <1> HIDE DEF s, k, e
  <1>4. e * e - k \in Nat /\ m * e \in Nat /\ k * n \in Nat
    BY <1>1, <1>2
  <1>5. (e * e - k) * (m * e) \in Nat
    BY <1>4
  <1>6. Gap(n, m, s, k, e) >= 0
    BY <1>3, <1>4, <1>5
  <1>7. QED
    BY <1>6 DEF s, k, e

\* A square is a natural.
LEMMA SquareNatural ==
    ASSUME NEW i \in Int
    PROVE  i * i \in Nat
  <1>1. CASE i >= 0
    BY <1>1
  <1>2. CASE i <= 0
    <2>1. -i \in Nat /\ i * i = (-i) * (-i)
      BY <1>2
    <2>2. (-i) * (-i) \in Nat
      BY <2>1
    <2>3. QED
      BY <2>1, <2>2
  <1>3. QED
    BY <1>1, <1>2

\* Newton's method does not end below the root, as the cube is convex: of a
\* round from d whose quotient is less than e, e is not below.
LEMMA RoundNotBelow ==
    ASSUME NEW n \in Nat, NEW m \in Nat \ {0}, m <= n, NEW s \in Nat, NEW k \in Nat,
           NEW d \in Nat \ {0}, NEW e \in Nat, NEW p \in Nat, k * p <= d * d * d,
           n * s * d + 2 * m * p * d < (n - m) * d * e + 3 * m * p * e, k > 0
    PROVE  Gap(n, m, s, k, e) >= 0
  <1> DEFINE x == k * n * s - k * (n - m) * e
             y == m * e * e * e
             q == k * p
             c == d * d * d
             t == 3 * e - 2 * d
  <1>1. x \in Int /\ y \in Nat /\ q \in Nat /\ c \in Nat /\ t \in Int /\ q <= c
    <2>1. e * e * e \in Nat /\ m * (e * e * e) = m * e * e * e
      OBVIOUS
    <2>2. m * (e * e * e) \in Nat
      BY <2>1
    <2>3. QED
      BY <2>1, <2>2
  <1>2. Gap(n, m, s, k, e) = y - x
    BY DEF Gap
  <1>3. d * x < m * q * t
    <2> DEFINE i == n * s * d + 2 * m * p * d
               j == (n - m) * d * e + 3 * m * p * e
    <2>1. i \in Int /\ j \in Int /\ i + 1 <= j
      OBVIOUS
    <2>2. d * x = k * i - 2 * m * q * d - k * ((n - m) * d * e)
      OBVIOUS
    <2>3. m * q * t = k * j - 2 * m * q * d - k * ((n - m) * d * e)
      OBVIOUS
    <2> HIDE DEF i, j
    <2>4. k * i < k * j
      <3>1. \A u, v \in Int : u + 1 <= v => k * u < k * v
        OBVIOUS
      <3>2. QED
        BY <2>1, <3>1
    <2>5. k * i \in Int /\ k * j \in Int /\ m * q * d \in Int /\ k * ((n - m) * d * e) \in Int
      BY <1>1, <2>1
    <2> HIDE DEF x, q, t
    <2>6. d * x \in Int /\ m * q * t \in Int /\ 2 * m * q * d \in Int
      BY <1>1
    <2>7. QED
      BY <2>2, <2>3, <2>4, <2>5, <2>6
  <1>4. d * y = m * c * t + m * d * ((e - d) * (e - d) * (e + 2 * d))
    OBVIOUS
  <1>5. m * d * ((e - d) * (e - d) * (e + 2 * d)) \in Nat
    <2>1. (e - d) * (e - d) \in Nat
      BY SquareNatural
    <2>2. e + 2 * d \in Nat /\ m * d \in Nat
      OBVIOUS
    <2>3. \A i, j, l \in Nat : l * (i * j) \in Nat
      OBVIOUS
    <2>4. QED
      BY <2>1, <2>2, <2>3
  <1> HIDE DEF x, y, q, c, t
  <1>6. d * x < d * y
    <2>1. d * x \in Int /\ d * y \in Int /\ m * q * t \in Int /\ m * c * t \in Int
      BY <1>1
    <2>2. CASE t >= 0
      <3>1. m * t \in Nat
        BY <1>1, <2>2
      <3>2. q * (m * t) <= c * (m * t)
        BY <1>1, <3>1, TimesMonotone
      <3>3. q * (m * t) = m * q * t /\ c * (m * t) = m * c * t
        BY <1>1
      <3>4. QED
        BY <1>3, <1>4, <1>5, <2>1, <3>2, <3>3
    <2>3. CASE t < 0
      <3>1. m * q * t = - ((m * q) * (-t)) /\ (m * q) * (-t) \in Nat
        <4>1. m * q \in Nat /\ -t \in Nat
          BY <1>1, <2>3
        <4>2. QED
          BY <1>1, <4>1
      <3>2. d * y \in Nat
        BY <1>1
      <3>3. QED
        BY <1>3, <2>1, <3>1, <3>2
    <2>4. QED
      BY <1>1, <2>2, <2>3
  <1>7. x < y
    <2>1. \A i, j \in Int : d * i < d * j => i < j
      OBVIOUS
    <2>2. QED
      BY <1>1, <1>6, <2>1
  <1>8. QED
    BY <1>1, <1>2, <1>7

\* A round of Newton's method from d gives e, with the truncations of u and v,
\* the linear terms, and of p, the product term; i and j are the factors the
\* product is divided by.
RoundOf(n, m, s, i, j, d, u, v, p, e) ==
    /\ u \in Nat /\ v \in Nat /\ p \in Nat /\ e \in Nat
    /\ m * u <= n * s /\ n * s < m * u + m
    /\ n % m = 0 => m * u = n * s
    /\ m * v <= (n - m) * d /\ (n - m) * d < m * v + m
    /\ ((n - m) \div m) * d <= v
    /\ i * j * p <= d * d * d /\ d * d * d < i * j * p + i * j + i * d
    /\ e * (v + 3 * p) <= (u + 2 * p) * d
    /\ (u + 2 * p) * d < (e + 1) * (v + 3 * p)

\* How far a round ends from a number r that is not below, in terms of the
\* divisor of the round.
LEMMA RoundFromRoot ==
    ASSUME NEW n \in Nat, NEW m \in Nat \ {0}, m <= n, NEW s \in Nat, NEW k \in Nat,
           NEW d \in Nat, NEW r \in Nat, NEW u \in Nat, NEW v \in Nat, NEW p \in Nat,
           NEW e \in Nat, m * u <= n * s, (n - m) * d < m * v + m,
           e * (v + 3 * p) <= (u + 2 * p) * d, Gap(n, m, s, k, r) >= 0
    PROVE  k * (v + 3 * p) * (e - r) <= d * r * r * r + k * r + k * p * (2 * d - 3 * r)
  <1> DEFINE l == n - m
             g == m * r * r * r + k * l * r
             left == k * (v + 3 * p) * (e - r)
             right == d * r * r * r + k * r + k * p * (2 * d - 3 * r)
  <1>1. l \in Nat
    OBVIOUS
  <1> HIDE DEF l
  <1>2. g \in Nat /\ k * n * s <= g
    <2>1. r * r * r \in Nat /\ m * (r * r * r) = m * r * r * r /\ k * l \in Nat
      BY <1>1
    <2>2. m * (r * r * r) \in Nat /\ (k * l) * r \in Nat
      BY <2>1
    <2>3. Gap(n, m, s, k, r) = g - k * n * s
      BY DEF Gap, l
    <2>4. g \in Nat
      BY <2>1, <2>2
    <2>5. k * n * s \in Nat
      OBVIOUS
    <2> HIDE DEF g
    <2>6. QED
      BY <2>3, <2>4, <2>5
  <1>3. (k * (m * u)) * d <= g * d
    <2>1. m * u \in Nat /\ n * s \in Nat
      OBVIOUS
    <2>2. k * (m * u) <= k * (n * s)
      BY <2>1, TimesMonotone
    <2>3. k * (n * s) = k * n * s /\ k * (m * u) \in Nat /\ k * (n * s) \in Nat
      BY <2>1
    <2>4. k * (m * u) <= g
      BY <1>2, <2>2, <2>3
    <2>5. QED
      BY <1>2, <2>3, <2>4, TimesMonotone
  <1>4. (k * r) * (l * d) <= (k * r) * (m * v + m)
    <2>1. k * r \in Nat /\ l * d \in Nat /\ m * v + m \in Nat
      BY <1>1
    <2>2. l * d <= m * v + m
      BY <2>1 DEF l
    <2>3. QED
      BY <2>1, <2>2, TimesMonotone
  <1>5. (m * k) * (e * (v + 3 * p)) <= (m * k) * ((u + 2 * p) * d)
    <2>1. m * k \in Nat /\ e * (v + 3 * p) \in Nat /\ (u + 2 * p) * d \in Nat
      OBVIOUS
    <2>2. QED
      BY <2>1, TimesMonotone
  <1>6. m * left = (m * k) * (e * (v + 3 * p)) - m * k * v * r - 3 * m * k * p * r
    OBVIOUS
  <1>7. (m * k) * ((u + 2 * p) * d) = (k * (m * u)) * d + 2 * m * k * p * d
    OBVIOUS
  <1>8. g * d = m * d * r * r * r + k * l * r * d
    BY <1>1
  <1>9. (k * r) * (l * d) = k * l * r * d /\ (k * r) * (m * v + m) = m * k * v * r + m * k * r
    BY <1>1
  <1>10. m * right = m * d * r * r * r + m * k * r + 2 * m * k * p * d - 3 * m * k * p * r
    OBVIOUS
  <1>11. /\ left \in Int /\ right \in Int /\ m * left \in Int /\ m * right \in Int
         /\ m * k * v * r \in Int /\ m * k * p * r \in Int /\ m * k * p * d \in Int
         /\ m * k * r \in Int /\ k * l * r * d \in Int /\ m * d * r * r * r \in Int
         /\ (m * k) * (e * (v + 3 * p)) \in Int /\ (k * (m * u)) * d \in Int
    BY <1>1
  <1> HIDE DEF left, right, g
  <1>12. m * left <= m * right
    BY <1>3, <1>4, <1>5, <1>6, <1>7, <1>8, <1>9, <1>10, <1>11
  <1>13. left * m <= right * m
    BY <1>11, <1>12
  <1>14. left <= right
    BY <1>11, <1>13, TimesCancel
  <1>15. QED
    BY <1>14 DEF left, right

\* A round from above leaves two thirds of the distance, but for truncations.
LEMMA RoundFromAbove ==
    ASSUME NEW i \in Nat \ {0}, NEW j \in Nat \ {0}, NEW s \in Nat, NEW l \in Nat,
           NEW d \in Nat \ {0}, NEW r \in Nat, r <= d, r <= s + 1,
           NEW v \in Nat, NEW p \in Nat, NEW e \in Nat, l * d <= v,
           d * d * d < i * j * p + i * j + i * d,
           (i * j) * (v + 3 * p) * (e - r)
             <= d * r * r * r + (i * j) * r + (i * j) * p * (2 * d - 3 * r)
    PROVE  3 * (l * j) * (e - r) <= 2 * (l * j) * (d - r) + 3 * (2 * j + s + 1)
  <1> DEFINE k == i * j
             den == v + 3 * p
             t == 3 * (e - r) - 2 * (d - r)
             left == k * den * (e - r)
             q == k * p + k + i * d
  <1>1. k \in Nat /\ den \in Nat /\ t \in Int /\ left \in Int /\ q \in Nat /\ d - r \in Nat
    <2>1. k \in Nat /\ i * d \in Nat
      OBVIOUS
    <2>2. k * p \in Nat /\ den \in Nat
      BY <2>1
    <2>3. QED
      BY <2>1, <2>2
  <1>2. d * r * r * r <= r * q
    <2>1. r * r <= d * d
      BY SquaresOrdered
    <2>2. (d * r) * (r * r) <= (d * r) * (d * d)
      <3>1. d * r \in Nat /\ r * r \in Nat /\ d * d \in Nat
        OBVIOUS
      <3>2. QED
        BY <2>1, <3>1, TimesMonotone
    <2>3. d * d * d \in Nat /\ d * d * d <= q
      <3>1. d * d * d \in Nat
        OBVIOUS
      <3>2. d * d * d < i * j * p + i * j + i * d
        OBVIOUS
      <3>3. q = i * j * p + i * j + i * d
        OBVIOUS
      <3>4. QED
        BY <1>1, <3>1, <3>2, <3>3
    <2>4. r * (d * d * d) <= r * q
      BY <1>1, <2>3, TimesMonotone
    <2>5. (d * r) * (r * r) = d * r * r * r /\ (d * r) * (d * d) = r * (d * d * d)
      OBVIOUS
    <2>6. r * (d * d * d) \in Nat /\ r * q \in Nat /\ d * r * r * r \in Int
      BY <1>1, <2>3
    <2>7. QED
      BY <2>2, <2>4, <2>5, <2>6
  <1>3. left <= d * r * r * r + k * r + k * p * (2 * d - 3 * r)
    OBVIOUS
  <1>4. k * den * t = 3 * left - 2 * ((d - r) * (k * v)) - 6 * (d - r) * (k * p)
    OBVIOUS
  <1>5. k * p * (2 * d - 3 * r) = 2 * (d - r) * (k * p) - r * (k * p)
    OBVIOUS
  <1>6. r * q = r * (k * p) + r * k + r * (i * d)
    OBVIOUS
  <1>7. (d - r) * (k * v) \in Nat
    <2>1. k * v \in Nat
      BY <1>1
    <2>2. QED
      BY <1>1, <2>1
  <1>8. (d - r) * (k * p) \in Int /\ r * (k * p) \in Int /\ r * (i * d) \in Int /\ r * k = k * r
        /\ k * r \in Int /\ d * r * r * r \in Int /\ k * den * t \in Int /\ r * q \in Int
    <2>1. k * p \in Int /\ i * d \in Int
      BY <1>1
    <2> HIDE DEF k, den, t, q
    <2>2. QED
      BY <1>1, <2>1
  <1>9. k * den * t <= 3 * (2 * (k * r) + r * (i * d))
    <2> DEFINE dd == d - r
    <2> HIDE DEF k, den, t, left, q, dd
    <2>1. k * den * t = 3 * left - 2 * (dd * (k * v)) - 6 * (dd * (k * p))
      <3>1. 6 * dd * (k * p) = 6 * (dd * (k * p))
        BY <1>1 DEF dd
      <3>2. QED
        BY <1>4, <3>1 DEF dd
    <2>2. k * p * (2 * d - 3 * r) = 2 * (dd * (k * p)) - r * (k * p)
      <3>1. 2 * dd * (k * p) = 2 * (dd * (k * p))
        BY <1>1 DEF dd
      <3>2. QED
        BY <1>5, <3>1 DEF dd
    <2>3. dd * (k * v) \in Nat /\ dd * (k * p) \in Int
      BY <1>7, <1>8 DEF dd
    <2>4. QED
      BY ONLY <1>1, <1>2, <1>3, <1>6, <1>8, <2>1, <2>2, <2>3
  <1>10. j * (den * t) <= 3 * (r * (2 * j + d))
    <2>1. k * den * t = (j * (den * t)) * i
      BY <1>1
    <2>2. 3 * (2 * (k * r) + r * (i * d)) = (3 * (r * (2 * j + d))) * i
      OBVIOUS
    <2>3. j * (den * t) \in Int /\ 3 * (r * (2 * j + d)) \in Int
      BY <1>1
    <2> HIDE DEF k, den, t
    <2>4. QED
      BY <1>9, <2>1, <2>2, <2>3, TimesCancel
  <1>11. 3 * (l * j) * (e - r) = (l * j) * t + 2 * (l * j) * (d - r)
    OBVIOUS
  <1>12. (l * j) * t <= 6 * j + 3 * r
    <2> HIDE DEF t
    <2>1. CASE t <= 0
      <3>1. (l * j) * t <= 0
        <4>1. l * j \in Nat /\ -t \in Nat /\ (l * j) * t = - ((l * j) * (-t))
          BY <1>1, <2>1
        <4>2. (l * j) * (-t) \in Nat
          BY <4>1
        <4>3. QED
          BY <4>1, <4>2
      <3>2. (l * j) * t \in Int
        BY <1>1
      <3>3. QED
        BY <3>1, <3>2
    <2>2. CASE t > 0
      <3>1. (l * d) * (j * t) <= den * (j * t)
        <4>1. j * t \in Nat /\ l * d \in Nat /\ l * d <= den
          <5>1. j * t \in Nat /\ l * d \in Nat
            BY <1>1, <2>2
          <5>2. QED
            BY <5>1
        <4> HIDE DEF den
        <4>2. QED
          BY <1>1, <4>1, TimesMonotone
      <3>2. (l * d) * (j * t) = ((l * j) * t) * d /\ den * (j * t) = j * (den * t)
        BY <1>1
      <3>3. 3 * (r * (2 * j + d)) <= (6 * j + 3 * r) * d
        <4>1. r * j <= d * j /\ r * j \in Nat /\ d * j \in Nat
          BY TimesMonotone
        <4>2. 3 * (r * (2 * j + d)) = 6 * (r * j) + 3 * (r * d)
              /\ (6 * j + 3 * r) * d = 6 * (d * j) + 3 * (r * d) /\ r * d \in Nat
          OBVIOUS
        <4>3. QED
          BY <4>1, <4>2
      <3>4. (l * j) * t \in Int /\ 6 * j + 3 * r \in Int /\ ((l * j) * t) * d \in Int
            /\ 3 * (r * (2 * j + d)) \in Int /\ (6 * j + 3 * r) * d \in Int
            /\ j * (den * t) \in Int
        BY <1>1
      <3> HIDE DEF den
      <3>5. ((l * j) * t) * d <= (6 * j + 3 * r) * d
        BY ONLY <1>10, <3>1, <3>2, <3>3, <3>4
      <3>6. QED
        BY <3>4, <3>5, TimesCancel
    <2>3. QED
      BY <1>1, <2>1, <2>2
  <1>13. (l * j) * t \in Int /\ 2 * (l * j) * (d - r) \in Int /\ 3 * (l * j) * (e - r) \in Int
    BY <1>1
  <1> HIDE DEF t
  <1>14. QED
    BY <1>11, <1>12, <1>13

\* A round from below ends a few units above at most.
LEMMA RoundFromBelow ==
    ASSUME NEW i \in Nat \ {0}, NEW j \in Nat, j >= 3, NEW s \in Nat, NEW l \in Nat,
           NEW d \in Nat \ {0}, d <= s, 2 * s + 1 <= i * j, NEW h \in 1 .. 2,
           NEW v \in Nat, NEW p \in Nat, NEW e \in Nat, l * d <= v,
           d * d * d < i * j * p + i * j + i * d,
           (i * j) * (v + 3 * p) * (e - (d + h))
             <= d * (d + h) * (d + h) * (d + h) + (i * j) * (d + h)
                + (i * j) * p * (2 * d - 3 * (d + h))
    PROVE  (l * j) * (e - (d + h)) <= (2 * h * h + 5 * h + 2) * j + s + 1
  <1> DEFINE k == i * j
             r == d + h
             den == v + 3 * p
             c == d * d * d
             w == d + 3 * h
             goal == (2 * h * h + 5 * h + 2) * j + s + 1
  <1>1. /\ k \in Nat \ {0} /\ den \in Nat /\ w \in Nat /\ r \in Nat /\ c \in Nat /\ i * d \in Nat
        /\ h \in Nat \ {0}
    <2>1. i * d \in Nat /\ d * d * d \in Nat /\ i * j \in Nat
      OBVIOUS
    <2>2. QED
      BY <2>1
  <1>2. k * den * (e - r) <= d * r * r * r + k * r - (k * p) * w
    <2>1. (k * p) * (2 * d - 3 * r) = - ((k * p) * w)
      OBVIOUS
    <2>2. k * p * (2 * d - 3 * r) = (k * p) * (2 * d - 3 * r)
      OBVIOUS
    <2>3. k * den * (e - r) <= d * r * r * r + k * r + k * p * (2 * d - 3 * r)
      OBVIOUS
    <2>4. /\ k * den * (e - r) \in Int /\ d * r * r * r \in Int /\ k * r \in Int
          /\ (k * p) * w \in Int
      BY <1>1
    <2>5. QED
      BY ONLY <2>1, <2>2, <2>3, <2>4
  <1>3. c * w <= (k * p) * w + k * w + (i * d) * w
    <2>1. c < k * p + k + i * d
      OBVIOUS
    <2>2. k * p + k + i * d \in Nat /\ c <= k * p + k + i * d
      <3>1. k * p \in Nat
        BY <1>1
      <3> HIDE DEF k, c
      <3>2. QED
        BY <1>1, <2>1, <3>1
    <2> HIDE DEF k, c, w
    <2>3. c * w <= (k * p + k + i * d) * w
      BY <1>1, <2>2, TimesMonotone
    <2>4. (k * p + k + i * d) * w = (k * p) * w + k * w + (i * d) * w
      BY <1>1
    <2>5. QED
      BY <2>3, <2>4
  <1>4. d * r * r * r - c * w = d * ((h * h) * (3 * d + h))
    OBVIOUS
  <1>5. k * den * (e - r) <= d * ((h * h) * (3 * d + h)) + k * r + k * w + (i * d) * w
    <2>1. /\ k * den * (e - r) \in Int /\ d * r * r * r \in Int /\ k * r \in Int
          /\ (k * p) * w \in Int /\ c * w \in Int /\ k * w \in Int /\ (i * d) * w \in Int
          /\ d * ((h * h) * (3 * d + h)) \in Int
      BY <1>1
    <2>2. QED
      BY ONLY <1>2, <1>3, <1>4, <2>1
  <1>6. d * ((h * h) * (3 * d + h)) <= d * ((h * h) * (2 * k))
    <2>1. 3 * d + h <= 2 * k
      <3> HIDE DEF k
      <3>1. 2 * s + 1 <= k
        BY DEF k
      <3>2. QED
        BY <1>1, <3>1
    <2>2. h * h \in Nat /\ 3 * d + h \in Nat /\ 2 * k \in Nat
      BY <1>1
    <2> HIDE DEF k
    <2>3. (h * h) * (3 * d + h) <= (h * h) * (2 * k)
      BY <2>1, <2>2, TimesMonotone
    <2>4. (h * h) * (3 * d + h) \in Nat /\ (h * h) * (2 * k) \in Nat
      BY <2>2
    <2>5. QED
      BY <2>3, <2>4, TimesMonotone
  <1> DEFINE right == d * ((h * h) * (2 * k)) + k * r + k * w + (i * d) * w
  <1>7. j * right <= (k * d) * goal
    <2>1. j * right = (k * d) * (2 * h * h * j + 2 * j) + (k * j) * (4 * h)
                      + (k * d) * d + (k * d) * (3 * h)
      OBVIOUS
    <2>2. (k * d) * goal = (k * d) * (2 * h * h * j + 2 * j) + (k * d * j) * (4 * h)
                           + (k * d) * (h * j) + (k * d) * (s + 1)
      OBVIOUS
    <2>3. (k * j) * (4 * h) <= (k * d * j) * (4 * h)
      <3>1. k * j \in Nat
        BY <1>1
      <3>2. (k * j) * 1 <= (k * j) * d
        BY <3>1, TimesMonotone
      <3>3. (k * j) * d = k * d * j /\ (k * j) * 1 = k * j
        BY <1>1
      <3>4. k * j <= k * d * j /\ k * d * j \in Nat /\ 4 * h \in Nat
        BY <1>1, <3>2, <3>3
      <3> HIDE DEF k
      <3>5. QED
        BY <3>1, <3>4, TimesMonotone
    <2>4. (k * d) * (3 * h) <= (k * d) * (h * j)
      <3>1. h * 3 <= h * j
        BY <1>1, TimesMonotone
      <3>2. k * d \in Nat /\ 3 * h \in Nat /\ h * j \in Nat /\ 3 * h = h * 3
        BY <1>1
      <3> HIDE DEF k
      <3>3. QED
        BY <3>1, <3>2, TimesMonotone
    <2>5. (k * d) * d <= (k * d) * (s + 1)
      <3>1. k * d \in Nat
        BY <1>1
      <3> HIDE DEF k
      <3>2. QED
        BY <3>1, TimesMonotone
    <2>6. /\ j * right \in Int /\ (k * d) * goal \in Int
          /\ (k * d) * (2 * h * h * j + 2 * j) \in Int
          /\ (k * j) * (4 * h) \in Int /\ (k * d * j) * (4 * h) \in Int
          /\ (k * d) * d \in Int /\ (k * d) * (3 * h) \in Int /\ (k * d) * (h * j) \in Int
          /\ (k * d) * (s + 1) \in Int
      BY <1>1
    <2>7. QED
      BY ONLY <2>1, <2>2, <2>3, <2>4, <2>5, <2>6
  <1>8. goal \in Nat
    <2>1. h * h \in Nat /\ 2 * h * h = 2 * (h * h)
      BY <1>1
    <2>2. 2 * h * h + 5 * h + 2 \in Nat
      BY <1>1, <2>1
    <2> DEFINE n == 2 * h * h + 5 * h + 2
    <2> HIDE DEF n
    <2>3. n \in Nat
      BY <2>2 DEF n
    <2>4. n * j + s + 1 \in Nat
      BY <2>3
    <2>5. QED
      BY <2>4 DEF n
  <1>9. (l * j) * (e - r) <= goal
    <2>1. CASE e <= r
      <3>1. l * j \in Nat /\ r - e \in Nat /\ (l * j) * (e - r) = - ((l * j) * (r - e))
        BY <1>1, <2>1
      <3> HIDE DEF goal, r
      <3>2. (l * j) * (r - e) \in Nat
        BY <3>1
      <3>3. (l * j) * (e - r) <= 0 /\ (l * j) * (e - r) \in Int
        BY ONLY <3>1, <3>2
      <3>4. QED
        BY ONLY <1>8, <3>3
    <2>2. CASE r < e
      <3> DEFINE x == e - r
      <3>1. x \in Nat
        BY <1>1, <2>2
      <3> HIDE DEF x
      <3>2. k * den * x <= right
        <4>1. k * den * x <= d * ((h * h) * (3 * d + h)) + k * r + k * w + (i * d) * w
          BY <1>5 DEF x
        <4>2. /\ k * den * x \in Int /\ k * r \in Int /\ k * w \in Int /\ (i * d) * w \in Int
              /\ d * ((h * h) * (3 * d + h)) \in Int /\ d * ((h * h) * (2 * k)) \in Int
          BY <1>1, <3>1
        <4>3. QED
          BY ONLY <1>6, <4>1, <4>2
      <3>3. right \in Nat
        <4>1. h * h \in Nat
          BY <1>1
        <4>2. (h * h) * (2 * k) \in Nat
          BY <1>1, <4>1
        <4>3. d * ((h * h) * (2 * k)) \in Nat /\ k * r \in Nat /\ k * w \in Nat
              /\ (i * d) * w \in Nat
          BY <1>1, <4>2
        <4>4. QED
          BY ONLY <4>3
      <3>4. (l * d) * ((k * x) * j) <= den * ((k * x) * j)
        <4>1. k * x \in Nat
          BY <1>1, <3>1
        <4>2. (k * x) * j \in Nat /\ l * d \in Nat
          BY <4>1
        <4>3. l * d <= den
          BY <4>2
        <4>4. QED
          BY <1>1, <4>2, <4>3, TimesMonotone
      <3>5. j * (k * den * x) <= j * right
        <4>1. k * den * x \in Nat
          <5>1. k * den \in Nat
            BY <1>1
          <5>2. QED
            BY <3>1, <5>1
        <4> HIDE DEF right, k, den
        <4>2. QED
          BY <3>2, <3>3, <4>1, TimesMonotone
      <3>6. (l * d) * ((k * x) * j) = ((l * j) * x) * (k * d)
            /\ den * ((k * x) * j) = j * (k * den * x) /\ (k * d) * goal = goal * (k * d)
        BY <1>1, <1>8, <3>1
      <3>7. /\ ((l * j) * x) * (k * d) \in Int /\ j * (k * den * x) \in Int
            /\ j * right \in Int /\ goal * (k * d) \in Int /\ (l * j) * x \in Int
        BY <1>1, <1>8, <3>1, <3>3
      <3>8. ((l * j) * x) * (k * d) <= goal * (k * d)
        BY ONLY <1>7, <3>4, <3>5, <3>6, <3>7
      <3>9. k * d \in Nat \ {0}
        <4> HIDE DEF k
        <4>1. k * d > 0 /\ k * d \in Nat
          BY <1>1
        <4>2. QED
          BY <4>1
      <3> HIDE DEF goal, k
      <3>10. (l * j) * x <= goal
        BY <1>8, <3>7, <3>8, <3>9, TimesCancel
      <3>11. QED
        BY <3>10 DEF x
    <2>3. QED
      BY <1>1, <2>1, <2>2
  <1>10. QED
    BY <1>9

\* The product of compute_d is truncated twice.
LEMMA ProductTruncated ==
    ASSUME NEW d \in Nat, NEW a \in Nat, NEW b \in Nat
    PROVE  LET i == 2 * a + 1
               j == 2 * b + 1
               p == Product(d, a, b)
           IN  /\ p \in Nat
               /\ i * j * p <= d * d * d
               /\ d * d * d < i * j * p + i * j + i * d
  <1> DEFINE i == 2 * a + 1
             j == 2 * b + 1
             x == (d * d) \div i
             y == (x * d) \div j
  <1>1. i \in Nat \ {0} /\ j \in Nat \ {0} /\ d * d \in Nat
    OBVIOUS
  <1>2. Product(d, a, b) = y
    BY DEF Product
  <1> HIDE DEF i, j
  <1>3. x \in Nat /\ i * x <= d * d /\ d * d < i * x + i
    BY <1>1, DivBounds
  <1> HIDE DEF x
  <1>4. x * d \in Nat
    BY <1>3
  <1>5. y \in Nat /\ j * y <= x * d /\ x * d < j * y + j
    BY <1>1, <1>4, DivBounds
  <1> HIDE DEF y
  <1>6. i * x \in Nat /\ j * y \in Nat /\ i * j * y \in Nat /\ i * d \in Nat /\ i * j \in Nat
    BY <1>1, <1>3, <1>5
  <1>7. (i * x) * d <= (d * d) * d /\ (d * d) * d <= (i * x + i) * d
    BY <1>1, <1>3, <1>6, TimesMonotone
  <1>8. i * (j * y) <= i * (x * d) /\ i * (x * d + 1) <= i * (j * y + j)
    <2>1. x * d + 1 <= j * y + j /\ j * y + j \in Nat
      BY <1>1, <1>4, <1>5, <1>6
    <2>2. QED
      BY <1>1, <1>4, <1>5, <1>6, <2>1, TimesMonotone
  <1>9. /\ i * (j * y) = i * j * y /\ i * (x * d) = (i * x) * d
        /\ i * (x * d + 1) = (i * x) * d + i /\ i * (j * y + j) = i * j * y + i * j
        /\ (i * x + i) * d = (i * x) * d + i * d
    BY <1>1, <1>3, <1>5
  <1>10. (i * x) * d \in Nat /\ (d * d) * d \in Nat
    BY <1>1, <1>6
  <1>11. i * j * y <= d * d * d /\ d * d * d < i * j * y + i * j + i * d
    BY <1>1, <1>6, <1>7, <1>8, <1>9, <1>10
  <1>12. QED
    BY <1>2, <1>5, <1>11 DEF i, j

\* u is n out of m of s, rounded down.
Truncated(n, m, s, u) == m * u <= n * s /\ n * s < m * u + m

\* A leverage without a fraction is not truncated.
LEMMA WholeLeverage ==
    ASSUME NEW n \in Nat, NEW m \in Nat \ {0}, NEW s \in Nat, NEW u \in Nat,
           Truncated(n, m, s, u), n % m = 0
    PROVE  m * u = n * s
  <1>0. m * u <= n * s /\ n * s < m * u + m
    BY DEF Truncated
  <1> DEFINE q == n \div m
  <1>1. q \in Nat /\ n = m * q
    <2>1. n \div m \in Nat
      BY DivBounds
    <2>2. n = m * (n \div m) + (n % m)
      BY DivMod
    <2>3. QED
      BY <2>1, <2>2
  <1> HIDE DEF q
  <1>2. n * s = (q * s) * m /\ q * s \in Nat /\ m * u = u * m
    BY <1>1
  <1>3. u <= q * s
    <2>1. u * m <= (q * s) * m
      BY <1>0, <1>2
    <2>2. QED
      BY <1>2, <2>1, TimesCancel
  <1>4. q * s <= u
    <2> SUFFICES ASSUME u + 1 <= q * s PROVE FALSE
      BY <1>2
    <2>1. (u + 1) * m <= (q * s) * m
      BY <1>2, TimesMonotone
    <2>2. (u + 1) * m = u * m + m /\ u * m \in Nat /\ (q * s) * m \in Nat
      BY <1>2
    <2>3. QED
      BY <1>0, <1>2, <2>1, <2>2
  <1>5. QED
    BY <1>2, <1>3, <1>4

\* What a round of compute_d computes.
LEMMA RoundIs ==
    ASSUME NEW n \in Nat, 2 * AMP_PRECISION <= n, NEW a \in Nat, NEW b \in Nat, a + b > 0,
           NEW d \in Nat \ {0}
    PROVE  \E u, v, p \in Nat : RoundOf(n, AMP_PRECISION, a + b, 2 * a + 1, 2 * b + 1, d,
                                        u, v, p, NextD(n, a, b, d))
  <1> DEFINE m == AMP_PRECISION
             s == a + b
             i == 2 * a + 1
             j == 2 * b + 1
             e == NextD(n, a, b, d)
             p == Product(d, a, b)
             u == (n * s) \div m
             v == ((n - m) * d) \div m
             l == (n - m) \div m
             num == (u + 2 * p) * d
             den == v + 3 * p
  <1>1. e = num \div den
    BY DEF NextD, CalculateStep
  <1>2. p \in Nat /\ i * j * p <= d * d * d /\ d * d * d < i * j * p + i * j + i * d
    BY ProductTruncated
  <1>3. m \in Nat \ {0} /\ 2 * m <= n /\ n - m \in Nat /\ m <= n - m /\ s \in Nat
    BY PoolMathAssumption
  <1> HIDE DEF m, s, i, j, p
  <1>4. u \in Nat /\ m * u <= n * s /\ n * s < m * u + m
    <2>1. n * s \in Nat
      BY <1>3
    <2>2. QED
      BY <1>3, <2>1, DivBounds
  <1>5. v \in Nat /\ m * v <= (n - m) * d /\ (n - m) * d < m * v + m
    <2>1. (n - m) * d \in Nat
      BY <1>3
    <2>2. QED
      BY <1>3, <2>1, DivBounds
  <1>6. l \in Nat /\ m * l <= n - m /\ n - m < m * l + m
    BY <1>3, DivBounds
  <1> HIDE DEF u, v, l
  <1>7. ASSUME n % m = 0 PROVE m * u = n * s
    <2>1. Truncated(n, m, s, u)
      BY <1>4 DEF Truncated
    <2>2. QED
      BY <1>3, <1>4, <1>7, <2>1, WholeLeverage
  <1>8. l * d <= v
    <2>1. (m * l) * d <= (n - m) * d
      <3>1. m * l \in Nat
        BY <1>3, <1>6
      <3>2. QED
        BY <1>3, <1>6, <3>1, TimesMonotone
    <2> SUFFICES ASSUME v + 1 <= l * d PROVE FALSE
      BY <1>5, <1>6
    <2>2. m * (v + 1) <= m * (l * d)
      BY <1>3, <1>5, <1>6, TimesMonotone
    <2>3. m * (v + 1) = m * v + m /\ m * (l * d) = (m * l) * d /\ m * v \in Nat
          /\ (m * l) * d \in Nat /\ (n - m) * d \in Nat
      BY <1>3, <1>5, <1>6
    <2>4. QED
      BY <1>3, <1>5, <2>1, <2>2, <2>3
  <1>9. l >= 1
    <2>1. l = 0 => m * l + m = m
      BY <1>3
    <2>2. QED
      BY <1>3, <1>6, <2>1
  <1>10. num \in Nat /\ den \in Nat \ {0}
    <2>1. u + 2 * p \in Nat
      BY <1>2, <1>4
    <2>2. 1 * d <= l * d /\ l * d \in Nat
      BY <1>6, <1>9, TimesMonotone
    <2>3. v > 0
      BY <1>5, <1>8, <2>2
    <2>4. QED
      BY <1>2, <1>5, <2>1, <2>3
  <1> HIDE DEF num, den
  <1>11. e \in Nat /\ den * e <= num /\ num < den * e + den
    BY <1>1, <1>10, DivBounds
  <1> HIDE DEF e
  <1>12. e * den <= num /\ num < (e + 1) * den
    <2>1. den * e = e * den /\ den * e + den = (e + 1) * den
      BY <1>10, <1>11
    <2>2. QED
      BY <1>11, <2>1
  <1>13. RoundOf(n, m, s, i, j, d, u, v, p, e)
    <2>1. e * (v + 3 * p) <= (u + 2 * p) * d /\ (u + 2 * p) * d < (e + 1) * (v + 3 * p)
      BY <1>12 DEF num, den
    <2>2. ((n - m) \div m) * d <= v
      BY <1>8 DEF l
    <2>3. QED
      BY ONLY <1>2, <1>4, <1>5, <1>7, <1>11, <2>1, <2>2 DEF RoundOf
  <1>14. QED
    BY <1>2, <1>4, <1>5, <1>13 DEF m, s, i, j, e

\* The equation of a pool, of a number d.
PoolGap(n, a, b, d) == Gap(n, AMP_PRECISION, a + b, (2 * a + 1) * (2 * b + 1), d)

\* A round does not end below the root, wherever it starts, but for Below.
LEMMA NextDNotBelow ==
    ASSUME NEW n \in Nat, 2 * AMP_PRECISION <= n, NEW a \in Nat, NEW b \in Nat, a + b > 0,
           NEW d \in Nat \ {0}
    PROVE  PoolGap(n, a, b, NextD(n, a, b, d) + Below(n)) >= 0
  <1> DEFINE m == AMP_PRECISION
             s == a + b
             i == 2 * a + 1
             j == 2 * b + 1
             k == i * j
             l == n - m
             e0 == NextD(n, a, b, d)
             e == e0 + Below(n)
  <1>1. PICK u \in Nat, v \in Nat, p \in Nat : RoundOf(n, m, s, i, j, d, u, v, p, e0)
    BY RoundIs
  <1>2. m \in Nat \ {0} /\ 2 * m <= n /\ m <= n /\ s \in Nat /\ k \in Nat /\ k > 0
    <2>1. i \in Nat \ {0} /\ j \in Nat \ {0}
      OBVIOUS
    <2> HIDE DEF i, j
    <2>2. k \in Nat /\ k > 0
      BY <2>1
    <2>3. QED
      BY <2>2, PoolMathAssumption
  <1>3. /\ e0 \in Nat /\ m * u <= n * s /\ n * s < m * u + m
        /\ n % m = 0 => m * u = n * s
        /\ m * v <= l * d /\ ((n - m) \div m) * d <= v
        /\ k * p <= d * d * d
        /\ (u + 2 * p) * d < (e0 + 1) * (v + 3 * p)
    BY <1>1 DEF RoundOf
  <1>4. l \in Nat /\ m <= l
    BY <1>2
  <1>5. d <= v
    <2> DEFINE q == (n - m) \div m
    <2>1. q \in Nat /\ l < m * q + m
      BY <1>2, <1>4, DivBounds
    <2>2. q * d <= v
      BY <1>3
    <2> HIDE DEF q
    <2>3. q = 0 => m * q + m = m
      BY <1>2
    <2>4. q >= 1
      BY <1>2, <1>4, <2>1, <2>3
    <2>5. 1 * d <= q * d /\ q * d \in Nat
      BY <2>1, <2>4, TimesMonotone
    <2>6. QED
      BY <2>2, <2>5
  <1>6. Below(n) \in 1 .. 2 /\ (Below(n) = 1 => n % m = 0) /\ e \in Nat
    BY <1>3 DEF Below
  <1> HIDE DEF m, s, i, j, k, l, e0
  <1>7. n * s * d + 2 * m * p * d < l * d * e + 3 * m * p * e
    <2> DEFINE den == v + 3 * p
               num == (u + 2 * p) * d
    <2>1. den \in Nat /\ num \in Nat
      OBVIOUS
    <2>2. num < (e0 + 1) * den
      BY <1>3
    <2>3. m * num < m * ((e0 + 1) * den)
      <3> HIDE DEF num, den
      <3>1. (e0 + 1) * den \in Nat
        BY <1>3, <2>1
      <3>2. \A x, y \in Nat : x < y => m * x < m * y
        BY <1>2
      <3>3. QED
        BY <2>1, <2>2, <3>1, <3>2
    <2>4. m * num = (m * u) * d + 2 * m * p * d
      BY <1>2
    <2>5. m * ((e0 + 1) * den) = (e0 + 1) * (m * v) + 3 * m * p * (e0 + 1)
      BY <1>2, <1>3
    <2>6. (e0 + 1) * (m * v) <= (e0 + 1) * (l * d)
      <3>1. m * v \in Nat /\ l * d \in Nat
        BY <1>2, <1>4
      <3>2. QED
        BY <1>3, <3>1, TimesMonotone
    <2>7. /\ (m * u) * d \in Nat /\ 2 * m * p * d \in Nat /\ 3 * m * p * (e0 + 1) \in Nat
          /\ (e0 + 1) * (l * d) \in Nat /\ (e0 + 1) * (m * v) \in Nat /\ n * s * d \in Nat
          /\ 3 * m * p \in Nat /\ l * d \in Nat /\ m * d \in Nat
      BY <1>2, <1>3, <1>4
    <2>8. (m * u) * d + 2 * m * p * d < (e0 + 1) * (l * d) + 3 * m * p * (e0 + 1)
      BY ONLY <2>3, <2>4, <2>5, <2>6, <2>7
    <2>9. CASE Below(n) = 1
      <3>1. (m * u) * d = n * s * d
        BY <1>2, <1>3, <1>6, <2>9
      <3>2. e = e0 + 1
        BY <2>9
      <3>3. l * d * e = (e0 + 1) * (l * d) /\ 3 * m * p * e = 3 * m * p * (e0 + 1)
        BY <1>2, <1>3, <1>4, <3>2
      <3>4. QED
        BY <2>8, <3>1, <3>3
    <2>10. CASE Below(n) = 2
      <3>1. e = e0 + 2
        BY <2>10
      <3>2. l * d * e = (e0 + 1) * (l * d) + l * d
            /\ 3 * m * p * e = 3 * m * p * (e0 + 1) + 3 * m * p
        BY <1>2, <1>3, <1>4, <3>1
      <3>3. n * s * d <= (m * u) * d + m * d
        <4>1. n * s <= m * u + m /\ n * s \in Nat /\ m * u + m \in Nat
          BY <1>2, <1>3
        <4>2. (n * s) * d <= (m * u + m) * d
          BY <4>1, TimesMonotone
        <4>3. (m * u + m) * d = (m * u) * d + m * d
          BY <1>2
        <4>4. QED
          BY <4>2, <4>3
      <3>4. m * d <= l * d
        BY <1>2, <1>4, TimesMonotone
      <3>5. QED
        BY ONLY <2>7, <2>8, <3>2, <3>3, <3>4
    <2>11. QED
      BY <1>6, <2>9, <2>10
  <1>8. (n - m) * d * e + 3 * m * p * e = l * d * e + 3 * m * p * e
    BY DEF l
  <1>9. Gap(n, m, s, k, e) >= 0
    <2>1. n * s * d + 2 * m * p * d < (n - m) * d * e + 3 * m * p * e
      BY <1>7, <1>8
    <2> HIDE DEF e
    <2>2. QED
      BY <1>2, <1>3, <1>6, <2>1, RoundNotBelow
  <1>10. QED
    BY <1>9 DEF PoolGap, m, s, i, j, k, e0

\* One unit of a division of compute_d, as Above counts it, and what its
\* truncations come to.
Unit(n, b) == ((n - AMP_PRECISION) \div AMP_PRECISION) * (2 * b + 1)

Lost(a, b, x) == x * (2 * b + 1) + a + b + 1

\* How far a round ends from a number that is not below.
LEMMA NextDNearRoot ==
    ASSUME NEW n \in Nat, 2 * AMP_PRECISION <= n,
           NEW a \in Nat \ {0}, NEW b \in Nat \ {0}, NEW d \in Nat \ {0},
           NEW r \in Nat, r <= a + b + 1, PoolGap(n, a, b, r) >= 0,
           PoolGap(n, a, b, d + Below(n)) >= 0
    PROVE  LET e == NextD(n, a, b, d)
           IN  /\ r <= d => 3 * Unit(n, b) * (e - r)
                              <= 2 * Unit(n, b) * (d - r) + 3 * Lost(a, b, 2)
               /\ d < r => Unit(n, b) * (e - r)
                              <= Lost(a, b, (2 * Below(n) + 1) * (Below(n) + 2))
  <1> DEFINE m == AMP_PRECISION
             s == a + b
             i == 2 * a + 1
             j == 2 * b + 1
             k == i * j
             l == (n - m) \div m
             e == NextD(n, a, b, d)
             w == Below(n)
  <1>1. PICK u \in Nat, v \in Nat, p \in Nat : RoundOf(n, m, s, i, j, d, u, v, p, e)
    <2>1. a \in Nat /\ b \in Nat /\ a + b > 0
      OBVIOUS
    <2>2. \E u, v, p \in Nat : RoundOf(n, AMP_PRECISION, a + b, 2 * a + 1, 2 * b + 1, d,
                                      u, v, p, NextD(n, a, b, d))
      BY <2>1, RoundIs
    <2>3. QED
      BY <2>2
  <1>2. m \in Nat \ {0} /\ 2 * m <= n /\ m <= n /\ s \in Nat /\ k \in Nat /\ 2 * s + 1 <= k
    <2>1. k = 4 * (a * b) + 2 * s + 1 /\ a * b \in Nat
      OBVIOUS
    <2>2. QED
      BY <2>1, PoolMathAssumption
  <1>3. i \in Nat \ {0} /\ j \in Nat \ {0} /\ j >= 3
    OBVIOUS
  <1>4. w \in 1 .. 2
    BY DEF Below
  <1>5. /\ e \in Nat /\ m * u <= n * s /\ (n - m) * d < m * v + m /\ l * d <= v
        /\ d * d * d < i * j * p + i * j + i * d
        /\ e * (v + 3 * p) <= (u + 2 * p) * d
    BY <1>1 DEF RoundOf
  <1>6. l \in Nat
    <2>1. n - m \in Nat
      BY <1>2
    <2>2. QED
      BY <1>2, <2>1, DivBounds
  <1>7. Unit(n, b) = l * j
    BY DEF Unit
  <1>8. \A x \in Nat : PoolGap(n, a, b, x) = Gap(n, m, s, k, x)
    BY DEF PoolGap
  <1> HIDE DEF m, i, j, k, l, e, w
  <1>9. ASSUME NEW x \in Nat, PoolGap(n, a, b, x) >= 0
        PROVE  (i * j) * (v + 3 * p) * (e - x)
                 <= d * x * x * x + (i * j) * x + (i * j) * p * (2 * d - 3 * x)
    <2>1. Gap(n, m, s, k, x) >= 0
      BY <1>8, <1>9
    <2>2. k * (v + 3 * p) * (e - x) <= d * x * x * x + k * x + k * p * (2 * d - 3 * x)
      BY <1>2, <1>5, <2>1, RoundFromRoot
    <2>3. QED
      BY <2>2 DEF k
  <1>10. ASSUME r <= d
         PROVE  3 * (l * j) * (e - r) <= 2 * (l * j) * (d - r) + 3 * (2 * j + s + 1)
    <2>1. (i * j) * (v + 3 * p) * (e - r)
            <= d * r * r * r + (i * j) * r + (i * j) * p * (2 * d - 3 * r)
      BY <1>9
    <2>2. QED
      BY <1>2, <1>3, <1>5, <1>6, <1>10, <2>1, RoundFromAbove
  <1>11. ASSUME d < r
         PROVE  (l * j) * (e - r) <= ((2 * w + 1) * (w + 2)) * j + s + 1
    <2> DEFINE h == IF r <= d + w THEN r - d ELSE w
    <2>1. h \in 1 .. 2 /\ h <= w /\ h \in Nat /\ d + h <= r /\ d + h \in Nat
      BY <1>4, <1>11
    <2>2. PoolGap(n, a, b, d + h) >= 0
      <3>1. d + h = r \/ d + h = d + w
        BY <1>4, <1>11
      <3>2. QED
        BY <3>1 DEF w
    <2> HIDE DEF h
    <2>3. (i * j) * (v + 3 * p) * (e - (d + h))
            <= d * (d + h) * (d + h) * (d + h) + (i * j) * (d + h)
               + (i * j) * p * (2 * d - 3 * (d + h))
      BY <1>9, <2>1, <2>2
    <2>4. d <= s
      BY <1>11
    <2>5. 2 * s + 1 <= i * j
      BY <1>2 DEF k
    <2>6. (l * j) * (e - (d + h)) <= (2 * h * h + 5 * h + 2) * j + s + 1
      BY <1>2, <1>3, <1>5, <1>6, <2>1, <2>3, <2>4, <2>5, RoundFromBelow
    <2>7. (l * j) * (e - r) <= (l * j) * (e - (d + h))
      <3>1. l * j \in Nat /\ r - (d + h) \in Nat
        BY <1>3, <1>6, <2>1
      <3>2. (l * j) * (r - (d + h)) \in Nat
        BY <3>1
      <3>3. (l * j) * (e - (d + h)) = (l * j) * (e - r) + (l * j) * (r - (d + h))
        BY <1>3, <1>5, <1>6, <2>1
      <3>4. (l * j) * (e - r) \in Int
        BY <1>3, <1>5, <1>6
      <3>5. QED
        BY <3>2, <3>3, <3>4
    <2>8. (2 * h * h + 5 * h + 2) * j <= ((2 * w + 1) * (w + 2)) * j
      <3>1. 2 * h * h + 5 * h + 2 \in Nat /\ (2 * w + 1) * (w + 2) \in Nat
            /\ 2 * h * h + 5 * h + 2 <= (2 * w + 1) * (w + 2)
        <4>1. CASE h = 1 /\ w = 1
          BY <4>1
        <4>2. CASE h = 1 /\ w = 2
          BY <4>2
        <4>3. CASE h = 2 /\ w = 2
          BY <4>3
        <4>4. QED
          BY <1>4, <2>1, <4>1, <4>2, <4>3
      <3>2. QED
        BY <1>3, <3>1, TimesMonotone
    <2>9. /\ (l * j) * (e - r) \in Int /\ (l * j) * (e - (d + h)) \in Int
          /\ (2 * h * h + 5 * h + 2) * j \in Int /\ ((2 * w + 1) * (w + 2)) * j \in Int
      BY <1>3, <1>4, <1>5, <1>6, <2>1
    <2>10. QED
      BY ONLY <1>2, <2>6, <2>7, <2>8, <2>9
  <1>12. /\ Lost(a, b, 2) = 2 * j + s + 1
         /\ Lost(a, b, (2 * w + 1) * (w + 2)) = ((2 * w + 1) * (w + 2)) * j + s + 1
    <2>1. ASSUME NEW x \in Int PROVE Lost(a, b, x) = x * j + s + 1
      <3>1. x * (2 * b + 1) \in Int
        BY <2>1
      <3>2. Lost(a, b, x) = x * (2 * b + 1) + a + b + 1
        BY DEF Lost
      <3>3. QED
        BY <3>1, <3>2 DEF j
    <2>2. (2 * w + 1) * (w + 2) \in Int
      BY <1>4
    <2>3. QED
      BY <2>1, <2>2
  <1> HIDE DEF s
  <1>13. /\ r <= d => 3 * Unit(n, b) * (e - r) <= 2 * Unit(n, b) * (d - r) + 3 * Lost(a, b, 2)
         /\ d < r => Unit(n, b) * (e - r) <= Lost(a, b, (2 * w + 1) * (w + 2))
    BY <1>7, <1>10, <1>11, <1>12
  <1>14. QED
    BY <1>13 DEF e, w

\* The two numbers whose larger one Above takes in a round from x, and the i-th
\* of the rounds f.
Remains(n, a, b, x) == (2 * Unit(n, b) * x + 3 * Lost(a, b, 2)) \div (3 * Unit(n, b))

Turned(n, a, b) == Lost(a, b, (2 * Below(n) + 1) * (Below(n) + 2)) \div Unit(n, b)

Distance(n, a, b, f, i) ==
    IF i = 0 THEN a + b
    ELSE IF Remains(n, a, b, f[i - 1]) > Turned(n, a, b)
         THEN Remains(n, a, b, f[i - 1]) ELSE Turned(n, a, b)

Distances(n, a, b, k) == \E f : f = [i \in 0 .. k |-> Distance(n, a, b, f, i)]

\* The rounds of Above exist, however many there are.
LEMMA DistancesExist ==
    ASSUME NEW n, NEW a, NEW b, NEW k \in Nat
    PROVE  Distances(n, a, b, k)
  <1> DEFINE T == {i \in Nat : ~Distances(n, a, b, i)}
  <1>1. ASSUME T # {} PROVE FALSE
    <2>1. T \in SUBSET Nat
      OBVIOUS
    <2>2. PICK m \in T : \A i \in T : m <= i
      BY <1>1, <2>1, SmallestNumber
    <2>3. CASE m = 0
      <3>1. [i \in 0 .. 0 |-> a + b]
              = [i \in 0 .. 0 |-> Distance(n, a, b, [j \in 0 .. 0 |-> a + b], i)]
        BY DEF Distance
      <3>2. Distances(n, a, b, 0)
        BY <3>1 DEF Distances
      <3>3. QED
        BY <2>2, <2>3, <3>2
    <2>4. CASE m # 0
      <3>1. m - 1 \in Nat /\ m - 1 < m /\ m \in Nat
        BY <2>2, <2>4
      <3>2. Distances(n, a, b, m - 1)
        BY <3>1, <2>2
      <3>3. PICK f : f = [i \in 0 .. m - 1 |-> Distance(n, a, b, f, i)]
        BY <3>2 DEF Distances
      <3> DEFINE g == [i \in 0 .. m |-> IF i = m THEN Distance(n, a, b, f, i) ELSE f[i]]
      <3>4. ASSUME NEW i \in 0 .. m PROVE g[i] = Distance(n, a, b, g, i)
        <4>1. i # 0 => i - 1 \in 0 .. m - 1
          BY <3>1
        <4>2. i # 0 => g[i - 1] = f[i - 1]
          BY <4>1, <3>1
        <4>3. Distance(n, a, b, g, i) = Distance(n, a, b, f, i)
          BY <4>2 DEF Distance
        <4>4. i # m => f[i] = Distance(n, a, b, f, i)
          BY <3>3, <3>1
        <4>5. QED
          BY <4>3, <4>4
      <3>5. g = [i \in 0 .. m |-> Distance(n, a, b, g, i)]
        BY <3>4
      <3>6. Distances(n, a, b, m)
        BY <3>5 DEF Distances
      <3>7. QED
        BY <3>6, <2>2
    <2>5. QED
      BY <2>3, <2>4
  <1>2. QED
    BY <1>1

\* Above gives the last of them.
LEMMA AboveUnfolds ==
    ASSUME NEW n, NEW a, NEW b
    PROVE  \E f : /\ f = [i \in 0 .. ITERATIONS |-> Distance(n, a, b, f, i)]
                 /\ Above(n, a, b) = f[ITERATIONS]
  <1>1. \E f : f = [i \in 0 .. ITERATIONS |-> Distance(n, a, b, f, i)]
    <2>1. Distances(n, a, b, ITERATIONS)
      BY PoolMathAssumption, DistancesExist
    <2>2. QED
      BY <2>1 DEF Distances
  <1> DEFINE g == CHOOSE f : f = [i \in 0 .. ITERATIONS |-> Distance(n, a, b, f, i)]
  <1>2. Above(n, a, b) = g[ITERATIONS]
    BY DEF Above, Distance, Remains, Turned, Unit, Lost
  <1>3. g = [i \in 0 .. ITERATIONS |-> Distance(n, a, b, g, i)]
    BY <1>1
  <1>4. QED
    BY <1>2, <1>3

\* No round ends below the root, nor does the sum it starts with.
LEMMA RoundsNotBelow ==
    ASSUME NEW n \in Nat, 2 * AMP_PRECISION <= n, NEW a \in Nat, NEW b \in Nat, a + b > 0,
           NEW f, f = [i \in 0 .. ITERATIONS |-> Round(n, a, b, f, i)],
           NEW i \in 0 .. ITERATIONS
    PROVE  PoolGap(n, a, b, f[i] + Below(n)) >= 0
  <1>1. f[i] = Round(n, a, b, f, i)
    OBVIOUS
  <1>2. CASE i = 0
    <2> DEFINE m == AMP_PRECISION
               s == a + b
               k == (2 * a + 1) * (2 * b + 1)
    <2>1. f[i] = s
      BY <1>1, <1>2 DEF Round
    <2>2. m \in Nat /\ m <= n /\ s \in Nat /\ k \in Nat
      BY PoolMathAssumption
    <2>3. Gap(n, m, s, k, s + 1) >= 0
      BY <2>2, GapOfSum
    <2>4. s + 1 \in Nat /\ s + Below(n) \in Nat /\ s + 1 <= s + Below(n)
      BY DEF Below
    <2> HIDE DEF m, s, k
    <2>5. /\ Gap(n, m, s, k, s + 1) \in Int
          /\ Gap(n, m, s, k, s + 1) <= Gap(n, m, s, k, s + Below(n))
      BY <2>2, <2>4, GapGrows
    <2>6. Gap(n, m, s, k, s + Below(n)) \in Int
      BY <2>2, <2>4, GapGrows
    <2>7. QED
      BY <2>1, <2>3, <2>5, <2>6 DEF PoolGap, m, s, k
  <1>3. CASE i # 0
    <2>1. i - 1 \in 0 .. ITERATIONS
      BY <1>3, PoolMathAssumption
    <2>2. f[i - 1] \in Nat \ {0}
      BY <2>1, RoundsPositive
    <2>3. f[i] = NextD(n, a, b, f[i - 1])
      BY <1>1, <1>3 DEF Round
    <2>4. QED
      BY <2>2, <2>3, NextDNotBelow
  <1>4. QED
    BY <1>2, <1>3

\* The quotient is the largest number of its kind.
LEMMA DivLargest ==
    ASSUME NEW x \in Nat, NEW d \in Nat \ {0}, NEW y \in Int, d * y <= x
    PROVE  y <= x \div d
  <1> DEFINE q == x \div d
  <1>1. q \in Nat /\ x < d * q + d
    BY DivBounds
  <1> HIDE DEF q
  <1>2. q + 1 <= y => d * (q + 1) <= d * y
    BY <1>1, TimesMonotone
  <1>3. d * (q + 1) = d * q + d /\ d * y \in Int /\ d * q \in Int
    BY <1>1
  <1>4. y <= q
    BY <1>1, <1>2, <1>3
  <1>5. QED
    BY <1>4 DEF q

\* Both numbers are amounts.
LEMMA DistanceTypes ==
    ASSUME NEW n \in Nat, 2 * AMP_PRECISION <= n, NEW a \in Nat, NEW b \in Nat, NEW x \in Nat
    PROVE  /\ Unit(n, b) \in Nat \ {0}
           /\ Lost(a, b, 2) \in Nat /\ Lost(a, b, (2 * Below(n) + 1) * (Below(n) + 2)) \in Nat
           /\ Remains(n, a, b, x) \in Nat /\ Turned(n, a, b) \in Nat
  <1> DEFINE m == AMP_PRECISION
             l == (n - m) \div m
             j == 2 * b + 1
  <1>1. m \in Nat \ {0} /\ n - m \in Nat /\ m <= n - m /\ j \in Nat \ {0}
    BY PoolMathAssumption
  <1> HIDE DEF m
  <1>2. l \in Nat /\ n - m < m * l + m
    BY <1>1, DivBounds
  <1> HIDE DEF l, j
  <1>3. l = 0 => m * l + m = m
    BY <1>1
  <1>4. l \in Nat \ {0}
    BY <1>1, <1>2, <1>3
  <1>5. Unit(n, b) \in Nat \ {0}
    <2>1. l * j > 0 /\ l * j \in Nat
      BY <1>1, <1>4
    <2>2. Unit(n, b) = l * j
      BY DEF Unit, l, j, m
    <2>3. QED
      BY <2>1, <2>2
  <1>6. ASSUME NEW y \in Nat PROVE Lost(a, b, y) \in Nat
    <2>1. y * j \in Nat /\ Lost(a, b, y) = y * j + a + b + 1
      BY <1>1 DEF Lost, j
    <2>2. QED
      BY <2>1
  <1>7. Lost(a, b, 2) \in Nat /\ Lost(a, b, (2 * Below(n) + 1) * (Below(n) + 2)) \in Nat
    <2>1. (2 * Below(n) + 1) * (Below(n) + 2) \in Nat
      BY DEF Below
    <2>2. QED
      BY <1>6, <2>1
  <1>8. Turned(n, a, b) \in Nat
    BY <1>5, <1>7, DivBounds DEF Turned
  <1>9. Remains(n, a, b, x) \in Nat
    <2>1. 2 * Unit(n, b) * x + 3 * Lost(a, b, 2) \in Nat /\ 3 * Unit(n, b) \in Nat \ {0}
      BY <1>5, <1>7
    <2>2. QED
      BY <2>1, DivBounds DEF Remains
  <1>10. QED
    BY <1>5, <1>7, <1>8, <1>9

\* A round of Above bounds a round of compute_d.
LEMMA DistanceKept ==
    ASSUME NEW n \in Nat, 2 * AMP_PRECISION <= n,
           NEW a \in Nat \ {0}, NEW b \in Nat \ {0}, NEW d \in Nat \ {0},
           NEW r \in Nat, r <= a + b + 1, PoolGap(n, a, b, r) >= 0,
           PoolGap(n, a, b, d + Below(n)) >= 0, NEW x \in Nat, d - r <= x
    PROVE  \/ NextD(n, a, b, d) - r <= Remains(n, a, b, x)
           \/ NextD(n, a, b, d) - r <= Turned(n, a, b)
  <1> DEFINE e == NextD(n, a, b, d)
             u == Unit(n, b)
             y == Lost(a, b, 2)
             z == Lost(a, b, (2 * Below(n) + 1) * (Below(n) + 2))
  <1>1. e \in Nat /\ u \in Nat \ {0} /\ y \in Nat /\ z \in Nat
    <2>1. a \in Nat /\ b \in Nat /\ a + b > 0
      OBVIOUS
    <2>2. QED
      BY <2>1, NextDPositive, DistanceTypes
  <1>2. /\ r <= d => 3 * u * (e - r) <= 2 * u * (d - r) + 3 * y
        /\ d < r => u * (e - r) <= z
    BY NextDNearRoot
  <1>3. Remains(n, a, b, x) = (2 * u * x + 3 * y) \div (3 * u) /\ Turned(n, a, b) = z \div u
    BY DEF Remains, Turned
  <1> HIDE DEF e, u, y, z
  <1>4. ASSUME r <= d PROVE e - r <= Remains(n, a, b, x)
    <2>1. 2 * u \in Nat /\ d - r \in Nat
      BY <1>1, <1>4
    <2>2. (2 * u) * (d - r) <= (2 * u) * x
      BY <2>1, TimesMonotone
    <2>3. 2 * u * (d - r) \in Int /\ 2 * u * x \in Nat /\ 3 * u * (e - r) \in Int
      BY <1>1, <2>1
    <2>4. (3 * u) * (e - r) <= 2 * u * x + 3 * y
      BY <1>1, <1>2, <1>4, <2>2, <2>3
    <2>5. 3 * u \in Nat \ {0} /\ 2 * u * x + 3 * y \in Nat /\ e - r \in Int
      BY <1>1, <2>3
    <2>6. QED
      BY <1>3, <2>4, <2>5, DivLargest
  <1>5. ASSUME d < r PROVE e - r <= Turned(n, a, b)
    <2>1. e - r \in Int
      BY <1>1
    <2>2. QED
      BY <1>1, <1>2, <1>3, <1>5, <2>1, DivLargest
  <1>6. QED
    BY <1>4, <1>5 DEF e

\* No round ends further above such a number than the round of Above says.
LEMMA RoundsNearRoot ==
    ASSUME NEW n \in Nat, 2 * AMP_PRECISION <= n, NEW a \in Nat \ {0}, NEW b \in Nat \ {0},
           NEW f, f = [i \in 0 .. ITERATIONS |-> Round(n, a, b, f, i)],
           NEW g, g = [i \in 0 .. ITERATIONS |-> Distance(n, a, b, g, i)],
           NEW r \in Nat, r <= a + b + 1, PoolGap(n, a, b, r) >= 0
    PROVE  g[ITERATIONS] \in Nat /\ f[ITERATIONS] - r <= g[ITERATIONS]
  <1> DEFINE Near(i) == g[i] \in Nat /\ f[i] - r <= g[i]
             T == {i \in Nat : i <= ITERATIONS /\ ~Near(i)}
  <1>1. a \in Nat /\ b \in Nat /\ a + b > 0 /\ ITERATIONS \in Nat
    BY PoolMathAssumption
  <1>2. ASSUME NEW i \in 0 .. ITERATIONS
        PROVE  /\ f[i] \in Nat \ {0}
               /\ PoolGap(n, a, b, f[i] + Below(n)) >= 0
               /\ f[i] = Round(n, a, b, f, i)
               /\ g[i] = Distance(n, a, b, g, i)
    <2>1. f[i] \in Nat \ {0}
      BY <1>1, RoundsPositive
    <2>2. PoolGap(n, a, b, f[i] + Below(n)) >= 0
      BY <1>1, RoundsNotBelow
    <2>3. f[i] = Round(n, a, b, f, i) /\ g[i] = Distance(n, a, b, g, i)
      OBVIOUS
    <2>4. QED
      BY <2>1, <2>2, <2>3
  <1>3. Near(0)
    <2>1. 0 \in 0 .. ITERATIONS
      BY <1>1
    <2>2. f[0] = a + b /\ g[0] = a + b
      BY <1>2, <2>1 DEF Round, Distance
    <2>3. QED
      BY <2>2
  <1>4. ASSUME NEW i \in 0 .. ITERATIONS, i # 0, Near(i - 1) PROVE Near(i)
    <2>1. i - 1 \in 0 .. ITERATIONS
      BY <1>1, <1>4
    <2>2. f[i] = NextD(n, a, b, f[i - 1]) /\ g[i] = Distance(n, a, b, g, i)
      BY <1>2, <1>4 DEF Round
    <2>3. f[i - 1] \in Nat \ {0} /\ PoolGap(n, a, b, f[i - 1] + Below(n)) >= 0
      BY <1>2, <2>1
    <2>4. g[i - 1] \in Nat /\ f[i - 1] - r <= g[i - 1]
      BY <1>4
    <2>5. \/ f[i] - r <= Remains(n, a, b, g[i - 1])
          \/ f[i] - r <= Turned(n, a, b)
      BY <2>2, <2>3, <2>4, DistanceKept
    <2>6. Remains(n, a, b, g[i - 1]) \in Nat /\ Turned(n, a, b) \in Nat
      BY <1>1, <2>4, DistanceTypes
    <2>7. f[i] \in Nat
      BY <1>2
    <2>8. g[i] = IF Remains(n, a, b, g[i - 1]) > Turned(n, a, b)
                 THEN Remains(n, a, b, g[i - 1]) ELSE Turned(n, a, b)
      BY <1>4, <2>2 DEF Distance
    <2>9. QED
      BY <2>5, <2>6, <2>7, <2>8
  <1> HIDE DEF Near
  <1>5. ASSUME T # {} PROVE FALSE
    <2>1. T \in SUBSET Nat
      OBVIOUS
    <2>2. PICK i \in T : \A k \in T : i <= k
      BY <1>5, <2>1, SmallestNumber
    <2>3. i \in 0 .. ITERATIONS /\ i # 0 /\ i - 1 \in Nat /\ i - 1 <= ITERATIONS /\ i - 1 < i
      BY <1>1, <1>3, <2>2
    <2>4. Near(i - 1)
      BY <2>2, <2>3
    <2>5. QED
      BY <1>4, <2>2, <2>3, <2>4
  <1>6. Near(ITERATIONS)
    BY <1>1, <1>5
  <1>7. QED
    BY <1>6 DEF Near

\* compute_d gives the invariant of every pool of both assets, but for Below
\* and Above.
LEMMA ComputeDIsInvariant ==
    ASSUME NEW n \in Nat, 2 * AMP_PRECISION <= n, NEW a \in Nat \ {0}, NEW b \in Nat \ {0}
    PROVE  IsInvariant(n, a, b, ComputeD(n, a, b))
  <1> DEFINE m == AMP_PRECISION
             s == a + b
             k == (2 * a + 1) * (2 * b + 1)
             d == ComputeD(n, a, b)
             above == Above(n, a, b)
             w == Below(n)
  <1>1. PICK f : /\ f = [i \in 0 .. ITERATIONS |-> Round(n, a, b, f, i)]
                 /\ d = f[ITERATIONS]
    BY ComputeDUnfolds
  <1>2. PICK g : /\ g = [i \in 0 .. ITERATIONS |-> Distance(n, a, b, g, i)]
                 /\ above = g[ITERATIONS]
    BY AboveUnfolds
  <1>3. /\ a \in Nat /\ b \in Nat /\ a + b > 0 /\ ITERATIONS \in 0 .. ITERATIONS
        /\ m \in Nat /\ m <= n /\ s \in Nat /\ k \in Nat /\ w \in Nat
    BY PoolMathAssumption DEF Below
  <1>4. \A x \in Nat : PoolGap(n, a, b, x) = Gap(n, m, s, k, x)
    BY DEF PoolGap
  <1>5. \A x \in Nat : NotBelow(n, a, b, x) <=> PoolGap(n, a, b, x) >= 0
    BY <1>3, NotBelowIsGap DEF PoolGap
  <1>6. d \in Nat \ {0} /\ PoolGap(n, a, b, d + w) >= 0
    BY <1>1, <1>3, RoundsPositive, RoundsNotBelow
  <1>7. ASSUME NEW r \in Nat, r <= s + 1, PoolGap(n, a, b, r) >= 0
        PROVE  above \in Nat /\ d - r <= above
    <2>1. r <= a + b + 1
      BY <1>7
    <2>2. f = [i \in 0 .. ITERATIONS |-> Round(n, a, b, f, i)]
          /\ g = [i \in 0 .. ITERATIONS |-> Distance(n, a, b, g, i)]
      BY <1>1, <1>2
    <2>3. g[ITERATIONS] \in Nat /\ f[ITERATIONS] - r <= g[ITERATIONS]
      BY <1>7, <2>1, <2>2, RoundsNearRoot
    <2>4. QED
      BY <1>1, <1>2, <2>3
  <1>8. PoolGap(n, a, b, s + 1) >= 0
    BY <1>3, GapOfSum DEF PoolGap
  <1>9. above \in Nat /\ d - (s + 1) <= above
    BY <1>3, <1>7, <1>8
  <1> HIDE DEF m, s, k, d, above, w
  <1>10. NotBelow(n, a, b, d + w)
    BY <1>3, <1>5, <1>6
  <1>11. ASSUME d > above + 1 PROVE ~NotBelow(n, a, b, d - above - 1)
    <2> DEFINE r == d - above - 1
    <2>1. r \in Nat
      BY <1>6, <1>9, <1>11
    <2>2. d - r = above + 1
      BY <1>6, <1>9
    <2> HIDE DEF r
    <2>3. ASSUME PoolGap(n, a, b, r) >= 0 PROVE FALSE
      <3>1. CASE r <= s + 1
        <4>1. d - r <= above
          BY <1>7, <2>1, <2>3, <3>1
        <4>2. QED
          BY <1>6, <1>9, <2>1, <2>2, <4>1
      <3>2. CASE r > s + 1
        BY <1>3, <1>6, <1>9, <2>1, <2>2, <3>2
      <3>3. QED
        BY <1>3, <2>1, <3>1, <3>2
    <2>4. ~NotBelow(n, a, b, r)
      BY <1>5, <2>1, <2>3
    <2>5. QED
      BY <2>4 DEF r
  <1>12. QED
    BY <1>10, <1>11 DEF IsInvariant, d, above, w

-----------------------------------------------------------------------------
(* The LP that is minted *)

\* A pool that has LP has both assets.
Backed(p) == p \in [a: Nat, b: Nat, total: Nat] /\ (p.total > 0 => p.a > 0 /\ p.b > 0)

\* A constant product pair mints an amount.
LEMMA ProvideShareType ==
    ASSUME NEW p, Backed(p), NEW x \in Nat, NEW y \in Nat
    PROVE  ProvideShare(x, y, p) \in Nat
  <1>1. p.a \in Nat /\ p.b \in Nat /\ p.total \in Nat
    BY DEF Backed
  <1>2. CASE p.total = 0
    <2>1. x * y \in Nat
      OBVIOUS
    <2>2. QED
      BY <1>2, <2>1, IsqrtIsRoot DEF ProvideShare
  <1>3. CASE p.total # 0
    <2>1. p.a \in Nat \ {0} /\ p.b \in Nat \ {0}
      BY <1>1, <1>3 DEF Backed
    <2>2. MulRatio(x, p.total, p.a) \in Nat /\ MulRatio(y, p.total, p.b) \in Nat
      BY <1>1, <2>1, MulRatioBounds
    <2>3. QED
      BY <1>3, <2>2 DEF ProvideShare, AtMost
  <1>4. QED
    BY <1>2, <1>3

\* So does a stable pair that has LP.
LEMMA StableShareType ==
    ASSUME NEW p, Backed(p), p.total > 0, NEW x \in Nat, NEW y \in Nat,
           NEW leverage \in Nat, 2 * AMP_PRECISION <= leverage
    PROVE  StableShare(x, y, p, leverage) \in Nat
  <1> DEFINE before == ComputeD(leverage, p.a, p.b)
             after  == ComputeD(leverage, p.a + x, p.b + y)
  <1>1. p.a \in Nat /\ p.b \in Nat /\ p.a + p.b > 0 /\ p.total \in Nat
    BY DEF Backed
  <1>2. before \in Nat \ {0}
    BY <1>1, ComputeDPositive
  <1>3. after \in Nat
    <2>1. p.a + x \in Nat /\ p.b + y \in Nat /\ (p.a + x) + (p.b + y) > 0
      BY <1>1
    <2>2. QED
      BY <2>1, ComputeDPositive
  <1>4. StableShare(x, y, p, leverage)
          = IF before >= after THEN 0 ELSE MulRatio(p.total, after - before, before)
    BY DEF StableShare
  <1> HIDE DEF before, after
  <1>5. CASE before >= after
    BY <1>4, <1>5
  <1>6. CASE ~(before >= after)
    <2>1. after - before \in Nat
      BY <1>2, <1>3, <1>6
    <2>2. MulRatio(p.total, after - before, before) \in Nat
      BY <1>1, <1>2, <2>1, MulRatioBounds
    <2>3. QED
      BY <1>4, <1>6, <2>2
  <1>7. QED
    BY <1>5, <1>6

-----------------------------------------------------------------------------
(* The sale that is best *)

\* The areas of get_swap_amount and what its second root is taken of.
Discriminant(u, v, p, d) == p * p * u + 4 * (d - p) * d * v

\* Its quadratic equation, of a reserve z: d is the denominator of the
\* commission p, y all there is of the second asset, u the area of the first,
\* and a its reserve before the sale.
SaleLine(d, p, y, u, z) == 2 * d * y * z - p * u

SaleExcess(d, p, y, u, a, z) == d * y * z * z - u * (p * z + (d - p) * a)

\* The equation in the form whose root is taken.
LEMMA SaleEquation ==
    ASSUME NEW d \in Int, NEW p \in Int, NEW y \in Int, NEW u \in Int, NEW a \in Int, NEW z \in Int
    PROVE  SaleLine(d, p, y, u, z) * SaleLine(d, p, y, u, z) - u * Discriminant(u, y * a, p, d)
             = (4 * d * y) * SaleExcess(d, p, y, u, a, z)
  <1> DEFINE t == SaleLine(d, p, y, u, z)
             k == d * y * z
  <1>1. k \in Int /\ p * u \in Int /\ t = 2 * k - p * u
    BY DEF SaleLine
  <1>2. t * t = 4 * k * k - 4 * k * (p * u) + (p * u) * (p * u)
    BY <1>1
  <1>3. u * Discriminant(u, y * a, p, d) = (p * u) * (p * u) + 4 * (d - p) * d * y * a * u
    BY DEF Discriminant
  <1>4. (4 * d * y) * (d * y * z * z) = 4 * k * k
    OBVIOUS
  <1>5. (4 * d * y) * (u * (p * z)) = 4 * k * (p * u)
    OBVIOUS
  <1>6. (4 * d * y) * (u * ((d - p) * a)) = 4 * (d - p) * d * y * a * u
    OBVIOUS
  <1>7. (4 * d * y) * SaleExcess(d, p, y, u, a, z)
          = (4 * d * y) * (d * y * z * z) - (4 * d * y) * (u * (p * z))
            - (4 * d * y) * (u * ((d - p) * a))
    BY DEF SaleExcess
  <1>8. QED
    BY <1>1, <1>2, <1>3, <1>4, <1>5, <1>6, <1>7

\* The sign of the equation is that of the square.
LEMMA SaleSign ==
    ASSUME NEW d \in Nat \ {0}, NEW p \in Nat, p <= d, NEW y \in Nat \ {0}, NEW u \in Nat,
           NEW a \in Nat, NEW z \in Nat
    PROVE  LET t == SaleLine(d, p, y, u, z)
               e == SaleExcess(d, p, y, u, a, z)
               r == u * Discriminant(u, y * a, p, d)
           IN  /\ t \in Int /\ e \in Int /\ r \in Int
               /\ t * t <= r => e <= 0
               /\ t * t >= r => e >= 0
  <1> DEFINE t == SaleLine(d, p, y, u, z)
             e == SaleExcess(d, p, y, u, a, z)
             r == u * Discriminant(u, y * a, p, d)
             m == 4 * d * y
  <1>1. t \in Int /\ e \in Int /\ r \in Int
    BY DEF SaleLine, SaleExcess, Discriminant
  <1>2. m \in Nat \ {0}
    <2>1. d * y \in Nat /\ d * y > 0
      OBVIOUS
    <2>2. QED
      BY <2>1
  <1>3. t * t - r = m * e
    BY SaleEquation
  <1> HIDE DEF t, e, r, m
  <1>4. t * t \in Int
    BY <1>1
  <1>5. ASSUME t * t <= r PROVE e <= 0
    <2>1. e * m <= 0 * m
      BY <1>1, <1>2, <1>3, <1>4, <1>5
    <2>2. QED
      BY <1>1, <1>2, <2>1, TimesCancel
  <1>6. ASSUME t * t >= r PROVE e >= 0
    <2>1. 0 * m <= e * m
      BY <1>1, <1>2, <1>3, <1>4, <1>6
    <2>2. QED
      BY <1>1, <1>2, <2>1, TimesCancel
  <1>7. QED
    BY <1>1, <1>5, <1>6 DEF t, e, r

\* A sale up to the root: r is what the two truncated roots come to.
LEMMA BelowSaleRoot ==
    ASSUME NEW d \in Nat \ {0}, NEW p \in Nat, p <= d, NEW y \in Nat \ {0}, NEW u \in Nat,
           NEW a \in Nat, NEW z \in Nat, NEW r \in Nat,
           r * r <= u * Discriminant(u, y * a, p, d),
           2 * d * y * z - p * u <= r
    PROVE  d * y * z * z <= u * (p * z + (d - p) * a)
  <1> DEFINE t == SaleLine(d, p, y, u, z)
             e == SaleExcess(d, p, y, u, a, z)
             q == u * Discriminant(u, y * a, p, d)
             left == d * y * z * z
             right == u * (p * z + (d - p) * a)
  <1>1. t \in Int /\ q \in Int /\ t <= r
    BY SaleSign DEF SaleLine
  <1>2. left \in Nat /\ right \in Nat /\ e = left - right
    <2>1. d - p \in Nat
      OBVIOUS
    <2>2. p * z + (d - p) * a \in Nat
      BY <2>1
    <2>3. QED
      BY <2>2 DEF SaleExcess
  <1>3. CASE t >= 0
    <2>1. t \in Nat /\ t * t <= r * r
      BY <1>1, <1>3, SquaresOrdered
    <2>2. t * t \in Nat /\ r * r \in Nat
      BY <2>1
    <2>3. t * t <= q
      BY <1>1, <2>1, <2>2
    <2>4. e <= 0
      BY <2>3, SaleSign
    <2>5. QED
      BY <1>2, <2>4
  <1>4. CASE t < 0
    <2> DEFINE k == d * y * z
    <2>1. k \in Nat /\ k <= p * u /\ p * u \in Nat
      BY <1>4 DEF SaleLine
    <2>2. k * z <= (p * u) * z
      BY <2>1, TimesMonotone
    <2>3. k * z = left /\ (p * u) * z = u * (p * z)
      OBVIOUS
    <2>4. d - p \in Nat /\ p * z \in Nat
      OBVIOUS
    <2>5. (d - p) * a \in Nat
      BY <2>4
    <2>6. u * (p * z) <= right /\ u * (p * z) \in Nat
      <3>1. p * z <= p * z + (d - p) * a
        BY <2>4, <2>5
      <3>2. QED
        BY <2>4, <2>5, <3>1, TimesMonotone
    <2>7. QED
      BY <1>2, <2>2, <2>3, <2>6
  <1>5. QED
    BY <1>1, <1>3, <1>4

\* A sale from the root on: r is what they come to with 1 more each.
LEMMA AboveSaleRoot ==
    ASSUME NEW d \in Nat \ {0}, NEW p \in Nat, p <= d, NEW y \in Nat \ {0}, NEW u \in Nat,
           NEW a \in Nat, NEW z \in Nat, NEW r \in Nat,
           u * Discriminant(u, y * a, p, d) <= r * r,
           2 * d * y * z - p * u >= r
    PROVE  u * (p * z + (d - p) * a) <= d * y * z * z
  <1> DEFINE t == SaleLine(d, p, y, u, z)
             e == SaleExcess(d, p, y, u, a, z)
             q == u * Discriminant(u, y * a, p, d)
  <1>1. t \in Int /\ q \in Int /\ t >= r
    BY SaleSign DEF SaleLine
  <1>2. t \in Nat /\ r * r <= t * t
    <2>1. t \in Nat
      BY <1>1
    <2>2. QED
      BY <1>1, <2>1, SquaresOrdered
  <1>3. t * t \in Nat /\ r * r \in Nat
    BY <1>2
  <1>4. t * t >= q
    BY <1>1, <1>2, <1>3
  <1>5. e >= 0
    BY <1>4, SaleSign
  <1>6. d * y * z * z \in Int /\ u * (p * z + (d - p) * a) \in Int
    OBVIOUS
  <1>7. QED
    BY <1>5, <1>6 DEF SaleExcess

\* What selling s for n leaves of both assets against what the pair then has:
\* nothing, in the proportion of the pair.
Balance(x, y, a, b, s, n) == (x - s) * (b - n) - (y + n) * (a + s)

\* A sale is balanced where it solves the equation and returns what it should.
LEMMA BalanceEquation ==
    ASSUME NEW x \in Int, NEW y \in Int, NEW a \in Int, NEW b \in Int, NEW s \in Int,
           NEW n \in Int, NEW d \in Int, NEW p \in Int
    PROVE  Balance(x, y, a, b, s, n) * ((a + s) * d)
             = (x + a) * ((d - p) * b * s - d * n * (a + s))
               - SaleExcess(d, p, y + b, (x + a) * b, a, a + s)
  <1> DEFINE z == a + s
             w == x + a
  <1>1. z \in Int /\ w \in Int /\ s = z - a /\ x = w - a
    OBVIOUS
  <1> HIDE DEF z, w
  <1>2. Balance(x, y, a, b, s, n) = w * b - z * (y + b) - n * w
    <2>1. Balance(x, y, a, b, s, n) = (w - z) * (b - n) - (y + n) * z
      BY <1>1 DEF Balance, z, w
    <2>2. QED
      BY <1>1, <2>1
  <1>3. SaleExcess(d, p, y + b, w * b, a, z)
          = d * (y + b) * z * z - w * b * p * z - w * b * (d - p) * a
    BY <1>1 DEF SaleExcess
  <1>4. w * ((d - p) * b * s - d * n * z)
          = w * b * (d - p) * z - w * b * (d - p) * a - d * n * z * w
    BY <1>1
  <1>5. (w * b - z * (y + b) - n * w) * (z * d)
          = w * b * z * d - d * (y + b) * z * z - d * n * z * w
    BY <1>1
  <1>6. w * b * (d - p) * z + w * b * p * z = w * b * z * d
    BY <1>1
  <1>7. Balance(x, y, a, b, s, n) * (z * d)
          = w * ((d - p) * b * s - d * n * z) - SaleExcess(d, p, y + b, w * b, a, z)
    BY <1>1, <1>2, <1>3, <1>4, <1>5, <1>6
  <1>8. QED
    BY <1>7 DEF z, w

\* What a sale returns, to one unit more or less, in terms of the share of
\* the other asset that the commission leaves.
Estimate(a, b, s, p, d, r) ==
    /\ r \in Nat /\ r < b
    /\ d * (r - 1) * (a + s) < (d - p) * b * s
    /\ (d - p) * b * s <= d * (r + 1) * (a + s)

\* The two divisions of simulate round down what it returns.
LEMMA SimulateEstimate ==
    ASSUME NEW a \in Nat \ {0}, NEW b \in Nat \ {0}, NEW s \in Nat,
           NEW p \in 0 .. COMMISSION_DENOM - 1
    PROVE  Estimate(a, b, s, p, COMMISSION_DENOM, Simulate(a, b, s, p))
  <1> DEFINE d == COMMISSION_DENOM
             z == a + s
             left == MulRatioCeil(a, b, a + s)
             out == b - left
             fee == MulRatio(out, p, d)
             k == d - p
             r == out - fee
  <1>1. d \in Nat \ {0} /\ p \in Nat /\ p < d /\ p <= d
        /\ k \in Nat \ {0} /\ p = d - k
    BY PoolMathAssumption
  <1>2. Simulate(a, b, s, p) = r
    BY DEF Simulate
  <1>3. z \in Nat \ {0} /\ z = a + s
    OBVIOUS
  <1>4. left \in Nat /\ left <= b /\ a * b <= z * left /\ z * left < a * b + z
    <2>1. left = MulRatioCeil(b, a, a + s)
      BY DEF MulRatioCeil
    <2>2. a <= a + s
      OBVIOUS
    <2>3. left <= b
      BY <1>3, <2>1, <2>2, RatioAtMostOne
    <2>4. left \in Nat /\ a * b <= z * left /\ z * left < a * b + z
      BY <1>3, MulRatioCeilBounds
    <2>5. QED
      BY <2>3, <2>4
  <1>5. left > 0
    <2>1. a * b > 0
      OBVIOUS
    <2> HIDE DEF left, z
    <2>2. left = 0 => z * left = 0
      BY <1>3
    <2>3. QED
      BY <1>4, <2>1, <2>2
  <1> HIDE DEF left, d, k
  <1>6. out \in Nat /\ out < b /\ b * s - z < out * z /\ out * z <= b * s
    <2>1. out * z = b * z - z * left /\ b * z = a * b + b * s
      BY <1>4
    <2>2. a * b \in Nat /\ b * s \in Nat /\ z * left \in Nat
      BY <1>3, <1>4
    <2> HIDE DEF z
    <2>3. b * z \in Nat /\ out * z \in Int
      BY <1>3, <1>4
    <2>4. QED
      BY <1>3, <1>4, <1>5, <2>1, <2>2, <2>3
  <1> HIDE DEF out, z
  <1>7. fee \in Nat /\ fee <= out /\ d * fee <= out * p /\ out * p < d * fee + d
    <2>1. fee \in Nat /\ d * fee <= out * p /\ out * p < d * fee + d
      BY <1>1, <1>6, MulRatioBounds
    <2>2. fee <= out
      BY <1>1, <1>6, RatioAtMostOne
    <2>3. QED
      BY <2>1, <2>2
  <1> HIDE DEF fee
  <1>8. r \in Nat /\ r < b /\ k * out <= d * r /\ d * (r - 1) < k * out
    <2>1. k * out = d * out - out * p /\ d * r = d * out - d * fee /\ d * (r - 1) = d * r - d
      BY <1>1, <1>6, <1>7
    <2>2. d * out \in Nat /\ out * p \in Nat /\ d * fee \in Nat
      BY <1>1, <1>6, <1>7
    <2>3. r \in Nat /\ r < b
      BY <1>6, <1>7
    <2>4. QED
      BY <1>1, <1>7, <2>1, <2>2, <2>3
  <1> HIDE DEF r
  <1>9. k * b * s \in Nat /\ k * out \in Nat /\ d * r \in Nat /\ d * (r - 1) \in Int
        /\ b * s \in Nat /\ out * z \in Nat
    BY <1>1, <1>3, <1>6, <1>8
  <1>10. d * (r - 1) * z < k * b * s
    <2>1. (d * (r - 1) + 1) * z <= (k * out) * z
      <3> DEFINE m == d * (r - 1) + 1
                 n == k * out
      <3>1. m \in Int /\ n \in Nat /\ m <= n
        BY <1>8, <1>9
      <3> HIDE DEF m, n
      <3>2. m * z <= n * z
        BY <1>3, <3>1
      <3>3. QED
        BY <3>2 DEF m, n
    <2>2. (k * out) * z = k * (out * z)
      BY <1>1, <1>3, <1>6
    <2>3. k * (out * z) <= k * (b * s)
      BY <1>1, <1>6, <1>9, TimesMonotone
    <2>4. k * (b * s) = k * b * s
      BY <1>1
    <2>5. (d * (r - 1) + 1) * z = d * (r - 1) * z + z
      BY <1>1, <1>3, <1>8
    <2>6. k * (out * z) \in Nat /\ d * (r - 1) * z \in Int
      BY <1>1, <1>3, <1>9
    <2>7. QED
      BY <1>3, <1>9, <2>1, <2>2, <2>3, <2>4, <2>5, <2>6
  <1>11. k * b * s <= d * (r + 1) * z
    <2>1. k * (b * s) <= k * (out * z + z)
      <3>1. b * s <= out * z + z
        BY <1>3, <1>6, <1>9
      <3>2. out * z + z \in Nat
        BY <1>3, <1>9
      <3>3. QED
        BY <1>1, <1>9, <3>1, <3>2, TimesMonotone
    <2>2. k * (out * z + z) = (k * out + k) * z
      BY <1>1, <1>3, <1>6
    <2>3. (k * out + k) * z <= (d * r + d) * z
      <3>1. k * out + k <= d * r + d
        BY <1>1, <1>8, <1>9
      <3>2. k * out + k \in Nat /\ d * r + d \in Nat
        BY <1>1, <1>9
      <3>3. QED
        BY <1>3, <3>1, <3>2, TimesMonotone
    <2>4. (d * r + d) * z = d * (r + 1) * z /\ k * (b * s) = k * b * s
      BY <1>1, <1>3, <1>8
    <2>5. k * (out * z + z) \in Nat /\ (d * r + d) * z \in Nat
      BY <1>1, <1>3, <1>6, <1>8
    <2>6. QED
      BY <1>9, <2>1, <2>2, <2>3, <2>4, <2>5
  <1>12. Estimate(a, b, s, p, d, r)
    <2>1. d * (r - 1) * (a + s) < (d - p) * b * s
      BY <1>10 DEF k, z
    <2>2. (d - p) * b * s <= d * (r + 1) * (a + s)
      BY <1>11 DEF k, z
    <2>3. QED
      BY ONLY <1>8, <2>1, <2>2 DEF Estimate
  <1>13. QED
    BY <1>2, <1>12 DEF d

\* The sale get_swap_amount gives is not above the exact one, and with Reach
\* more it is not below.
LEMMA SwapAmountNearRoot ==
    ASSUME NEW x \in Nat, NEW y \in Nat, NEW a \in Nat \ {0}, NEW b \in Nat \ {0},
           NEW p \in 0 .. COMMISSION_DENOM - 1
    PROVE  /\ GetSwapAmount(x, y, a, b, p) \in Nat
           /\ Reach(x, y, a, b, p) \in Nat \ {0}
           /\ GetSwapAmount(x, y, a, b, p) > 0 =>
                 SaleExcess(COMMISSION_DENOM, p, y + b, (x + a) * b, a,
                            a + GetSwapAmount(x, y, a, b, p)) <= 0
           /\ SaleExcess(COMMISSION_DENOM, p, y + b, (x + a) * b, a,
                         a + (GetSwapAmount(x, y, a, b, p) + Reach(x, y, a, b, p))) >= 0
  <1> DEFINE d == COMMISSION_DENOM
             Y == y + b
             U == (x + a) * b
             disc == p * p * U + 4 * (d - p) * d * (Y * a)
             ru == Isqrt(U)
             ri == Isqrt(disc)
             sum == p * U + ru * ri
             half == sum \div (2 * d)
             root == half \div Y
             g == IF root > a THEN root - a ELSE 0
             reach == 2 + (ru + ri) \div (2 * d * Y)
  <1>1. GetSwapAmount(x, y, a, b, p) = g /\ Reach(x, y, a, b, p) = reach
    BY DEF GetSwapAmount, Reach
  <1>2. disc = Discriminant(U, Y * a, p, d)
    BY DEF Discriminant
  <1>3. d \in Nat \ {0} /\ p \in Nat /\ p <= d /\ d - p \in Nat
    BY PoolMathAssumption
  <1> HIDE DEF d
  <1>4. Y \in Nat \ {0} /\ U \in Nat
    OBVIOUS
  <1> HIDE DEF Y, U
  <1>5. disc \in Nat
    <2>1. Y * a \in Nat /\ 4 * (d - p) * d \in Nat /\ p * p \in Nat
      BY <1>3, <1>4
    <2>2. (p * p) * U \in Nat /\ (4 * (d - p) * d) * (Y * a) \in Nat
      BY <1>4, <2>1
    <2>3. QED
      BY <2>2
  <1> HIDE DEF disc
  <1>6. /\ ru \in Nat /\ ru * ru <= U /\ U <= (ru + 1) * (ru + 1)
        /\ ri \in Nat /\ ri * ri <= disc /\ disc <= (ri + 1) * (ri + 1)
    <2>1. ru \in Nat /\ ru * ru <= U /\ U < (ru + 1) * (ru + 1)
      BY <1>4, IsqrtIsRoot
    <2>2. ri \in Nat /\ ri * ri <= disc /\ disc < (ri + 1) * (ri + 1)
      BY <1>5, IsqrtIsRoot
    <2>3. QED
      BY <1>4, <1>5, <2>1, <2>2
  <1> HIDE DEF ru, ri
  <1>7. (ru * ri) * (ru * ri) <= U * disc
    <2>1. ru * ru \in Nat /\ ri * ri \in Nat
      BY <1>6
    <2>2. (ru * ru) * (ri * ri) <= U * (ri * ri)
      BY <1>4, <1>6, <2>1, TimesMonotone
    <2>3. U * (ri * ri) <= U * disc
      BY <1>4, <1>5, <1>6, <2>1, TimesMonotone
    <2>4. (ru * ri) * (ru * ri) = (ru * ru) * (ri * ri)
      BY <1>6
    <2>5. (ru * ru) * (ri * ri) \in Nat /\ U * (ri * ri) \in Nat /\ U * disc \in Nat
      BY <1>4, <1>5, <2>1
    <2>6. QED
      BY <2>2, <2>3, <2>4, <2>5
  <1>8. U * disc <= ((ru + 1) * (ri + 1)) * ((ru + 1) * (ri + 1))
    <2> DEFINE s == (ru + 1) * (ru + 1)
               t == (ri + 1) * (ri + 1)
    <2>1. s \in Nat /\ t \in Nat
      BY <1>6
    <2>2. s * t = ((ru + 1) * (ri + 1)) * ((ru + 1) * (ri + 1))
      BY <1>6
    <2>3. U <= s /\ disc <= t
      BY <1>6
    <2> HIDE DEF s, t
    <2>4. U * disc <= s * disc
      BY <1>4, <1>5, <2>1, <2>3, TimesMonotone
    <2>5. s * disc <= s * t
      BY <1>5, <2>1, <2>3, TimesMonotone
    <2>6. U * disc \in Nat /\ s * disc \in Nat /\ s * t \in Nat
      BY <1>4, <1>5, <2>1
    <2>7. QED
      BY <2>2, <2>4, <2>5, <2>6
  <1>9. sum \in Nat /\ p * U \in Nat /\ ru * ri \in Nat /\ sum = p * U + ru * ri
    <2>1. p * U \in Nat /\ ru * ri \in Nat
      BY <1>3, <1>4, <1>6
    <2>2. QED
      BY <2>1
  <1> HIDE DEF sum
  <1>10. root \in Nat /\ 2 * d * Y * root <= sum /\ sum < 2 * d * Y * (root + 1)
    <2>1. 2 * d \in Nat \ {0}
      BY <1>3
    <2>2. half \in Nat /\ (2 * d) * half <= sum /\ sum < (2 * d) * half + 2 * d
      BY <1>9, <2>1, DivBounds
    <2> HIDE DEF half
    <2>3. root \in Nat /\ Y * root <= half /\ half < Y * root + Y
      BY <1>4, <2>2, DivBounds
    <2> HIDE DEF root
    <2>4. Y * root \in Nat /\ half + 1 <= Y * root + Y
      BY <1>4, <2>2, <2>3
    <2>5. (2 * d) * (Y * root) <= (2 * d) * half
      BY <2>1, <2>2, <2>3, <2>4, TimesMonotone
    <2>6. (2 * d) * (half + 1) <= (2 * d) * (Y * root + Y)
      BY <1>4, <2>1, <2>2, <2>4, TimesMonotone
    <2>7. (2 * d) * (half + 1) = (2 * d) * half + 2 * d
      BY <1>3, <2>2
    <2>8. (2 * d) * (Y * root) = 2 * d * Y * root
          /\ (2 * d) * (Y * root + Y) = 2 * d * Y * (root + 1)
      BY <1>3, <1>4, <2>3
    <2>9. 2 * d * Y * root \in Nat /\ 2 * d * Y * (root + 1) \in Nat /\ (2 * d) * half \in Nat
      BY <1>3, <1>4, <2>2, <2>3
    <2>10. QED
      BY <1>3, <1>9, <2>2, <2>3, <2>5, <2>6, <2>7, <2>8, <2>9
  <1> HIDE DEF root
  <1>11. reach \in Nat \ {0} /\ ru + ri < 2 * d * Y * (reach - 1)
    <2> DEFINE m == 2 * d * Y
               q == (ru + ri) \div m
    <2>1. m \in Nat \ {0}
      <3>1. d * Y > 0 /\ d * Y \in Nat
        BY <1>3, <1>4
      <3>2. QED
        BY <3>1, <1>3, <1>4
    <2>2. ru + ri \in Nat
      BY <1>6
    <2> HIDE DEF m
    <2>3. q \in Nat /\ ru + ri < m * q + m
      BY <2>1, <2>2, DivBounds
    <2>4. reach = 2 + q
      BY DEF m
    <2> HIDE DEF q, reach
    <2>5. reach \in Nat \ {0} /\ reach - 1 = q + 1
      BY <2>3, <2>4
    <2>6. m * (q + 1) = m * q + m
      BY <2>1, <2>3
    <2>7. ru + ri < m * (reach - 1)
      BY <2>3, <2>5, <2>6
    <2>8. QED
      BY <2>5, <2>7 DEF m
  <1> HIDE DEF reach
  <1>12. g \in Nat /\ root <= a + g /\ (g > 0 => root = a + g)
    BY <1>10
  <1> HIDE DEF g
  <1>13. ASSUME g > 0 PROVE SaleExcess(d, p, Y, U, a, a + g) <= 0
    <2>1. 2 * d * Y * (a + g) - p * U <= ru * ri
      <3>1. 2 * d * Y * (a + g) <= sum
        BY <1>10, <1>12, <1>13
      <3>2. 2 * d * Y * (a + g) \in Nat
        BY <1>3, <1>4, <1>12
      <3>3. QED
        BY <1>9, <3>1, <3>2
    <2>2. a + g \in Nat
      BY <1>12
    <2>3. d * Y * (a + g) * (a + g) <= U * (p * (a + g) + (d - p) * a)
      BY <1>2, <1>3, <1>4, <1>7, <1>9, <2>1, <2>2, BelowSaleRoot
    <2>4. d * Y * (a + g) * (a + g) \in Nat /\ U * (p * (a + g) + (d - p) * a) \in Int
      BY <1>3, <1>4, <2>2
    <2>5. QED
      BY <2>3, <2>4 DEF SaleExcess
  <1>14. SaleExcess(d, p, Y, U, a, a + (g + reach)) >= 0
    <2> DEFINE z == a + (g + reach)
               r == (ru + 1) * (ri + 1)
               m == 2 * d * Y
    <2>1. z \in Nat /\ r \in Nat /\ m \in Nat
      BY <1>3, <1>4, <1>6, <1>11, <1>12
    <2>2. r = ru * ri + (ru + ri) + 1
      BY <1>6
    <2>3. m * z >= m * (root + 1) + m * (reach - 1)
      <3>1. (root + 1) + (reach - 1) \in Nat /\ (root + 1) + (reach - 1) <= z
        BY <1>10, <1>11, <1>12
      <3>2. m * ((root + 1) + (reach - 1)) <= m * z
        BY <2>1, <3>1, TimesMonotone
      <3>3. m * ((root + 1) + (reach - 1)) = m * (root + 1) + m * (reach - 1)
        BY <1>10, <1>11, <2>1
      <3>4. QED
        BY <3>2, <3>3
    <2>4. sum < m * (root + 1) /\ ru + ri < m * (reach - 1)
      BY <1>10, <1>11
    <2>5. m * z \in Nat /\ m * (root + 1) \in Nat /\ m * (reach - 1) \in Nat
      <3>1. root + 1 \in Nat /\ reach - 1 \in Nat
        BY <1>10, <1>11
      <3>2. QED
        BY <2>1, <3>1
    <2> HIDE DEF m, z, r
    <2>6. m * z - p * U >= r
      BY <1>6, <1>9, <2>1, <2>2, <2>3, <2>4, <2>5
    <2>7. 2 * d * Y * z - p * U >= r
      BY <2>6 DEF m
    <2>8. U * Discriminant(U, Y * a, p, d) <= r * r
      BY <1>2, <1>8 DEF r
    <2>9. U * (p * z + (d - p) * a) <= d * Y * z * z
      BY <1>3, <1>4, <2>1, <2>7, <2>8, AboveSaleRoot
    <2>10. d * Y * z * z \in Nat /\ U * (p * z + (d - p) * a) \in Int
      BY <1>3, <1>4, <2>1
    <2>11. SaleExcess(d, p, Y, U, a, z) >= 0
      BY <2>9, <2>10 DEF SaleExcess
    <2>12. QED
      BY <2>11 DEF z
  <1>15. QED
    BY <1>1, <1>11, <1>12, <1>13, <1>14 DEF d, Y, U

\* What is left of the first asset is enough below the exact sale, and too
\* little above.
LEMMA SaleBalances ==
    ASSUME NEW x \in Nat, NEW y \in Nat, NEW a \in Nat \ {0}, NEW b \in Nat \ {0},
           NEW s \in Nat, NEW d \in Nat \ {0}, NEW p \in Nat, p <= d,
           NEW r, Estimate(a, b, s, p, d, r)
    PROVE  /\ SaleExcess(d, p, y + b, (x + a) * b, a, a + s) <= 0
                 => Balance(x, y, a, b, s, r - 1) >= 0
           /\ SaleExcess(d, p, y + b, (x + a) * b, a, a + s) >= 0
                 => Balance(x, y, a, b, s, r + 1) <= 0
  <1> DEFINE m == (a + s) * d
             e == SaleExcess(d, p, y + b, (x + a) * b, a, a + s)
             w == x + a
             share == (d - p) * b * s
             low == d * (r - 1) * (a + s)
             high == d * (r + 1) * (a + s)
             under == Balance(x, y, a, b, s, r - 1)
             over == Balance(x, y, a, b, s, r + 1)
  <1>1. r \in Nat /\ low < share /\ share <= high
    BY DEF Estimate
  <1>2. r - 1 \in Int /\ r + 1 \in Int
    BY <1>1
  <1>3. under * m = w * (share - low) - e /\ over * m = w * (share - high) - e
    <2>0. ASSUME NEW n \in Int
          PROVE  Balance(x, y, a, b, s, n) * ((a + s) * d)
                   = (x + a) * ((d - p) * b * s - d * n * (a + s))
                     - SaleExcess(d, p, y + b, (x + a) * b, a, a + s)
      BY BalanceEquation
    <2>1. under * ((a + s) * d)
            = (x + a) * ((d - p) * b * s - d * (r - 1) * (a + s))
              - SaleExcess(d, p, y + b, (x + a) * b, a, a + s)
      BY <1>2, <2>0, Zenon
    <2>2. over * ((a + s) * d)
            = (x + a) * ((d - p) * b * s - d * (r + 1) * (a + s))
              - SaleExcess(d, p, y + b, (x + a) * b, a, a + s)
      BY <1>2, <2>0, Zenon
    <2>3. QED
      BY <2>1, <2>2
  <1>4. m \in Nat \ {0} /\ w \in Nat /\ under \in Int /\ over \in Int /\ e \in Int
        /\ share \in Int /\ low \in Int /\ high \in Int
    <2>1. (a + s) * d > 0 /\ (a + s) * d \in Nat
      OBVIOUS
    <2>2. under \in Int /\ over \in Int
      BY <1>2 DEF Balance
    <2>3. e \in Int
      <3>1. \A u, z \in Int : SaleExcess(d, p, y + b, u, a, z) \in Int
        BY DEF SaleExcess
      <3>2. (x + a) * b \in Int /\ a + s \in Int
        OBVIOUS
      <3>3. QED
        BY <3>1, <3>2
    <2>4. share \in Int /\ low \in Int /\ high \in Int
      BY <1>2
    <2>5. QED
      BY <2>1, <2>2, <2>3, <2>4
  <1> HIDE DEF m, e, w, share, low, high, under, over
  <1>5. ASSUME e <= 0 PROVE under >= 0
    <2>1. share - low \in Nat
      BY <1>1, <1>4
    <2>2. w * (share - low) \in Nat
      BY <1>4, <2>1
    <2>3. 0 * m <= under * m
      BY <1>3, <1>4, <1>5, <2>2
    <2>4. QED
      BY <1>4, <2>3, TimesCancel
  <1>6. ASSUME e >= 0 PROVE over <= 0
    <2>1. high - share \in Nat
      BY <1>1, <1>4
    <2>2. w * (high - share) \in Nat /\ w * (share - high) = - (w * (high - share))
      BY <1>4, <2>1
    <2>3. over * m <= 0 * m
      BY <1>3, <1>4, <1>6, <2>2
    <2>4. QED
      BY <1>4, <2>3, TimesCancel
  <1>7. QED
    BY <1>5, <1>6 DEF e, under, over

\* What a sale leads to, as the lesser of two ratios.
LEMMA ShareAfterSaleBounds ==
    ASSUME NEW x \in Nat, NEW y \in Nat, NEW a \in Nat \ {0}, NEW b \in Nat \ {0},
           NEW s \in 0 .. x, NEW r \in Nat, r < b, NEW t \in Nat \ {0},
           NEW lp, lp = AtMost(MulRatio(x - s, t, a + s), MulRatio(y + r, t, b - r))
    PROVE  /\ lp \in Nat
           /\ (a + s) * lp <= (x - s) * t
           /\ (b - r) * lp <= (y + r) * t
           /\ \/ (x - s) * t < (a + s) * lp + (a + s)
              \/ (y + r) * t < (b - r) * lp + (b - r)
  <1> DEFINE m == MulRatio(x - s, t, a + s)
             n == MulRatio(y + r, t, b - r)
  <1>1. m \in Nat /\ (a + s) * m <= (x - s) * t /\ (x - s) * t < (a + s) * m + (a + s)
    <2>1. x - s \in Nat /\ a + s \in Nat \ {0}
      OBVIOUS
    <2>2. QED
      BY <2>1, MulRatioBounds
  <1>2. n \in Nat /\ (b - r) * n <= (y + r) * t /\ (y + r) * t < (b - r) * n + (b - r)
    <2>1. y + r \in Nat /\ b - r \in Nat \ {0}
      OBVIOUS
    <2>2. QED
      BY <2>1, MulRatioBounds
  <1> HIDE DEF m, n
  <1>3. lp = (IF m < n THEN m ELSE n)
    BY DEF AtMost, m, n
  <1>4. CASE m < n
    <2>1. lp = m
      BY <1>3, <1>4
    <2>2. (b - r) * m <= (b - r) * n /\ (b - r) * m \in Nat /\ (b - r) * n \in Nat
      <3>1. b - r \in Nat /\ m <= n
        BY <1>1, <1>2, <1>4
      <3>2. QED
        BY <1>1, <1>2, <3>1, TimesMonotone
    <2>3. (y + r) * t \in Nat
      OBVIOUS
    <2>4. (b - r) * m <= (y + r) * t
      BY <1>2, <2>2, <2>3
    <2>5. QED
      BY <1>1, <2>1, <2>4
  <1>5. CASE ~(m < n)
    <2>1. lp = n
      BY <1>3, <1>5
    <2>2. (a + s) * n <= (a + s) * m /\ (a + s) * m \in Nat /\ (a + s) * n \in Nat
      <3>1. a + s \in Nat /\ n <= m
        BY <1>1, <1>2, <1>5
      <3>2. QED
        BY <1>1, <1>2, <3>1, TimesMonotone
    <2>3. (x - s) * t \in Nat
      <3>1. x - s \in Nat
        OBVIOUS
      <3>2. QED
        BY <3>1
    <2>4. (a + s) * n <= (x - s) * t
      BY <1>1, <2>2, <2>3
    <2>5. QED
      BY <1>2, <2>1, <2>4
  <1>6. QED
    BY <1>4, <1>5

\* A sale that is balanced below its return, but for 1 unit, gets all that
\* this return makes.
LEMMA BalancedSaleSuffices ==
    ASSUME NEW x \in Nat, NEW y \in Nat, NEW a \in Nat \ {0}, NEW b \in Nat \ {0},
           NEW s \in 0 .. x, NEW r \in Nat, r < b, NEW t \in Nat \ {0}, NEW lp \in Nat,
           \/ (x - s) * t < (a + s) * lp + (a + s)
           \/ (y + r) * t < (b - r) * lp + (b - r),
           Balance(x, y, a, b, s, r - 1) >= 0
    PROVE  (y + (r - 1)) * t < (lp + 1) * (b - (r - 1))
  <1> DEFINE z == a + s
             k == x - s
             m == b - (r - 1)
             n == y + (r - 1)
  <1>1. z \in Nat \ {0} /\ k \in Nat /\ m \in Nat \ {0} /\ n \in Int
    OBVIOUS
  <1>2. n * z <= k * m
    <2>1. Balance(x, y, a, b, s, r - 1) = k * m - n * z
      BY DEF Balance
    <2> HIDE DEF k, m, n, z
    <2>2. k * m \in Int /\ n * z \in Int
      BY <1>1
    <2>3. QED
      BY <2>1, <2>2
  <1>3. CASE k * t < z * lp + z
    <2> HIDE DEF k, m, n, z
    <2>1. (n * t) * z < ((lp + 1) * m) * z
      <3>1. (n * z) * t <= (k * m) * t
        <4>1. n * z \in Int /\ k * m \in Int
          BY <1>1
        <4>2. \A i, j \in Int : i <= j => i * t <= j * t
          OBVIOUS
        <4>3. QED
          BY <1>2, <4>1, <4>2
      <3>2. (k * t + 1) * m <= (z * lp + z) * m
        <4>1. k * t \in Nat /\ z * lp \in Nat
          BY <1>1
        <4>2. k * t + 1 <= z * lp + z
          BY <1>1, <1>3, <4>1
        <4>3. QED
          BY <1>1, <4>1, <4>2, TimesMonotone
      <3>3. (n * z) * t = (n * t) * z /\ (k * m) * t = (k * t) * m
            /\ (z * lp + z) * m = ((lp + 1) * m) * z /\ (k * t + 1) * m = (k * t) * m + m
        BY <1>1
      <3>4. (n * t) * z \in Int /\ (k * t) * m \in Int /\ ((lp + 1) * m) * z \in Int
        BY <1>1
      <3>5. QED
        BY <1>1, <3>1, <3>2, <3>3, <3>4
    <2>2. n * t < (lp + 1) * m
      <3> DEFINE i == n * t
                 j == (lp + 1) * m
      <3>1. i \in Int /\ j \in Int
        BY <1>1
      <3>2. i * z < j * z
        BY <2>1
      <3> HIDE DEF i, j
      <3>3. i < j
        <4> SUFFICES ASSUME j <= i PROVE FALSE
          BY <3>1
        <4>1. j * z <= i * z
          BY <1>1, <3>1
        <4>2. j * z \in Int /\ i * z \in Int
          BY <1>1, <3>1
        <4>3. QED
          BY <3>2, <4>1, <4>2
      <3>4. QED
        BY <3>3 DEF i, j
    <2>3. QED
      BY <2>2 DEF m, n
  <1>4. CASE (y + r) * t < (b - r) * lp + (b - r)
    <2>1. n * t <= (y + r) * t
      <3>1. (y + r) * t = n * t + t /\ n * t \in Int
        OBVIOUS
      <3>2. QED
        BY <3>1
    <2>2. (lp + 1) * m = (b - r) * lp + (b - r) + (lp + 1)
      OBVIOUS
    <2>3. (y + r) * t \in Int /\ (b - r) * lp \in Int /\ n * t \in Int /\ (lp + 1) * m \in Int
      OBVIOUS
    <2> HIDE DEF m, n
    <2>4. n * t < (lp + 1) * m
      BY <1>4, <2>1, <2>2, <2>3
    <2>5. QED
      BY <2>4 DEF m, n
  <1>5. QED
    BY <1>3, <1>4

\* No sale gets more than a return makes that one would have which leaves too
\* little of the first asset.
LEMMA BalancedSaleLimits ==
    ASSUME NEW x \in Nat, NEW y \in Nat, NEW a \in Nat \ {0}, NEW b \in Nat \ {0},
           NEW t \in Nat \ {0}, NEW d \in Nat \ {0}, NEW p \in Nat, p < d,
           NEW s \in 0 .. x, NEW r \in Nat, Estimate(a, b, s, p, d, r),
           NEW lp \in Nat, (a + s) * lp <= (x - s) * t, (b - r) * lp <= (y + r) * t,
           NEW s1 \in Nat, NEW r1 \in Nat, Estimate(a, b, s1, p, d, r1),
           Balance(x, y, a, b, s1, r1 + 1) <= 0
    PROVE  lp * (b - (1 + r1)) <= (y + (1 + r1)) * t
  <1> DEFINE z == a + s
             z1 == a + s1
             m == b - (1 + r1)
             n == y + (1 + r1)
  <1>1. z \in Nat \ {0} /\ z1 \in Nat \ {0} /\ m \in Int /\ n \in Nat
    OBVIOUS
  <1>2. n * t \in Nat /\ lp * m \in Int
    <2> HIDE DEF n, m
    <2>1. QED
      BY <1>1
  <1>3. CASE m <= 0
    <2> HIDE DEF m, n
    <2>1. lp * m <= 0
      BY <1>1, <1>3
    <2>2. lp * m <= n * t
      BY <1>2, <2>1
    <2>3. QED
      BY <2>2 DEF m, n
  <1>4. CASE m > 0 /\ s >= s1
    <2> DEFINE k == x - s
               k1 == x - s1
    <2>1. k \in Nat /\ k1 \in Nat /\ k <= k1 /\ z1 <= z /\ m \in Nat \ {0}
      BY <1>4
    <2>2. k1 * m <= n * z1
      <3>1. Balance(x, y, a, b, s1, r1 + 1) = k1 * m - n * z1
        BY DEF Balance
      <3> HIDE DEF k1, m, n, z1
      <3>2. k1 * m \in Int /\ n * z1 \in Int
        BY <1>1, <2>1
      <3>3. QED
        BY <3>1, <3>2
    <2>3. z * lp <= k * t
      OBVIOUS
    <2> HIDE DEF k, k1, m, n, z, z1
    <2>4. z1 * lp <= k1 * t
      <3>1. z1 * lp <= z * lp /\ k * t <= k1 * t
        BY <1>1, <2>1, TimesMonotone
      <3>2. z1 * lp \in Nat /\ z * lp \in Nat /\ k * t \in Nat /\ k1 * t \in Nat
        BY <1>1, <2>1
      <3>3. QED
        BY <2>3, <3>1, <3>2
    <2>5. (z1 * lp) * m <= (k1 * t) * m
      <3>1. z1 * lp \in Nat /\ k1 * t \in Nat
        BY <1>1, <2>1
      <3>2. QED
        BY <2>1, <2>4, <3>1, TimesMonotone
    <2>6. (k1 * m) * t <= (n * z1) * t
      <3>1. k1 * m \in Nat /\ n * z1 \in Nat
        BY <1>1, <2>1
      <3>2. QED
        BY <2>2, <3>1, TimesMonotone
    <2>7. (z1 * lp) * m = (lp * m) * z1 /\ (k1 * t) * m = (k1 * m) * t
          /\ (n * z1) * t = (n * t) * z1
      BY <1>1, <2>1
    <2>8. (lp * m) * z1 <= (n * t) * z1
      <3>1. (lp * m) * z1 \in Int /\ (k1 * m) * t \in Int /\ (n * t) * z1 \in Int
        BY <1>1, <2>1
      <3>2. QED
        BY <2>5, <2>6, <2>7, <3>1
    <2>9. lp * m <= n * t
      BY <1>1, <1>2, <2>8, TimesCancel
    <2>10. QED
      BY <2>9 DEF m, n
  <1>5. CASE m > 0 /\ s < s1
    <2> DEFINE share == d - p
               i == d * (r - 1)
               j == d * (r1 + 1)
    <2>1. i * z < share * b * s /\ share * b * s1 <= j * z1
      BY DEF Estimate
    <2>2. share \in Nat /\ i \in Int /\ j \in Nat
      OBVIOUS
    <2>3. s * z1 <= s1 * z
      <3>1. s * z1 = s * a + s * s1 /\ s1 * z = s1 * a + s1 * s
        OBVIOUS
      <3>2. s * a <= s1 * a /\ s * a \in Nat /\ s1 * a \in Nat
        BY <1>5, TimesMonotone
      <3>3. s * s1 = s1 * s /\ s * s1 \in Nat
        OBVIOUS
      <3> HIDE DEF z, z1
      <3>4. QED
        BY <3>1, <3>2, <3>3
    <2> HIDE DEF share, i, j, z, z1
    <2>4. (i * z) * z1 < (share * b * s) * z1
      <3>1. i * z \in Int /\ share * b * s \in Int
        BY <1>1, <2>2
      <3>2. \A u, v \in Int : u < v => u * z1 < v * z1
        BY <1>1
      <3>3. QED
        BY <2>1, <3>1, <3>2
    <2>5. (share * b) * (s * z1) <= (share * b) * (s1 * z)
      <3>1. share * b \in Nat /\ s * z1 \in Nat /\ s1 * z \in Nat
        BY <1>1, <2>2
      <3>2. QED
        BY <2>3, <3>1, TimesMonotone
    <2>6. (share * b * s1) * z <= (j * z1) * z
      <3>1. share * b * s1 \in Nat /\ j * z1 \in Nat
        BY <1>1, <2>2
      <3>2. QED
        BY <1>1, <2>1, <3>1, TimesMonotone
    <2>7. (share * b * s) * z1 = (share * b) * (s * z1)
          /\ (share * b * s1) * z = (share * b) * (s1 * z)
          /\ (i * z) * z1 = i * (z * z1) /\ (j * z1) * z = j * (z * z1)
      BY <1>1, <2>2
    <2>8. i * (z * z1) < j * (z * z1)
      <3>1. i * (z * z1) \in Int /\ j * (z * z1) \in Int
            /\ (share * b) * (s * z1) \in Int /\ (share * b) * (s1 * z) \in Int
        BY <1>1, <2>2
      <3>2. QED
        BY <2>4, <2>5, <2>6, <2>7, <3>1
    <2>9. i < j
      <3>1. z * z1 \in Nat
        BY <1>1
      <3>2. \A u, v \in Int, w \in Nat : u * w < v * w => u < v
        OBVIOUS
      <3>3. QED
        BY <2>2, <2>8, <3>1, <3>2
    <2>10. r <= r1 + 1
      <3> SUFFICES ASSUME r1 + 1 <= r - 1 PROVE FALSE
        OBVIOUS
      <3>1. d * (r1 + 1) <= d * (r - 1)
        BY TimesMonotone
      <3>2. d * (r1 + 1) \in Int /\ d * (r - 1) \in Int
        OBVIOUS
      <3>3. QED
        BY <2>9, <3>1, <3>2 DEF i, j
    <2>11. m \in Nat /\ m <= b - r /\ y + r <= n
      BY <1>5, <2>10
    <2> HIDE DEF m, n
    <2>12. m * lp <= (b - r) * lp /\ (y + r) * t <= n * t
      <3>1. b - r \in Nat
        BY <2>11
      <3>2. QED
        BY <1>1, <2>11, <3>1, TimesMonotone
    <2>13. (b - r) * lp \in Int /\ (y + r) * t \in Int /\ m * lp = lp * m
      BY <2>11
    <2>14. lp * m <= n * t
      BY <1>2, <2>12, <2>13
    <2>15. QED
      BY <2>14 DEF m, n
  <1>6. QED
    BY <1>1, <1>3, <1>4, <1>5

\* Selling nothing, or what get_swap_amount gives, is the best sale.
LEMMA BestSale ==
    ASSUME NEW x \in Nat, NEW y \in Nat, NEW pl, Backed(pl), pl.total > 0,
           NEW p \in 0 .. COMMISSION_DENOM - 1, y * pl.a <= x * pl.b,
           NEW sold \in {0, GetSwapAmount(x, y, pl.a, pl.b, p)}
    PROVE  IsBestSale(sold, x, y, pl, p)
  <1> DEFINE a == pl.a
             b == pl.b
             t == pl.total
             d == COMMISSION_DENOM
             ret(s) == Simulate(a, b, s, p)
             lp(s) == ShareAfterSale(s, x, y, pl, p)
             g == GetSwapAmount(x, y, a, b, p)
             s1 == g + Reach(x, y, a, b, p)
             excess(s) == SaleExcess(d, p, y + b, (x + a) * b, a, a + s)
  <1>1. a \in Nat \ {0} /\ b \in Nat \ {0} /\ t \in Nat \ {0} /\ pl \in [a: Nat, b: Nat, total: Nat]
    BY DEF Backed
  <1>2. d \in Nat \ {0} /\ p \in Nat /\ p <= d /\ p < d
    BY PoolMathAssumption
  <1>3. ASSUME NEW s \in Nat
        PROVE  Estimate(a, b, s, p, d, ret(s)) /\ ret(s) \in Nat /\ ret(s) < b
    <2>1. Estimate(a, b, s, p, d, ret(s))
      BY <1>1, SimulateEstimate
    <2>2. QED
      BY <2>1 DEF Estimate
  <1>4. ASSUME NEW s \in 0 .. x
        PROVE  lp(s) = AtMost(MulRatio(x - s, t, a + s), MulRatio(y + ret(s), t, b - ret(s)))
    <2> DEFINE after == [pl EXCEPT !.a = @ + s, !.b = @ - ret(s)]
    <2>1. after.a = a + s /\ after.b = b - ret(s) /\ after.total = t
      BY <1>1
    <2>2. lp(s) = ProvideShare(x - s, y + ret(s), after)
      BY DEF ShareAfterSale
    <2> HIDE DEF after, lp, t, a, b
    <2>3. QED
      BY <1>1, <2>1, <2>2 DEF ProvideShare
  <1>5. /\ g \in Nat /\ s1 \in Nat
        /\ g > 0 => excess(g) <= 0
        /\ excess(s1) >= 0
    <2>1. /\ g \in Nat /\ Reach(x, y, a, b, p) \in Nat \ {0}
          /\ g > 0 => excess(g) <= 0
          /\ excess(s1) >= 0
      BY <1>1, SwapAmountNearRoot
    <2>2. QED
      BY <2>1
  <1>6. g <= x
    <2>1. y * a <= x * b /\ y + b > 0
      BY <1>1
    <2>2. QED
      BY <1>1, <2>1, SwapAmountBounds
  <1> HIDE DEF excess, g
  <1>7. sold \in 0 .. x /\ sold \in Nat
    BY <1>5, <1>6 DEF g
  <1>8. Balance(x, y, a, b, sold, ret(sold) - 1) >= 0
    <2>1. CASE sold > 0
      <3>1. sold = g /\ excess(sold) <= 0
        BY <1>5, <2>1 DEF g
      <3>2. excess(sold) <= 0 => Balance(x, y, a, b, sold, ret(sold) - 1) >= 0
        BY <1>1, <1>2, <1>3, <1>7, SaleBalances DEF excess
      <3>3. QED
        BY <3>1, <3>2
    <2>2. CASE sold = 0
      <3> DEFINE r == ret(0)
      <3>1. Estimate(a, b, 0, p, d, r)
        BY <1>3
      <3>2. r = 0
        <4>1. r \in Nat /\ d * (r - 1) * (a + 0) < (d - p) * b * 0
          BY <3>1 DEF Estimate
        <4> HIDE DEF r, d, a, b
        <4>2. d * (r - 1) * a < 0
          BY <1>1, <1>2, <4>1
        <4>3. r >= 1 => d * (r - 1) * a >= 0
          <5> SUFFICES ASSUME r >= 1 PROVE d * (r - 1) * a >= 0
            OBVIOUS
          <5>1. r - 1 \in Nat /\ d \in Nat /\ a \in Nat
            BY <1>1, <1>2, <4>1
          <5>2. QED
            BY <5>1
        <4>4. QED
          BY <1>1, <1>2, <4>1, <4>2, <4>3
      <3> HIDE DEF r
      <3>3. Balance(x, y, a, b, 0, 0 - 1) >= 0
        <4>1. Balance(x, y, a, b, 0, 0 - 1) = x * b - y * a + x + a
          BY <1>1 DEF Balance
        <4>2. x * b \in Nat /\ y * a \in Nat /\ y * a <= x * b
          BY <1>1
        <4>3. QED
          BY <1>1, <4>1, <4>2
      <3>4. QED
        BY <2>2, <3>2, <3>3 DEF r
    <2>3. QED
      BY <1>7, <2>1, <2>2
  <1>9. Balance(x, y, a, b, s1, ret(s1) + 1) <= 0
    <2>1. excess(s1) >= 0 => Balance(x, y, a, b, s1, ret(s1) + 1) <= 0
      BY <1>1, <1>2, <1>3, <1>5, SaleBalances DEF excess
    <2>2. QED
      BY <1>5, <2>1
  <1> HIDE DEF s1
  <1>10. ASSUME NEW s \in 0 .. x
         PROVE  /\ lp(s) \in Nat
                /\ (a + s) * lp(s) <= (x - s) * t
                /\ (b - ret(s)) * lp(s) <= (y + ret(s)) * t
                /\ \/ (x - s) * t < (a + s) * lp(s) + (a + s)
                   \/ (y + ret(s)) * t < (b - ret(s)) * lp(s) + (b - ret(s))
    <2> DEFINE r == ret(s)
               l == lp(s)
    <2>1. r \in Nat /\ r < b
      BY <1>3
    <2>2. l = AtMost(MulRatio(x - s, t, a + s), MulRatio(y + r, t, b - r))
      BY <1>4
    <2> HIDE DEF a, b, t, r, l
    <2>3. /\ l \in Nat
          /\ (a + s) * l <= (x - s) * t
          /\ (b - r) * l <= (y + r) * t
          /\ \/ (x - s) * t < (a + s) * l + (a + s)
             \/ (y + r) * t < (b - r) * l + (b - r)
      BY <1>1, <2>1, <2>2, ShareAfterSaleBounds
    <2>4. QED
      BY <2>3 DEF r, l
  <1>11. (y + (ret(sold) - 1)) * t < (lp(sold) + 1) * (b - (ret(sold) - 1))
    <2> DEFINE r == ret(sold)
               l == lp(sold)
    <2>1. r \in Nat /\ r < b
      BY <1>3, <1>7
    <2>2. /\ l \in Nat
          /\ \/ (x - sold) * t < (a + sold) * l + (a + sold)
             \/ (y + r) * t < (b - r) * l + (b - r)
      BY <1>7, <1>10
    <2>3. Balance(x, y, a, b, sold, r - 1) >= 0
      BY <1>8
    <2> HIDE DEF a, b, t, r, l
    <2>4. (y + (r - 1)) * t < (l + 1) * (b - (r - 1))
      BY <1>1, <1>7, <2>1, <2>2, <2>3, BalancedSaleSuffices
    <2>5. QED
      BY <2>4 DEF r, l
  <1>12. ASSUME NEW s \in 0 .. x
         PROVE  lp(s) * (b - (1 + ret(s1))) <= (y + (1 + ret(s1))) * t
    <2> DEFINE r == ret(s)
               l == lp(s)
               r1 == ret(s1)
    <2>1. s \in Nat /\ r \in Nat /\ Estimate(a, b, s, p, d, r)
      BY <1>3
    <2>2. l \in Nat /\ (a + s) * l <= (x - s) * t /\ (b - r) * l <= (y + r) * t
      BY <1>10
    <2>3. r1 \in Nat /\ Estimate(a, b, s1, p, d, r1) /\ Balance(x, y, a, b, s1, r1 + 1) <= 0
      BY <1>3, <1>5, <1>9
    <2> HIDE DEF a, b, t, d, r, l, r1
    <2>4. l * (b - (1 + r1)) <= (y + (1 + r1)) * t
      BY <1>1, <1>2, <1>5, <2>1, <2>2, <2>3, BalancedSaleLimits
    <2>5. QED
      BY <2>4 DEF r, l, r1
  <1>13. QED
    BY <1>7, <1>11, <1>12 DEF IsBestSale, s1, g

-----------------------------------------------------------------------------
(* What a route returns *)

\* The router's pairs return amounts and stay in states of theirs; external.
ReturnsAreAmounts ==
    \A t \in DOMAIN Routes :
        \A i, j \in DOMAIN Routes[t], s \in PairStates, amount \in Nat :
            /\ Return(s, Routes[t][i], Routes[t][j], amount) \in Nat
            /\ Moved(s, Routes[t][i], Routes[t][j], amount) \in PairStates

\* The i-th amount on a route, and that the amounts of a route exist.
Leg(at, route, amount, f, i) ==
    IF i = 1 THEN amount
    ELSE Return(at[{route[i - 1], route[i]}], route[i - 1], route[i], f[i - 1])

Legs(at, route, amount, n) == \E f : f = [i \in 1 .. n |-> Leg(at, route, amount, f, i)]

\* A route of any length can be followed.
LEMMA LegsExist ==
    ASSUME NEW at, NEW route, NEW amount, NEW n \in Nat
    PROVE  Legs(at, route, amount, n)
  <1> DEFINE T == {k \in Nat : ~Legs(at, route, amount, k)}
  <1>1. ASSUME T # {} PROVE FALSE
    <2>1. T \in SUBSET Nat
      OBVIOUS
    <2>2. PICK m \in T : \A k \in T : m <= k
      BY <1>1, <2>1, SmallestNumber
    <2>3. CASE m = 0
      <3>1. [i \in 1 .. 0 |-> 0] = [i \in 1 .. 0 |-> Leg(at, route, amount, [j \in 1 .. 0 |-> 0], i)]
        OBVIOUS
      <3>2. Legs(at, route, amount, 0)
        BY <3>1 DEF Legs
      <3>3. QED
        BY <2>2, <2>3, <3>2
    <2>4. CASE m # 0
      <3>1. m - 1 \in Nat /\ m - 1 < m /\ m \in Nat
        BY <2>2, <2>4
      <3>2. Legs(at, route, amount, m - 1)
        BY <3>1, <2>2
      <3>3. PICK f : f = [i \in 1 .. m - 1 |-> Leg(at, route, amount, f, i)]
        BY <3>2 DEF Legs
      <3> DEFINE g == [i \in 1 .. m |-> IF i = m THEN Leg(at, route, amount, f, i) ELSE f[i]]
      <3>4. ASSUME NEW i \in 1 .. m PROVE g[i] = Leg(at, route, amount, g, i)
        <4>1. i # 1 => i - 1 \in 1 .. m - 1
          BY <3>1
        <4>2. i # 1 => g[i - 1] = f[i - 1]
          BY <4>1, <3>1
        <4>3. Leg(at, route, amount, g, i) = Leg(at, route, amount, f, i)
          BY <4>2 DEF Leg
        <4>4. i # m => f[i] = Leg(at, route, amount, f, i)
          BY <3>3, <3>1
        <4>5. QED
          BY <4>3, <4>4
      <3>5. g = [i \in 1 .. m |-> Leg(at, route, amount, g, i)]
        BY <3>4
      <3>6. Legs(at, route, amount, m)
        BY <3>5 DEF Legs
      <3>7. QED
        BY <3>6, <2>2
    <2>5. QED
      BY <2>3, <2>4
  <1>2. QED
    BY <1>1

\* Each amount on a route is what the pair before it returns.
LEMMA RouteAmountsUnfold ==
    ASSUME NEW at, NEW t, NEW amount, NEW n \in Nat, n = Len(RouteFrom(t)),
           NEW i \in 1 .. n
    PROVE  RouteAmounts(at, t, amount)[i]
             = Leg(at, RouteFrom(t), amount, RouteAmounts(at, t, amount), i)
  <1> DEFINE route == RouteFrom(t)
  <1>1. \E f : f = [k \in 1 .. Len(route) |-> Leg(at, route, amount, f, k)]
    <2>1. Legs(at, route, amount, Len(route))
      BY LegsExist
    <2>2. QED
      BY <2>1 DEF Legs
  <1> DEFINE legs == CHOOSE f : f = [k \in 1 .. Len(route) |-> Leg(at, route, amount, f, k)]
  <1>2. RouteAmounts(at, t, amount) = legs
    BY DEF RouteAmounts, Leg
  <1>3. legs = [k \in 1 .. Len(route) |-> Leg(at, route, amount, legs, k)]
    BY <1>1
  <1> HIDE DEF legs
  <1>4. legs[i] = Leg(at, route, amount, legs, i)
    BY <1>3
  <1>5. QED
    BY <1>2, <1>4

\* A route has its length in either direction, the same assets and the same
\* pairs.
LEMMA RouteFromBounds ==
    ASSUME NEW t \in DOMAIN Routes
    PROVE  /\ Len(RouteFrom(t)) = Len(Routes[t])
           /\ Len(Routes[t]) \in Nat /\ Len(Routes[t]) > 1
           /\ \A i \in 1 .. Len(Routes[t]) :
                 \E j \in DOMAIN Routes[t] : RouteFrom(t)[i] = Routes[t][j]
           /\ \A i \in 2 .. Len(Routes[t]) :
                 {RouteFrom(t)[i - 1], RouteFrom(t)[i]} \in RoutePairs(t)
           /\ \A p \in RoutePairs(t) :
                 \E i \in 2 .. Len(Routes[t]) : p = {RouteFrom(t)[i - 1], RouteFrom(t)[i]}
  <1> DEFINE route == Routes[t]
             n == Len(route)
  <1>1. DOMAIN route = 1 .. n /\ n \in Nat /\ n > 1
    BY CompoundAssumption DEF ValidRoute, MAX_ASSETS
  <1>2. RoutePairs(t) = {{route[i - 1], route[i]} : i \in 2 .. n}
    BY DEF RoutePairs
  <1>3. CASE route[1] = t
    <2>1. RouteFrom(t) = route
      BY <1>3 DEF RouteFrom
    <2>2. Len(RouteFrom(t)) = n
      BY <2>1
    <2> HIDE DEF n
    <2>3. \A i \in 1 .. n : i \in DOMAIN route /\ RouteFrom(t)[i] = route[i]
      BY <1>1, <2>1
    <2>4. \A i \in 2 .. n : {RouteFrom(t)[i - 1], RouteFrom(t)[i]} \in RoutePairs(t)
      BY <1>2, <2>1
    <2>5. ASSUME NEW p \in RoutePairs(t)
          PROVE  \E i \in 2 .. n : p = {RouteFrom(t)[i - 1], RouteFrom(t)[i]}
      BY <1>2, <2>1
    <2>6. QED
      BY <1>1, <2>2, <2>3, <2>4, <2>5 DEF n
  <1>4. CASE route[1] # t
    <2>1. RouteFrom(t) = [i \in 1 .. n |-> route[n + 1 - i]]
      BY <1>1, <1>4 DEF RouteFrom, Reversed
    <2> HIDE DEF n
    <2>2. Len(RouteFrom(t)) = n
      BY <1>1, <2>1
    <2>3. ASSUME NEW i \in 1 .. n
          PROVE  \E j \in DOMAIN route : RouteFrom(t)[i] = route[j]
      <3>1. n + 1 - i \in 1 .. n
        BY <1>1
      <3>2. RouteFrom(t)[i] = route[n + 1 - i]
        BY <2>1
      <3>3. QED
        BY <1>1, <3>1, <3>2
    <2>4. ASSUME NEW i \in 2 .. n
          PROVE  /\ n + 2 - i \in 2 .. n /\ n + 2 - (n + 2 - i) = i
                 /\ {RouteFrom(t)[i - 1], RouteFrom(t)[i]}
                      = {route[(n + 2 - i) - 1], route[n + 2 - i]}
      <3>1. /\ n + 2 - i \in 2 .. n /\ i - 1 \in 1 .. n /\ i \in 1 .. n
            /\ n + 1 - (i - 1) = n + 2 - i /\ (n + 2 - i) - 1 = n + 1 - i
            /\ n + 2 - (n + 2 - i) = i
        BY <1>1
      <3>2. RouteFrom(t)[i - 1] = route[n + 2 - i] /\ RouteFrom(t)[i] = route[(n + 2 - i) - 1]
        BY <2>1, <3>1
      <3>3. QED
        BY <3>1, <3>2
    <2>5. ASSUME NEW i \in 2 .. n
          PROVE  {RouteFrom(t)[i - 1], RouteFrom(t)[i]} \in RoutePairs(t)
      BY <1>2, <2>4
    <2>6. ASSUME NEW p \in RoutePairs(t)
          PROVE  \E i \in 2 .. n : p = {RouteFrom(t)[i - 1], RouteFrom(t)[i]}
      <3>1. PICK k \in 2 .. n : p = {route[k - 1], route[k]}
        BY <1>2
      <3>2. n + 2 - k \in 2 .. n /\ n + 2 - (n + 2 - k) = k
        BY <2>4
      <3> DEFINE i == n + 2 - k
      <3>3. i \in 2 .. n /\ n + 2 - i = k
        BY <3>2
      <3> HIDE DEF i
      <3>4. {RouteFrom(t)[i - 1], RouteFrom(t)[i]} = {route[k - 1], route[k]}
        BY <2>4, <3>3
      <3>5. QED
        BY <3>1, <3>3, <3>4
    <2>7. QED
      BY <1>1, <2>2, <2>3, <2>5, <2>6 DEF n
  <1>5. QED
    BY <1>3, <1>4

\* The pairs of a route have states.
LEMMA PairsHaveStates ==
    ASSUME NEW at \in MarketStates, NEW t \in DOMAIN Routes, NEW p \in RoutePairs(t)
    PROVE  p \in DOMAIN at /\ at[p] \in PairStates
  BY DEF MarketStates

\* The amounts on a route are amounts.
LEMMA RouteAmountsType ==
    ASSUME ReturnsAreAmounts, NEW at \in MarketStates, NEW t \in DOMAIN Routes,
           NEW amount \in Nat, NEW i \in 1 .. Len(Routes[t])
    PROVE  RouteAmounts(at, t, amount)[i] \in Nat
  <1> DEFINE route == RouteFrom(t)
             n == Len(Routes[t])
             f == RouteAmounts(at, t, amount)
  <1>1. /\ Len(route) = n /\ n \in Nat /\ n > 1
        /\ \A k \in 1 .. n : \E j \in DOMAIN Routes[t] : route[k] = Routes[t][j]
        /\ \A k \in 2 .. n : {route[k - 1], route[k]} \in RoutePairs(t)
    BY RouteFromBounds
  <1>2. \A k \in 1 .. n : f[k] = Leg(at, route, amount, f, k)
    BY <1>1, RouteAmountsUnfold
  <1> HIDE DEF n, f, route
  <1>3. ASSUME NEW k \in 1 .. n, k # 1, f[k - 1] \in Nat PROVE f[k] \in Nat
    <2>1. k - 1 \in 1 .. n /\ k \in 2 .. n
      BY <1>1, <1>3
    <2>2. PICK j \in DOMAIN Routes[t] : route[k - 1] = Routes[t][j]
      BY <1>1, <2>1
    <2>3. PICK l \in DOMAIN Routes[t] : route[k] = Routes[t][l]
      BY <1>1
    <2>4. at[{route[k - 1], route[k]}] \in PairStates
      BY <1>1, <2>1, PairsHaveStates
    <2>5. Return(at[{route[k - 1], route[k]}], route[k - 1], route[k], f[k - 1]) \in Nat
      BY <1>3, <2>2, <2>3, <2>4 DEF ReturnsAreAmounts
    <2>6. QED
      BY <1>2, <1>3, <2>5 DEF Leg
  <1>4. f[1] \in Nat
    <2>1. 1 \in 1 .. n
      BY <1>1
    <2>2. f[1] = Leg(at, route, amount, f, 1)
      BY <1>2, <2>1
    <2>3. QED
      BY <2>2 DEF Leg
  <1> DEFINE T == {k \in Nat : k >= 1 /\ k <= n /\ f[k] \notin Nat}
  <1>5. ASSUME T # {} PROVE FALSE
    <2>1. T \in SUBSET Nat
      OBVIOUS
    <2>2. PICK m \in T : \A k \in T : m <= k
      BY <1>5, <2>1, SmallestNumber
    <2>3. m \in Nat /\ m \in 1 .. n /\ f[m] \notin Nat /\ m # 1
      BY <1>1, <1>4, <2>2
    <2>4. f[m - 1] \notin Nat
      BY <1>3, <2>3
    <2>5. m - 1 \in T
      BY <1>1, <2>3, <2>4
    <2>6. QED
      BY <2>2, <2>3, <2>5
  <1>6. i \notin T /\ i \in 1 .. n
    BY <1>5 DEF n
  <1>7. QED
    BY <1>1, <1>6 DEF f

\* A sale over a route returns an amount and leaves its pairs in states.
LEMMA RouteTypes ==
    ASSUME ReturnsAreAmounts, NEW at \in MarketStates, NEW t \in DOMAIN Routes,
           NEW amount \in Nat
    PROVE  RouteReturn(at, t, amount) \in Nat /\ MarketAfter(at, t, amount) \in MarketStates
  <1> DEFINE route == RouteFrom(t)
             n == Len(Routes[t])
             hop(p) == CHOOSE i \in 2 .. n : p = {route[i - 1], route[i]}
             after(p) == Moved(at[p], route[hop(p) - 1], route[hop(p)],
                               RouteAmounts(at, t, amount)[hop(p) - 1])
  <1>1. /\ Len(route) = n /\ n \in Nat /\ n > 1
        /\ \A k \in 1 .. n : \E j \in DOMAIN Routes[t] : route[k] = Routes[t][j]
        /\ \A p \in RoutePairs(t) : \E i \in 2 .. n : p = {route[i - 1], route[i]}
    BY RouteFromBounds
  <1>2. RouteReturn(at, t, amount) \in Nat
    BY <1>1, RouteAmountsType DEF RouteReturn
  <1>3. ASSUME NEW p \in RoutePairs(t) PROVE after(p) \in PairStates
    <2>1. hop(p) \in 2 .. n
      BY <1>1
    <2> DEFINE k == hop(p)
    <2> HIDE DEF hop
    <2>2. k \in 1 .. n /\ k - 1 \in 1 .. n
      BY <1>1, <2>1
    <2>3. PICK j \in DOMAIN Routes[t] : route[k - 1] = Routes[t][j]
      BY <1>1, <2>2
    <2>4. PICK l \in DOMAIN Routes[t] : route[k] = Routes[t][l]
      BY <1>1, <2>2
    <2>5. RouteAmounts(at, t, amount)[k - 1] \in Nat /\ at[p] \in PairStates
      BY <2>2, RouteAmountsType, PairsHaveStates
    <2>6. QED
      BY <2>3, <2>4, <2>5 DEF ReturnsAreAmounts
  <1>4. MarketAfter(at, t, amount)
          = [p \in DOMAIN at |-> IF p \in RoutePairs(t) THEN after(p) ELSE at[p]]
    BY <1>1 DEF MarketAfter
  <1> HIDE DEF after
  <1>5. QED
    BY <1>2, <1>3, <1>4 DEF MarketStates

\* A route returns the same where the states of its pairs are the same.
LEMMA SameReturn ==
    ASSUME NEW at, NEW was, NEW t \in DOMAIN Routes, NEW amount,
           \A p \in RoutePairs(t) : at[p] = was[p]
    PROVE  RouteReturn(at, t, amount) = RouteReturn(was, t, amount)
  <1> DEFINE route == RouteFrom(t)
             n == Len(Routes[t])
             f == RouteAmounts(at, t, amount)
             g == RouteAmounts(was, t, amount)
  <1>1. /\ Len(route) = n /\ n \in Nat /\ n > 1
        /\ \A k \in 2 .. n : {route[k - 1], route[k]} \in RoutePairs(t)
    BY RouteFromBounds
  <1>2. \A k \in 1 .. n : /\ f[k] = Leg(at, route, amount, f, k)
                          /\ g[k] = Leg(was, route, amount, g, k)
    BY <1>1, RouteAmountsUnfold
  <1> HIDE DEF n, f, g, route
  <1>3. ASSUME NEW k \in 1 .. n, k # 1, f[k - 1] = g[k - 1] PROVE f[k] = g[k]
    <2>1. at[{route[k - 1], route[k]}] = was[{route[k - 1], route[k]}]
      BY <1>1, <1>3
    <2>2. QED
      BY <1>2, <1>3, <2>1 DEF Leg
  <1>4. f[1] = g[1]
    <2>1. 1 \in 1 .. n
      BY <1>1
    <2>2. f[1] = Leg(at, route, amount, f, 1) /\ g[1] = Leg(was, route, amount, g, 1)
      BY <1>2, <2>1
    <2>3. QED
      BY <2>2 DEF Leg
  <1> DEFINE T == {k \in Nat : k >= 1 /\ k <= n /\ f[k] # g[k]}
  <1>5. ASSUME T # {} PROVE FALSE
    <2>1. T \in SUBSET Nat
      OBVIOUS
    <2>2. PICK m \in T : \A k \in T : m <= k
      BY <1>5, <2>1, SmallestNumber
    <2>3. m \in Nat /\ m \in 1 .. n /\ f[m] # g[m] /\ m # 1
      BY <1>1, <1>4, <2>2
    <2>4. f[m - 1] # g[m - 1]
      BY <1>3, <2>3
    <2>5. m - 1 \in T
      BY <1>1, <2>3, <2>4
    <2>6. QED
      BY <2>2, <2>3, <2>5
  <1>6. n \notin T
    BY <1>5
  <1>7. f[n] = g[n]
    BY <1>1, <1>6
  <1>8. QED
    BY <1>7 DEF RouteReturn, f, g, n

\* A sale moves no pair but those of its route.
LEMMA OthersNotMoved ==
    ASSUME NEW at, NEW t, NEW amount, NEW p \in DOMAIN at, p \notin RoutePairs(t)
    PROVE  MarketAfter(at, t, amount)[p] = at[p]
  <1> DEFINE moved(q) == MarketAfter(at, t, amount)[q]
  <1>1. \E F : MarketAfter(at, t, amount)
                 = [q \in DOMAIN at |-> IF q \in RoutePairs(t) THEN F[q] ELSE at[q]]
    <2> DEFINE route == RouteFrom(t)
               hop(q) == CHOOSE i \in 2 .. Len(route) : q = {route[i - 1], route[i]}
               G == [q \in DOMAIN at |->
                        Moved(at[q], route[hop(q) - 1], route[hop(q)],
                              RouteAmounts(at, t, amount)[hop(q) - 1])]
    <2>1. MarketAfter(at, t, amount)
            = [q \in DOMAIN at |-> IF q \in RoutePairs(t) THEN G[q] ELSE at[q]]
      BY DEF MarketAfter
    <2> HIDE DEF G
    <2>2. QED
      BY <2>1
  <1>2. QED
    BY <1>1

-----------------------------------------------------------------------------
(* What the rewards bring *)

\* The rewards of a call are a list of tokens and amounts.
LEMMA RewardsFacts ==
    ASSUME NEW r \in Rewards
    PROVE  /\ Len(r) \in Nat /\ DOMAIN r = 1 .. Len(r)
           /\ IsFiniteSet(DOMAIN r)
           /\ \A i \in DOMAIN r : r[i].info \in RewardTokens /\ r[i].amount \in Nat
           /\ r = <<>> <=> Len(r) = 0
  <1>1. PICK n \in 0 .. MaxRewards : r \in [1 .. n -> Reward]
    BY DEF Rewards
  <1>2. n \in Nat /\ Amounts \subseteq Nat
    BY CompoundAssumption
  <1>3. r \in Seq(Reward) /\ Len(r) = n /\ DOMAIN r = 1 .. n
    BY <1>1, <1>2
  <1>4. \A i \in DOMAIN r : r[i] \in Reward
    BY <1>1
  <1>5. \A i \in DOMAIN r : r[i].info \in RewardTokens /\ r[i].amount \in Nat
    BY <1>2, <1>4 DEF Reward
  <1>6. IsFiniteSet(DOMAIN r)
    BY <1>2, <1>3, FS_Interval
  <1>7. r = <<>> <=> Len(r) = 0
    BY <1>3
  <1>8. QED
    BY <1>2, <1>3, <1>5, <1>6, <1>7

\* What the i-th of the rewards brings of the token t.
Brings(at, r, i, t) ==
    IF RewardAsset(r[i].info) = t THEN RewardAmount(at, r[i].info, r[i].amount) ELSE 0

\* What those after the first h bring.
Ahead(at, r, h, t) ==
    Total(Part([i \in DOMAIN r |-> Brings(at, r, i, t)], {i \in DOMAIN r : i > h}))

\* A reward brings an amount.
LEMMA BringsType ==
    ASSUME ReturnsAreAmounts, NEW at \in MarketStates, NEW r \in Rewards,
           NEW i \in DOMAIN r, NEW t
    PROVE  Brings(at, r, i, t) \in Nat
  <1>1. r[i].amount \in Nat
    BY RewardsFacts
  <1>2. QED
    BY <1>1, RouteTypes DEF Brings, RewardAmount

\* All the rewards are those after none of them.
LEMMA AheadOfAll ==
    ASSUME NEW at, NEW r \in Rewards, NEW t
    PROVE  Ahead(at, r, 0, t) = RewardsIn(at, r, t)
  <1> DEFINE f == [i \in DOMAIN r |-> Brings(at, r, i, t)]
  <1>1. DOMAIN r = 1 .. Len(r)
    BY RewardsFacts
  <1>2. {i \in DOMAIN r : i > 0} = DOMAIN r
    BY <1>1
  <1>3. Part(f, DOMAIN r) = f
    BY DEF Part
  <1>4. RewardsIn(at, r, t) = Total(f)
    BY DEF RewardsIn, Brings
  <1> HIDE DEF f
  <1>5. Ahead(at, r, 0, t) = Total(Part(f, DOMAIN r))
    BY <1>2 DEF Ahead, f
  <1>6. QED
    BY <1>3, <1>4, <1>5

\* After the last of the rewards there is nothing to come.
LEMMA AheadOfNone ==
    ASSUME NEW at, NEW r \in Rewards, NEW t
    PROVE  Ahead(at, r, Len(r), t) = 0
  <1> DEFINE f == [i \in DOMAIN r |-> Brings(at, r, i, t)]
  <1>1. DOMAIN r = 1 .. Len(r) /\ Len(r) \in Nat
    BY RewardsFacts
  <1>2. {i \in DOMAIN r : i > Len(r)} = {}
    BY <1>1
  <1> HIDE DEF f
  <1>3. Part(f, {}) = [i \in {} |-> 0]
    BY DEF Part
  <1>4. Total([i \in {} |-> 0]) = 0
    BY TotalOfZeros
  <1>5. Ahead(at, r, Len(r), t) = Total(Part(f, {}))
    BY <1>2 DEF Ahead, f
  <1>6. QED
    BY <1>3, <1>4, <1>5

\* What is to come is what the next reward brings and what those after it do.
LEMMA AheadSplit ==
    ASSUME ReturnsAreAmounts, NEW at \in MarketStates, NEW r \in Rewards,
           NEW h \in Nat, h < Len(r), NEW t
    PROVE  /\ Ahead(at, r, h + 1, t) \in Nat
           /\ Brings(at, r, h + 1, t) \in Nat
           /\ Ahead(at, r, h, t) = Ahead(at, r, h + 1, t) + Brings(at, r, h + 1, t)
  <1> DEFINE S == DOMAIN r
             f == [i \in S |-> Brings(at, r, i, t)]
             U == {i \in S : i > h}
             k == h + 1
  <1>1. S = 1 .. Len(r) /\ Len(r) \in Nat /\ IsFiniteSet(S)
    BY RewardsFacts
  <1>2. \A i \in S : Brings(at, r, i, t) \in Nat
    BY BringsType
  <1>3. f \in [S -> Nat]
    BY <1>2
  <1>4. k \in U /\ U \in SUBSET S /\ {i \in S : i > k} = U \ {k}
    BY <1>1
  <1>5. Ahead(at, r, h, t) = Total(Part(f, U)) /\ Ahead(at, r, k, t) = Total(Part(f, U \ {k}))
    BY <1>4 DEF Ahead
  <1>6. f[k] = Brings(at, r, k, t) /\ Brings(at, r, k, t) \in Nat
    <2>1. k \in S
      BY <1>4
    <2>2. \A i \in S : f[i] = Brings(at, r, i, t)
      OBVIOUS
    <2> HIDE DEF k, S, f
    <2>3. QED
      BY <1>2, <2>1, <2>2
  <1> HIDE DEF S, f, U, k
  <1>7. Total(Part(f, U \ {k})) \in Nat /\ Total(Part(f, U)) = Total(Part(f, U \ {k})) + f[k]
    <2>1. IsFiniteSet(S) /\ k \in U /\ U \in SUBSET S
      BY <1>1, <1>4
    <2>2. QED
      BY <1>3, <2>1, TotalOfPart
  <1>8. QED
    BY <1>5, <1>6, <1>7 DEF k

\* Rewards bring amounts.
LEMMA RewardsInType ==
    ASSUME ReturnsAreAmounts, NEW at \in MarketStates, NEW r \in Rewards, NEW t
    PROVE  RewardsIn(at, r, t) \in Nat
  <1>1. Len(r) \in Nat
    BY RewardsFacts
  <1>2. CASE Len(r) = 0
    <2>1. Ahead(at, r, 0, t) = 0
      BY <1>2, AheadOfNone
    <2>2. QED
      BY <2>1, AheadOfAll
  <1>3. CASE Len(r) # 0
    <2>1. /\ Ahead(at, r, 0 + 1, t) \in Nat /\ Brings(at, r, 0 + 1, t) \in Nat
          /\ Ahead(at, r, 0, t) = Ahead(at, r, 0 + 1, t) + Brings(at, r, 0 + 1, t)
      BY <1>1, <1>3, AheadSplit
    <2>2. Ahead(at, r, 0, t) \in Nat
      BY <2>1
    <2>3. QED
      BY <2>2, AheadOfAll
  <1>4. QED
    BY <1>2, <1>3

\* Of a set of positions there is a last one.
LEMMA LastPosition ==
    ASSUME NEW n \in Nat, NEW S \in SUBSET (1 .. n), S # {}
    PROVE  \E m \in S : \A k \in S : k <= m
  <1> DEFINE T == {n - k : k \in S}
  <1>1. T \in SUBSET Nat /\ T # {}
    <2>1. \A k \in S : n - k \in Nat
      OBVIOUS
    <2>2. \A x \in T : \E k \in S : x = n - k
      OBVIOUS
    <2>3. PICK k \in S : TRUE
      OBVIOUS
    <2>4. n - k \in T
      BY <2>3
    <2> HIDE DEF T
    <2>5. QED
      BY <2>1, <2>2, <2>4
  <1>2. PICK least \in T : \A k \in T : least <= k
    BY <1>1, SmallestNumber
  <1>3. PICK m \in S : least = n - m
    BY <1>2
  <1>4. ASSUME NEW k \in S PROVE k <= m
    <2>1. n - m <= n - k
      BY <1>2, <1>3
    <2>2. QED
      BY <2>1
  <1>5. QED
    BY <1>4

\* What is named of a token that comes with the call is the amount of one of
\* the rewards, or nothing; it has come.
LEMMA NamedFacts ==
    ASSUME NEW r \in Rewards, NEW funds \in Funds, Paid(r, funds), NEW t \in Tokens
    PROVE  /\ Sent(funds, t) \in Nat /\ Named(r, t) \in Nat
           /\ Named(r, t) <= Sent(funds, t)
           /\ \/ Named(r, t) = 0 /\ (t \in Natives => \A i \in DOMAIN r : r[i].info # t)
              \/ t \in Natives /\ \E i \in DOMAIN r : r[i].info = t /\ Named(r, t) = r[i].amount
  <1> DEFINE naming == {i \in DOMAIN r : r[i].info = t}
             last   == CHOOSE i \in naming : \A j \in naming : j <= i
  <1>1. Named(r, t) = IF t \in Natives /\ naming # {} THEN r[last].amount ELSE 0
    BY DEF Named
  <1>2. Sent(funds, t) \in Nat
    <2>1. Amounts \cup {0} \subseteq Nat
      BY CompoundAssumption
    <2>2. t \in Natives => funds[t] \in Amounts \cup {0}
      BY DEF Funds
    <2>3. QED
      BY <2>1, <2>2 DEF Sent
  <1>3. CASE t \in Natives /\ naming # {}
    <2>1. DOMAIN r = 1 .. Len(r) /\ Len(r) \in Nat
      BY RewardsFacts
    <2>2. \E i \in naming : \A j \in naming : j <= i
      BY <1>3, <2>1, LastPosition
    <2>3. last \in naming
      BY <2>2
    <2> HIDE DEF last
    <2>4. Named(r, t) = r[last].amount /\ r[last].amount \in Nat
      BY <1>1, <1>3, <2>3, RewardsFacts
    <2>5. Named(r, t) > 0 => Named(r, t) = Sent(funds, t)
      BY <1>3, <2>3, <2>4 DEF Paid, Sent
    <2>6. QED
      BY <1>2, <1>3, <2>3, <2>4, <2>5
  <1>4. CASE ~(t \in Natives /\ naming # {})
    <2>1. Named(r, t) = 0
      BY <1>1, <1>4
    <2>2. QED
      BY <1>2, <1>4, <2>1
  <1>5. QED
    BY <1>3, <1>4

-----------------------------------------------------------------------------
(* The accounts of a compound *)

\* The pools before a compound are pools of the pair; external.
PoolsAreBacked == \A type \in PairTypes : \A p \in Pools(type) : Backed(p)

\* OptimalSale, PoolAfter and CompoundSimulation of a given pool and market.
SaleAt(p, x, y) ==
    [t \in {A, B} |->
        IF t = A /\ x * p.b > y * p.a THEN Sale(x, y, p.a, p.b, Commission)
        ELSE IF t = B /\ x * p.b < y * p.a THEN Sale(y, x, p.b, p.a, Commission)
        ELSE NoSale]

PoolWith(p, sale) ==
    [p EXCEPT !.a = @ + sale[A].sold - sale[B].returned,
              !.b = @ + sale[B].sold - sale[A].returned]

SimulationAt(type, p, at, rewards) ==
    LET x    == RewardsIn(at, rewards, A)
        y    == RewardsIn(at, rewards, B)
        sale == IF type = "Stable" THEN [t \in {A, B} |-> NoSale] ELSE SaleAt(p, x, y)
    IN  [ok |-> /\ type # "Custom"
                /\ \A i \in DOMAIN rewards :
                      LET t == rewards[i].info
                      IN  RewardAsset(t) \in {A, B} /\ (t \in DOMAIN Routes => OnRoute(t)),
         sale |-> sale,
         lp_amount |->
            IF type = "Stable" /\ p.total > 0 THEN StableShare(x, y, p, Leverage)
            ELSE IF type = "Stable" THEN ProvideShare(x, y, p)
            ELSE ProvideShare(x - sale[A].sold + sale[B].returned,
                              y - sale[B].sold + sale[A].returned, PoolWith(p, sale))]

\* What the balances of a transaction x are to be compared with, what its
\* rewards bring, what optimal_swap sells of them, and what is left then.
Prev(x, t) == (x.undo.held[t] + Sent(x.funds, t)) - Named(x.rewards, t)

Brought(x, t) == RewardsIn(x.undo.market, x.rewards, t)

SaleMade(type, x) ==
    IF type = "Stable" THEN [t \in {A, B} |-> NoSale]
    ELSE SaleAt(x.undo.pool, Brought(x, A), Brought(x, B))

Left(type, x, t) ==
    LET s == SaleMade(type, x)
    IN  IF t = A THEN Brought(x, A) - s[A].sold + s[B].returned
        ELSE Brought(x, B) - s[B].sold + s[A].returned

\* The messages of a compound.
RewardsMessage(r, h) == [NoMessage EXCEPT !.rewards = r, !.handled = h]

SwapMessage == [NoMessage EXCEPT !.type = "OptimalSwap"]

PairMessage(t, amount) ==
    [NoMessage EXCEPT !.type = "PairSwap", !.offer = t, !.amount = amount]

ProvideMessage(x) ==
    [NoMessage EXCEPT !.type = "ProvideLiquidity",
                      !.prev_balances = [t \in {A, B} |-> Prev(x, t)]]

\* Of a native what has come and is named by a reward that is still to be
\* handled; h of them are done.
Awaited(x, h, t) ==
    IF /\ t \in Natives
       /\ \E i \in DOMAIN x.rewards :
             i > h /\ x.rewards[i].info = t /\ x.rewards[i].amount > 0
    THEN Sent(x.funds, t) ELSE 0

\* Of a token other than the pair's there is what was there before.
Kept(b, x, h) ==
    \A t \in Tokens \ {A, B} :
        ~SoldTwice(x.rewards, t) => b[t] >= x.undo.held[t] + Awaited(x, h, t)

\* Of the pair's assets there is what the simulation says there will be, but
\* for what is still to come, and the pairs that will be met have not moved.
Books(b, p, at, x, h) ==
    /\ p = x.undo.pool
    /\ \A t \in {A, B} :
          b[t] + Ahead(x.undo.market, x.rewards, h, t) = Brought(x, t) + Awaited(x, h, t)
    /\ \A i \in DOMAIN x.rewards :
          i > h /\ x.rewards[i].info \in DOMAIN Routes =>
             \A pair \in RoutePairs(x.rewards[i].info) : at[pair] = x.undo.market[pair]

\* Foreseen of the transaction x.
ForeseenIn(x) ==
    /\ x.simulation.ok /\ ~x.no_swap
    /\ PairsMetOnce(x.rewards) /\ NativesNamedOnce(x.rewards)
    /\ \A t \in {A, B} : x.undo.held[t] + Sent(x.funds, t) = Named(x.rewards, t)

Begun(type, x) ==
    /\ x # NoTx
    /\ x.undo.held \in [Tokens -> Nat] /\ Backed(x.undo.pool)
    /\ x.undo.market \in MarketStates
    /\ x.rewards \in Rewards /\ x.funds \in Funds /\ Paid(x.rewards, x.funds)
    /\ x.no_swap \in BOOLEAN
    /\ x.simulation = SimulationAt(type, x.undo.pool, x.undo.market, x.rewards)

\* Some of the rewards are still to be handled.
Paying(b, p, at, q, x) ==
    \E h \in Nat :
        /\ h < Len(x.rewards)
        /\ q = IF x.no_swap THEN <<RewardsMessage(x.rewards, h), ProvideMessage(x)>>
               ELSE <<RewardsMessage(x.rewards, h), SwapMessage, ProvideMessage(x)>>
        /\ Kept(b, x, h)
        /\ ForeseenIn(x) => Books(b, p, at, x, h)

\* All have been.
Handled(b, p, x) ==
    /\ \A t \in Tokens \ {A, B} : ~SoldTwice(x.rewards, t) => b[t] >= x.undo.held[t]
    /\ ForeseenIn(x) => p = x.undo.pool /\ b[A] = Brought(x, A) /\ b[B] = Brought(x, B)

Ready(b, p, q, x) ==
    /\ q = IF x.no_swap THEN <<ProvideMessage(x)>> ELSE <<SwapMessage, ProvideMessage(x)>>
    /\ Handled(b, p, x)

\* The sale has been decided on.
Selling(type, b, p, q, x) ==
    /\ type # "Stable" /\ ~x.no_swap
    /\ \E t \in {A, B} :
          /\ SaleAt(p, b[A], b[B])[t].sold > 0
          /\ q = <<PairMessage(t, SaleAt(p, b[A], b[B])[t].sold), ProvideMessage(x)>>
    /\ Handled(b, p, x)

\* It has been made, or there was none: the pool is as the simulation has it
\* but for the maker's part of the commission.
Sold(type, b, p, fee, q, x) ==
    /\ ~x.no_swap
    /\ q = <<ProvideMessage(x)>>
    /\ \A t \in Tokens \ {A, B} : ~SoldTwice(x.rewards, t) => b[t] >= x.undo.held[t]
    /\ ForeseenIn(x) =>
          LET s == SaleMade(type, x)
              w == PoolWith(x.undo.pool, s)
          IN  /\ b[A] = Left(type, x, A) /\ b[B] = Left(type, x, B)
              /\ p.total = x.undo.pool.total /\ p.a <= w.a /\ p.b <= w.b
              /\ fee = 0 \/ (s[A].sold = 0 /\ s[B].sold = 0) => p = w

\* How far a transaction has come.
Accounts(type, b, p, fee, at, q, x) ==
    /\ type \in PairTypes
    /\ b \in [Tokens -> Nat]
    /\ Backed(p)
    /\ fee \in MakerFees
    /\ at \in MarketStates
    /\ \/ x = NoTx /\ q = <<>>
       \/ /\ Begun(type, x)
          /\ \/ Paying(b, p, at, q, x) \/ Ready(b, p, q, x)
             \/ Selling(type, b, p, q, x) \/ Sold(type, b, p, fee, q, x)

\* The inductive invariant.
IInv == Accounts(pair_type, held, pool, maker_fee, market, queue, tx)

\* The operators of the module are those of its pool and market.
LEMMA AtPool ==
    /\ \A x, y : OptimalSale(x, y) = SaleAt(pool, x, y)
    /\ \A sale : PoolAfter(sale) = PoolWith(pool, sale)
    /\ \A rewards : CompoundSimulation(rewards) = SimulationAt(pair_type, pool, market, rewards)
    /\ Foreseen <=> ForeseenIn(tx)
  <1>1. \A x, y : OptimalSale(x, y) = SaleAt(pool, x, y)
    BY DEF OptimalSale, SaleAt
  <1>2. \A sale : PoolAfter(sale) = PoolWith(pool, sale)
    BY DEF PoolAfter, PoolWith
  <1>3. \A rewards :
           CompoundSimulation(rewards) = SimulationAt(pair_type, pool, market, rewards)
    BY <1>1, <1>2, Zenon DEF CompoundSimulation, SimulationAt
  <1>4. Foreseen <=> ForeseenIn(tx)
    BY DEF Foreseen, ForeseenIn
  <1>5. QED
    BY <1>1, <1>2, <1>3, <1>4

\* A pair without commission returns no less, and what the maker gets is of
\* the difference: the reserve covers both.
LEMMA MakerPartBounds ==
    ASSUME NEW offer \in Nat, NEW ask \in Nat, NEW sold \in Nat \ {0},
           NEW fee \in 0 .. COMMISSION_DENOM
    PROVE  LET out  == Simulate(offer, ask, sold, Commission)
               part == MulRatio(Simulate(offer, ask, sold, 0) - out, fee, COMMISSION_DENOM)
           IN  /\ part \in Nat /\ out \in Nat
               /\ out + part <= ask
               /\ offer > 0 /\ ask > 0 => out + part < ask
               /\ fee = 0 => part = 0
  <1> DEFINE all  == Simulate(offer, ask, sold, 0)
             out  == Simulate(offer, ask, sold, Commission)
             part == MulRatio(all - out, fee, COMMISSION_DENOM)
  <1>1. COMMISSION_DENOM \in Nat \ {0} /\ Commission \in 0 .. COMMISSION_DENOM - 1
    BY PoolMathAssumption, CompoundAssumption
  <1>2. 0 \in 0 .. COMMISSION_DENOM - 1
    BY <1>1
  <1>3. all \in Nat /\ all <= ask /\ (offer > 0 /\ ask > 0 => all < ask)
    BY <1>2, SimulateBounds
  <1>4. out \in Nat
    BY <1>1, SimulateBounds
  <1>5. out <= all
    <2> DEFINE r == ask - MulRatioCeil(offer, ask, offer + sold)
    <2>1. all = r - MulRatio(r, 0, COMMISSION_DENOM)
      BY DEF Simulate
    <2>2. out = r - MulRatio(r, Commission, COMMISSION_DENOM)
      BY DEF Simulate
    <2>3. r \in Int
      <3>1. offer + sold \in Nat \ {0}
        OBVIOUS
      <3>2. MulRatioCeil(offer, ask, offer + sold) \in Nat
        BY <3>1, MulRatioCeilBounds
      <3>3. QED
        BY <3>2
    <2> HIDE DEF r, all, out
    <2>4. MulRatio(r, 0, COMMISSION_DENOM) = 0
      <3>1. r * 0 = 0
        BY <2>3
      <3>2. 0 \div COMMISSION_DENOM = 0
        BY <1>1
      <3>3. QED
        BY <3>1, <3>2 DEF MulRatio
    <2>5. r \in Nat
      BY <1>3, <2>1, <2>3, <2>4
    <2>6. MulRatio(r, Commission, COMMISSION_DENOM) \in Nat
      BY <1>1, <2>5, MulRatioBounds
    <2>7. QED
      BY <2>1, <2>2, <2>4, <2>5, <2>6
  <1> HIDE DEF all, out
  <1>6. all - out \in Nat
    BY <1>3, <1>4, <1>5
  <1>7. fee \in Nat /\ fee <= COMMISSION_DENOM
    BY <1>1
  <1>8. part \in Nat /\ part <= all - out
    BY <1>1, <1>6, <1>7, MulRatioBounds, RatioAtMostOne
  <1>9. fee = 0 => part = 0
    <2>1. (all - out) * 0 = 0
      BY <1>6
    <2>2. 0 \div COMMISSION_DENOM = 0
      BY <1>1
    <2>3. QED
      BY <2>1, <2>2 DEF MulRatio
  <1> HIDE DEF part
  <1>10. out + part <= ask /\ (offer > 0 /\ ask > 0 => out + part < ask)
    BY <1>3, <1>4, <1>6, <1>8
  <1>11. QED
    BY <1>4, <1>8, <1>9, <1>10 DEF all, out, part

\* Of a pool with the same LP and no more of either asset an amount is worth no
\* less LP.
LEMMA ShareMonotone ==
    ASSUME NEW p, Backed(p), NEW w, Backed(w), p.total = w.total, p.a <= w.a, p.b <= w.b,
           NEW x \in Nat, NEW y \in Nat
    PROVE  ProvideShare(x, y, w) <= ProvideShare(x, y, p)
  <1>1. /\ p.a \in Nat /\ p.b \in Nat /\ w.a \in Nat /\ w.b \in Nat /\ p.total \in Nat
        /\ p.total > 0 => p.a > 0 /\ p.b > 0
    BY DEF Backed
  <1>2. CASE p.total = 0
    <2>1. ProvideShare(x, y, w) = Isqrt(x * y) /\ ProvideShare(x, y, p) = Isqrt(x * y)
      BY <1>2 DEF ProvideShare
    <2>2. x * y \in Nat
      OBVIOUS
    <2>3. Isqrt(x * y) \in Nat
      BY <2>2, IsqrtIsRoot
    <2>4. QED
      BY <2>1, <2>3
  <1>3. CASE p.total # 0
    <2>1. ASSUME NEW n \in Nat, NEW t \in Nat, NEW low \in Nat \ {0}, NEW high \in Nat, low <= high
          PROVE  /\ MulRatio(n, t, high) \in Nat /\ MulRatio(n, t, low) \in Nat
                 /\ MulRatio(n, t, high) <= MulRatio(n, t, low)
      <3> DEFINE q == MulRatio(n, t, high)
                 m == n * t
      <3>1. high \in Nat \ {0}
        BY <2>1
      <3>2. q \in Nat /\ high * q <= n * t /\ MulRatio(n, t, low) \in Nat
        BY <3>1, MulRatioBounds
      <3>3. m \in Nat
        OBVIOUS
      <3> HIDE DEF q
      <3>4. low * q <= high * q /\ low * q \in Nat /\ high * q \in Nat
        BY <2>1, <3>2, TimesMonotone
      <3>5. low * q <= m
        BY <3>2, <3>3, <3>4
      <3> HIDE DEF m
      <3>6. q <= m \div low
        BY <3>2, <3>3, <3>5, DivLargest
      <3>7. QED
        BY <3>2, <3>6 DEF MulRatio, q, m
    <2>2. p.a \in Nat \ {0} /\ p.b \in Nat \ {0}
      BY <1>1, <1>3
    <2>3. /\ MulRatio(x, p.total, w.a) \in Nat /\ MulRatio(x, p.total, p.a) \in Nat
          /\ MulRatio(x, p.total, w.a) <= MulRatio(x, p.total, p.a)
      BY <1>1, <2>1, <2>2
    <2>4. /\ MulRatio(y, p.total, w.b) \in Nat /\ MulRatio(y, p.total, p.b) \in Nat
          /\ MulRatio(y, p.total, w.b) <= MulRatio(y, p.total, p.b)
      BY <1>1, <2>1, <2>2
    <2>5. /\ ProvideShare(x, y, w) = AtMost(MulRatio(x, p.total, w.a), MulRatio(y, p.total, w.b))
          /\ ProvideShare(x, y, p) = AtMost(MulRatio(x, p.total, p.a), MulRatio(y, p.total, p.b))
      BY <1>3 DEF ProvideShare
    <2>6. QED
      BY <2>3, <2>4, <2>5 DEF AtMost
  <1>4. QED
    BY <1>2, <1>3

\* A sale at a pool: of one of the two assets at most, no more of it than
\* there is, for what the pair pays.
LEMMA SaleAtFacts ==
    ASSUME NEW p, Backed(p), NEW x \in Nat, NEW y \in Nat
    PROVE  LET s == SaleAt(p, x, y)
           IN  /\ s[A] \in [sold: Nat, returned: Nat] /\ s[B] \in [sold: Nat, returned: Nat]
               /\ s[A].sold <= x /\ s[A].returned <= p.b
               /\ s[B].sold <= y /\ s[B].returned <= p.a
               /\ s[A].sold = 0 \/ s[B].sold = 0
               /\ s[A].sold = 0 => s[A].returned = 0
               /\ s[B].sold = 0 => s[B].returned = 0
               /\ s[A].sold > 0 => s[A].returned = Simulate(p.a, p.b, s[A].sold, Commission)
               /\ s[B].sold > 0 => s[B].returned = Simulate(p.b, p.a, s[B].sold, Commission)
               /\ p.total > 0 => s[A].returned < p.b /\ s[B].returned < p.a
  <1> DEFINE s == SaleAt(p, x, y)
  <1>1. A # B /\ Commission \in 0 .. COMMISSION_DENOM - 1
    BY CompoundAssumption
  <1>2. /\ p.a \in Nat /\ p.b \in Nat /\ p.total \in Nat
        /\ p.total > 0 => p.a > 0 /\ p.b > 0
    BY DEF Backed
  <1>3. x * p.b \in Nat /\ y * p.a \in Nat
    BY <1>2
  <1>4. /\ s[A] = IF x * p.b > y * p.a THEN Sale(x, y, p.a, p.b, Commission) ELSE NoSale
        /\ s[B] = IF x * p.b < y * p.a THEN Sale(y, x, p.b, p.a, Commission) ELSE NoSale
    BY <1>1, Zenon DEF SaleAt
  <1> HIDE DEF s
  <1>5. CASE x * p.b > y * p.a
    <2>1. y * p.a < x * p.b
      BY <1>3, <1>5
    <2> DEFINE sale == Sale(x, y, p.a, p.b, Commission)
    <2>2. /\ sale \in [sold: Nat, returned: Nat]
          /\ sale.sold <= x /\ sale.returned <= p.b
          /\ sale.sold = 0 <=> sale.returned = 0
          /\ sale.sold > 0 => sale.returned = Simulate(p.a, p.b, sale.sold, Commission)
          /\ p.a > 0 => sale.returned < p.b
      BY <1>1, <1>2, <2>1, SaleBounds
    <2>3. s[A] = sale /\ s[B] = NoSale
      BY <1>3, <1>4, <1>5
    <2> HIDE DEF sale
    <2>4. QED
      BY <1>2, <2>2, <2>3 DEF NoSale, s
  <1>6. CASE x * p.b < y * p.a
    <2> DEFINE sale == Sale(y, x, p.b, p.a, Commission)
    <2>2. /\ sale \in [sold: Nat, returned: Nat]
          /\ sale.sold <= y /\ sale.returned <= p.a
          /\ sale.sold = 0 <=> sale.returned = 0
          /\ sale.sold > 0 => sale.returned = Simulate(p.b, p.a, sale.sold, Commission)
          /\ p.b > 0 => sale.returned < p.a
      BY <1>1, <1>2, <1>6, SaleBounds
    <2>3. s[B] = sale /\ s[A] = NoSale
      BY <1>3, <1>4, <1>6
    <2> HIDE DEF sale
    <2>4. QED
      BY <1>2, <2>2, <2>3 DEF NoSale, s
  <1>7. CASE x * p.b = y * p.a
    <2>1. s[A] = NoSale /\ s[B] = NoSale
      BY <1>3, <1>4, <1>7
    <2>2. QED
      BY <1>2, <2>1 DEF NoSale, s
  <1>8. QED
    BY <1>3, <1>5, <1>6, <1>7

\* A message before two others.
LEMMA ThreeMessages ==
    ASSUME NEW x, NEW y, NEW z
    PROVE  <<x>> \o <<y, z>> = <<x, y, z>>
  <1> DEFINE S == {x, y, z}
             s == <<x>> \o <<y, z>>
  <1>1. <<x>> \in Seq(S) /\ <<y, z>> \in Seq(S) /\ <<x, y, z>> \in Seq(S)
    OBVIOUS
  <1> HIDE DEF S
  <1>2. /\ s \in Seq(S) /\ Len(s) = 1 + 2
        /\ \A i \in 1 .. 1 + 2 : s[i] = IF i <= 1 THEN <<x>>[i] ELSE <<y, z>>[i - 1]
    BY <1>1, ConcatProperties
  <1> HIDE DEF s
  <1>3. s[1] = x /\ s[2] = y /\ s[3] = z /\ Len(s) = 3
    BY <1>2
  <1>4. \A i \in 1 .. Len(s) : s[i] = <<x, y, z>>[i]
    BY <1>3
  <1>5. s = <<x, y, z>>
    BY <1>1, <1>2, <1>3, <1>4, SeqEqual
  <1>6. QED
    BY <1>5 DEF s

\* Queues of up to three messages.
LEMMA QueueFacts ==
    ASSUME NEW x, NEW y, NEW z
    PROVE  /\ Head(<<x>>) = x /\ Head(<<x, y>>) = x /\ Head(<<x, y, z>>) = x
           /\ Tail(<<x>>) = <<>> /\ Tail(<<x, y>>) = <<y>> /\ Tail(<<x, y, z>>) = <<y, z>>
           /\ <<x>> \o <<y>> = <<x, y>> /\ <<x>> \o <<y, z>> = <<x, y, z>>
           /\ <<>> \o <<x>> = <<x>> /\ <<>> \o <<x, y>> = <<x, y>>
           /\ <<x>> # <<>> /\ <<x, y>> # <<>> /\ <<x, y, z>> # <<>>
  <1> DEFINE S == {x, y, z}
  <1>1. <<x>> \in Seq(S) /\ <<y>> \in Seq(S) /\ <<x, y>> \in Seq(S) /\ <<y, z>> \in Seq(S)
        /\ <<x, y, z>> \in Seq(S)
    OBVIOUS
  <1> HIDE DEF S
  <1>2. <<x>> \o <<y>> = <<x, y>>
    <2> DEFINE s == <<x>> \o <<y>>
    <2>1. /\ s \in Seq(S) /\ Len(s) = 1 + 1
          /\ \A i \in 1 .. 1 + 1 : s[i] = IF i <= 1 THEN <<x>>[i] ELSE <<y>>[i - 1]
      BY <1>1, ConcatProperties
    <2> HIDE DEF s
    <2>2. s[1] = x /\ s[2] = y /\ Len(s) = 2
      BY <2>1
    <2>3. \A i \in 1 .. Len(s) : s[i] = <<x, y>>[i]
      BY <2>2
    <2>4. s = <<x, y>>
      BY <1>1, <2>1, <2>2, <2>3, SeqEqual
    <2>5. QED
      BY <2>4 DEF s
  <1>3. <<x>> \o <<y, z>> = <<x, y, z>>
    BY ThreeMessages
  <1>4. QED
    BY <1>2, <1>3

\* What of a native is awaited is an amount, and none of it once all the
\* rewards are handled.
LEMMA AwaitedType ==
    ASSUME NEW x, x.rewards \in Rewards, x.funds \in Funds, Paid(x.rewards, x.funds),
           NEW h \in Nat, NEW t \in Tokens
    PROVE  /\ Awaited(x, h, t) \in Nat /\ Awaited(x, h, t) <= Sent(x.funds, t)
           /\ Awaited(x, Len(x.rewards), t) = 0
  <1>1. Sent(x.funds, t) \in Nat
    BY NamedFacts
  <1>2. \A i \in DOMAIN x.rewards : ~(i > Len(x.rewards))
    BY RewardsFacts
  <1>3. QED
    BY <1>1, <1>2 DEF Awaited

\* If the next reward is of t, no other is, and it is native, its amount is
\* what is awaited; what is awaited of other tokens stays.
LEMMA AwaitedStep ==
    ASSUME NEW x, x.rewards \in Rewards, x.funds \in Funds, Paid(x.rewards, x.funds),
           NEW h \in Nat, h < Len(x.rewards), NEW t \in Tokens
    PROVE  LET u == x.rewards[h + 1].info
               m == x.rewards[h + 1].amount
           IN  /\ Awaited(x, h + 1, t) <= Awaited(x, h, t)
               /\ t # u => Awaited(x, h + 1, t) = Awaited(x, h, t)
               /\ t \notin Natives => Awaited(x, h + 1, t) = 0 /\ Awaited(x, h, t) = 0
               /\ /\ t = u /\ t \in Natives
                  /\ \A i \in DOMAIN x.rewards : i # h + 1 => x.rewards[i].info # t
                  => Awaited(x, h + 1, t) = 0 /\ Awaited(x, h, t) = m
  <1> DEFINE r == x.rewards
             k == h + 1
             u == r[k].info
             m == r[k].amount
             later(n) == \E i \in DOMAIN r : i > n /\ r[i].info = t /\ r[i].amount > 0
             sent == Sent(x.funds, t)
  <1>1. DOMAIN r = 1 .. Len(r) /\ Len(r) \in Nat /\ m \in Nat /\ k \in DOMAIN r
    <2>1. DOMAIN r = 1 .. Len(r) /\ Len(r) \in Nat
      BY RewardsFacts
    <2>2. k \in DOMAIN r
      BY <2>1
    <2>3. QED
      BY <2>1, <2>2, RewardsFacts
  <1>2. sent \in Nat
    BY NamedFacts
  <1>3. /\ Awaited(x, h, t) = IF t \in Natives /\ later(h) THEN sent ELSE 0
        /\ Awaited(x, k, t) = IF t \in Natives /\ later(k) THEN sent ELSE 0
    BY DEF Awaited
  <1>4. \A i \in DOMAIN r : i > h <=> (i = k \/ i > k)
    BY <1>1
  <1>5. ~(k > k) /\ \A i \in DOMAIN r : i > k => i # k
    BY <1>1
  <1>6. t \in Natives /\ m > 0 /\ t = u => m = sent
    BY <1>1 DEF Paid, Sent
  <1> HIDE DEF r, k, sent
  <1>7. later(k) => later(h)
    BY <1>4
  <1>8. t # u => (later(h) <=> later(k))
    BY <1>4
  <1>9. ASSUME t = u, t \in Natives, \A i \in DOMAIN r : i # k => r[i].info # t
        PROVE  ~later(k) /\ (later(h) <=> m > 0)
    BY <1>1, <1>4, <1>5, <1>9
  <1>10. Awaited(x, k, t) <= Awaited(x, h, t)
    BY <1>2, <1>3, <1>7
  <1>11. t # u => Awaited(x, k, t) = Awaited(x, h, t)
    BY <1>3, <1>8
  <1>12. t \notin Natives => Awaited(x, k, t) = 0 /\ Awaited(x, h, t) = 0
    BY <1>3
  <1>13. ASSUME t = u, t \in Natives, \A i \in DOMAIN r : i # k => r[i].info # t
         PROVE  Awaited(x, k, t) = 0 /\ Awaited(x, h, t) = m
    <2>1. ~later(k) /\ (later(h) <=> m > 0)
      BY <1>9, <1>13
    <2>2. CASE m > 0
      BY <1>3, <1>6, <1>13, <2>1, <2>2
    <2>3. CASE ~(m > 0)
      <3>1. m = 0
        BY <1>1, <2>3
      <3>2. QED
        BY <1>3, <1>13, <2>1, <2>3, <3>1
    <2>4. QED
      BY <2>2, <2>3
  <1>14. QED
    BY <1>10, <1>11, <1>12, <1>13 DEF r, k

\* What can be foreseen is all that there is at first, and it is awaited.
LEMMA AwaitedFirst ==
    ASSUME NEW x, x.rewards \in Rewards, x.funds \in Funds, Paid(x.rewards, x.funds),
           x.undo.held \in [Tokens -> Nat], NEW t \in {A, B},
           x.undo.held[t] + Sent(x.funds, t) = Named(x.rewards, t)
    PROVE  x.undo.held[t] + Sent(x.funds, t) = Awaited(x, 0, t)
  <1> DEFINE r == x.rewards
             old == x.undo.held[t]
             sent == Sent(x.funds, t)
             named == Named(r, t)
  <1>1. t \in Tokens
    BY DEF Tokens
  <1>2. old \in Nat /\ old + sent = named
    BY <1>1
  <1>3. /\ sent \in Nat /\ named \in Nat
        /\ \/ named = 0
           \/ t \in Natives /\ \E i \in DOMAIN r : r[i].info = t /\ named = r[i].amount
    BY <1>1, NamedFacts
  <1>4. DOMAIN r = 1 .. Len(r)
    BY RewardsFacts
  <1>5. Awaited(x, 0, t)
          = IF t \in Natives /\ \E i \in DOMAIN r : i > 0 /\ r[i].info = t /\ r[i].amount > 0
            THEN sent ELSE 0
    BY DEF Awaited
  <1>6. \A i \in DOMAIN r :
           t \in Natives /\ r[i].info = t /\ r[i].amount > 0 => r[i].amount = sent
    BY DEF Paid, Sent
  <1> HIDE DEF r, old, sent, named
  <1>7. CASE named = 0
    BY <1>2, <1>3, <1>5, <1>7 DEF old, sent
  <1>8. CASE named # 0
    <2>1. PICK i \in DOMAIN r : r[i].info = t /\ named = r[i].amount
      BY <1>3, <1>8
    <2>2. i > 0 /\ r[i].amount > 0 /\ t \in Natives
      BY <1>3, <1>4, <1>8, <2>1
    <2>3. named = sent
      BY <1>6, <2>1, <2>2
    <2>4. Awaited(x, 0, t) = sent
      BY <1>5, <2>1, <2>2
    <2>5. QED
      BY <1>2, <1>3, <2>3, <2>4 DEF old, sent
  <1>9. QED
    BY <1>7, <1>8

\* With no reward left the accounts are those of all handled.
LEMMA AllHandled ==
    ASSUME ReturnsAreAmounts, NEW type, NEW x, Begun(type, x), NEW b \in [Tokens -> Nat], NEW p, NEW at,
           Kept(b, x, Len(x.rewards)),
           ForeseenIn(x) => Books(b, p, at, x, Len(x.rewards))
    PROVE  Handled(b, p, x)
  <1> DEFINE r == x.rewards
             n == Len(r)
  <1>1. /\ r \in Rewards /\ x.funds \in Funds /\ Paid(r, x.funds)
        /\ x.undo.held \in [Tokens -> Nat]
    BY DEF Begun
  <1>2. n \in Nat
    BY <1>1, RewardsFacts
  <1>3. \A t \in Tokens : Awaited(x, n, t) = 0
    BY <1>1, AwaitedType
  <1>4. ASSUME NEW t \in Tokens \ {A, B}, ~SoldTwice(r, t) PROVE b[t] >= x.undo.held[t]
    <2>1. b[t] >= x.undo.held[t] + Awaited(x, n, t)
      BY <1>4 DEF Kept
    <2>2. x.undo.held[t] \in Nat
      BY <1>1
    <2>3. QED
      BY <1>3, <2>1, <2>2
  <1>5. ASSUME ForeseenIn(x), NEW t \in {A, B} PROVE p = x.undo.pool /\ b[t] = Brought(x, t)
    <2>1. /\ p = x.undo.pool
          /\ b[t] + Ahead(x.undo.market, r, n, t) = Brought(x, t) + Awaited(x, n, t)
      BY <1>5 DEF Books
    <2>2. Ahead(x.undo.market, r, n, t) = 0
      BY <1>1, AheadOfNone
    <2>3. t \in Tokens
      BY DEF Tokens
    <2>4. b[t] \in Nat /\ Awaited(x, n, t) = 0
      BY <1>3, <2>3
    <2>5. b[t] + 0 = Brought(x, t) + 0
      BY <2>1, <2>2, <2>4
    <2>6. Brought(x, t) \in Nat
      <3>1. x.undo.market \in MarketStates
        BY DEF Begun
      <3>2. QED
        BY <1>1, <3>1, RewardsInType DEF Brought
    <2>7. QED
      BY <2>1, <2>4, <2>5, <2>6
  <1>6. QED
    BY <1>4, <1>5 DEF Handled

\* The call opens the accounts: nothing of the rewards has been handled.
LEMMA CompoundStep ==
    ASSUME ReturnsAreAmounts, PoolsAreBacked, IInv,
           NEW rewards \in Rewards, NEW funds \in Funds, NEW no_swap \in BOOLEAN,
           Compound(rewards, funds, no_swap)
    PROVE  IInv'
  <1> DEFINE x == [open |-> TRUE, undo |-> [held |-> held, pool |-> pool, market |-> market],
                   rewards |-> rewards, funds |-> funds, no_swap |-> no_swap,
                   simulation |-> CompoundSimulation(rewards)]
             b == [t \in Tokens |-> held[t] + Sent(funds, t)]
             n == Len(rewards)
             q == CompoundMessages(rewards, funds, no_swap)
             p == ProvideMessage(x)
  <1>1. /\ held' = b /\ queue' = q /\ tx' = x
        /\ pair_type' = pair_type /\ pool' = pool /\ maker_fee' = maker_fee /\ market' = market
        /\ Paid(rewards, funds)
    BY DEF Compound
  <1>2. /\ held \in [Tokens -> Nat] /\ Backed(pool) /\ pair_type \in PairTypes
        /\ maker_fee \in MakerFees /\ market \in MarketStates
    BY DEF IInv, Accounts
  <1>3. /\ x.undo.held = held /\ x.undo.pool = pool /\ x.undo.market = market
        /\ x.rewards = rewards /\ x.funds = funds /\ x.no_swap = no_swap
        /\ x.simulation = CompoundSimulation(rewards) /\ x.open = TRUE
    OBVIOUS
  <1>4. \A t \in Tokens : b[t] = held[t] + Sent(funds, t)
    OBVIOUS
  <1>5. q = (IF rewards = <<>> THEN <<>> ELSE <<RewardsMessage(rewards, 0)>>)
            \o (IF no_swap THEN <<>> ELSE <<SwapMessage>>) \o <<p>>
    <2>1. [t \in {A, B} |-> Prev(x, t)] = [t \in {A, B} |-> PrevBalances(rewards, funds, t)]
      BY DEF Prev, PrevBalances
    <2>2. RewardsMessage(rewards, 0) = [NoMessage EXCEPT !.rewards = rewards]
      <3> DEFINE zero == [t \in {A, B} |-> 0]
      <3>1. NoMessage = [type |-> "Rewards", rewards |-> <<>>, handled |-> 0, offer |-> A,
                         amount |-> 0, prev_balances |-> zero]
        BY DEF NoMessage
      <3> HIDE DEF zero
      <3>2. [NoMessage EXCEPT !.rewards = rewards]
              = [type |-> "Rewards", rewards |-> rewards, handled |-> 0, offer |-> A,
                 amount |-> 0, prev_balances |-> zero]
        BY <3>1
      <3>3. RewardsMessage(rewards, 0)
              = [type |-> "Rewards", rewards |-> rewards, handled |-> 0, offer |-> A,
                 amount |-> 0, prev_balances |-> zero]
        <4> DEFINE none == [type |-> "Rewards", rewards |-> <<>>, handled |-> 0, offer |-> A,
                            amount |-> 0, prev_balances |-> zero]
        <4>1. RewardsMessage(rewards, 0) = [none EXCEPT !.rewards = rewards, !.handled = 0]
          BY <3>1 DEF RewardsMessage
        <4>2. QED
          BY <4>1
      <3>4. QED
        BY <3>2, <3>3
    <2>3. p = [NoMessage EXCEPT !.type = "ProvideLiquidity",
                   !.prev_balances = [t \in {A, B} |-> PrevBalances(rewards, funds, t)]]
      BY <2>1 DEF ProvideMessage
    <2> DEFINE first == [NoMessage EXCEPT !.rewards = rewards]
    <2>4. q = (IF rewards = <<>> THEN <<>> ELSE <<first>>)
              \o (IF no_swap THEN <<>> ELSE <<SwapMessage>>) \o <<p>>
      <3> DEFINE last == [NoMessage EXCEPT !.type = "ProvideLiquidity",
                   !.prev_balances = [t \in {A, B} |-> PrevBalances(rewards, funds, t)]]
      <3>1. q = (IF rewards = <<>> THEN <<>> ELSE <<first>>)
                \o (IF no_swap THEN <<>> ELSE <<SwapMessage>>) \o <<last>>
        BY DEF CompoundMessages, SwapMessage
      <3>2. p = last
        BY <2>3
      <3> HIDE DEF p, last, first, q
      <3>3. QED
        BY <3>1, <3>2
    <2>5. first = RewardsMessage(rewards, 0)
      BY <2>2
    <2> HIDE DEF p, first, q
    <2>6. QED
      BY <2>4, <2>5
  <1> HIDE DEF x, b, q, p
  <1>6. Begun(pair_type, x)
    <2>1. x # NoTx
      BY <1>3 DEF NoTx
    <2>2. x.simulation = SimulationAt(pair_type, pool, market, rewards)
      BY <1>3, AtPool
    <2>3. QED
      BY <1>1, <1>2, <1>3, <2>1, <2>2 DEF Begun
  <1>7. n \in Nat /\ (rewards = <<>> <=> n = 0)
    BY RewardsFacts
  <1>8. ASSUME NEW t \in Tokens
        PROVE  /\ Sent(funds, t) \in Nat /\ held[t] \in Nat
               /\ Awaited(x, 0, t) \in Nat /\ Awaited(x, 0, t) <= Sent(funds, t)
    BY <1>1, <1>2, <1>3, NamedFacts, AwaitedType
  <1>9. b \in [Tokens -> Nat]
    BY <1>8 DEF b
  <1>10. Kept(b, x, 0)
    <2>1. ASSUME NEW t \in Tokens PROVE b[t] >= x.undo.held[t] + Awaited(x, 0, t)
      BY <1>3, <1>4, <1>8
    <2>2. QED
      BY <2>1 DEF Kept
  <1>11. ASSUME ForeseenIn(x) PROVE Books(b, pool, market, x, 0)
    <2>1. ASSUME NEW t \in {A, B}
          PROVE  b[t] + Ahead(x.undo.market, x.rewards, 0, t) = Brought(x, t) + Awaited(x, 0, t)
      <3>1. t \in Tokens
        BY DEF Tokens
      <3>2. x.undo.held[t] + Sent(x.funds, t) = Named(x.rewards, t)
        BY <1>11 DEF ForeseenIn
      <3>3. x.undo.held[t] + Sent(x.funds, t) = Awaited(x, 0, t)
        BY <1>1, <1>2, <1>3, <3>2, AwaitedFirst
      <3>4. b[t] = Awaited(x, 0, t) /\ Awaited(x, 0, t) \in Nat
        BY <1>3, <1>4, <1>8, <3>1, <3>3
      <3>5. Ahead(x.undo.market, x.rewards, 0, t) = Brought(x, t) /\ Brought(x, t) \in Nat
        BY <1>2, <1>3, AheadOfAll, RewardsInType DEF Brought
      <3>6. QED
        BY <3>4, <3>5
    <2>2. QED
      BY <1>3, <2>1 DEF Books
  <1>12. Paying(b, pool, market, q, x) \/ Ready(b, pool, q, x)
    <2>1. CASE n = 0
      <3>1. q = IF no_swap THEN <<p>> ELSE <<SwapMessage, p>>
        BY <1>5, <1>7, <2>1, QueueFacts
      <3>2. Handled(b, pool, x)
        <4>1. Kept(b, x, Len(x.rewards))
          BY <1>3, <1>10, <2>1
        <4>2. ForeseenIn(x) => Books(b, pool, market, x, Len(x.rewards))
          BY <1>3, <1>11, <2>1
        <4>3. QED
          BY <1>6, <1>9, <4>1, <4>2, AllHandled
      <3>3. QED
        BY <1>3, <3>1, <3>2 DEF Ready, p
    <2>2. CASE n # 0
      <3>1. q = IF no_swap THEN <<RewardsMessage(rewards, 0), p>>
                ELSE <<RewardsMessage(rewards, 0), SwapMessage, p>>
        BY <1>5, <1>7, <2>2, QueueFacts
      <3>2. 0 \in Nat /\ 0 < Len(x.rewards)
        BY <1>3, <1>7, <2>2
      <3>3. QED
        BY <1>3, <1>10, <1>11, <3>1, <3>2 DEF Paying, p
    <2>3. QED
      BY <2>1, <2>2
  <1>13. Accounts(pair_type, b, pool, maker_fee, market, q, x)
    BY <1>2, <1>6, <1>9, <1>12 DEF Accounts
  <1>14. QED
    BY <1>1, <1>13 DEF IInv

\* The first message tells how far the transaction has come.
LEMMA PhaseOfHead ==
    ASSUME IInv, tx # NoTx
    PROVE  /\ Begun(pair_type, tx) /\ queue # <<>>
           /\ Head(queue).type = "Rewards" => Paying(held, pool, market, queue, tx)
           /\ Head(queue).type = "OptimalSwap" => Ready(held, pool, queue, tx) /\ ~tx.no_swap
           /\ Head(queue).type = "PairSwap" => Selling(pair_type, held, pool, queue, tx)
           /\ Head(queue).type = "ProvideLiquidity" =>
                 \/ Sold(pair_type, held, pool, maker_fee, queue, tx)
                 \/ Ready(held, pool, queue, tx) /\ tx.no_swap
  <1> DEFINE P == Paying(held, pool, market, queue, tx)
             R == Ready(held, pool, queue, tx)
             S == Selling(pair_type, held, pool, queue, tx)
             D == Sold(pair_type, held, pool, maker_fee, queue, tx)
             p == ProvideMessage(tx)
  <1>1. Begun(pair_type, tx) /\ (P \/ R \/ S \/ D)
    BY DEF IInv, Accounts
  <1>2. tx.no_swap \in BOOLEAN
    BY <1>1 DEF Begun
  <1>3. /\ \A r, h : RewardsMessage(r, h).type = "Rewards"
        /\ SwapMessage.type = "OptimalSwap"
        /\ \A t, amount : PairMessage(t, amount).type = "PairSwap"
        /\ p.type = "ProvideLiquidity"
    BY DEF RewardsMessage, SwapMessage, PairMessage, ProvideMessage, NoMessage
  <1> HIDE DEF P, R, S, D, p
  <1>4. CASE P
    <2>1. PICK h \in Nat :
              queue = IF tx.no_swap THEN <<RewardsMessage(tx.rewards, h), p>>
                      ELSE <<RewardsMessage(tx.rewards, h), SwapMessage, p>>
      BY <1>4 DEF Paying, P, p
    <2>2. Head(queue) = RewardsMessage(tx.rewards, h) /\ queue # <<>>
      BY <1>2, <2>1, QueueFacts
    <2>3. QED
      BY <1>1, <1>3, <1>4, <2>2 DEF P
  <1>5. CASE R
    <2>1. queue = IF tx.no_swap THEN <<p>> ELSE <<SwapMessage, p>>
      BY <1>5 DEF Ready, R, p
    <2>2. Head(queue) = (IF tx.no_swap THEN p ELSE SwapMessage) /\ queue # <<>>
      BY <1>2, <2>1, QueueFacts
    <2>3. QED
      BY <1>1, <1>2, <1>3, <1>5, <2>2 DEF R
  <1>6. CASE S
    <2>1. PICK t \in {A, B} :
              queue = <<PairMessage(t, SaleAt(pool, held[A], held[B])[t].sold), p>>
      BY <1>6 DEF Selling, S, p
    <2>2. Head(queue) = PairMessage(t, SaleAt(pool, held[A], held[B])[t].sold) /\ queue # <<>>
      BY <2>1, QueueFacts
    <2>3. QED
      BY <1>1, <1>3, <1>6, <2>2 DEF S
  <1>7. CASE D
    <2>1. queue = <<p>>
      BY <1>7 DEF Sold, D, p
    <2>2. Head(queue) = p /\ queue # <<>>
      BY <2>1, QueueFacts
    <2>3. QED
      BY <1>1, <1>3, <1>7, <2>2 DEF D
  <1>8. QED
    BY <1>1, <1>4, <1>5, <1>6, <1>7

\* A reward with a proxy becomes something else.
LEMMA RewardIsSold ==
    ASSUME NEW t \in DOMAIN Routes
    PROVE  RewardAsset(t) # t
  <1> DEFINE route == Routes[t]
             n == Len(route)
  <1>1. DOMAIN route = 1 .. n /\ n \in Nat /\ n > 1
        /\ \A i, j \in DOMAIN route : route[i] = route[j] => i = j
    BY CompoundAssumption DEF ValidRoute, MAX_ASSETS
  <1>2. RewardAsset(t) = RouteFrom(t)[n]
    BY DEF RewardAsset
  <1>3. 1 \in DOMAIN route /\ n \in DOMAIN route /\ n # 1
    BY <1>1
  <1>4. CASE route[1] = t
    <2>1. RouteFrom(t)[n] = route[n]
      BY <1>4 DEF RouteFrom
    <2> HIDE DEF n, route
    <2>2. QED
      BY <1>1, <1>2, <1>3, <1>4, <2>1
  <1>5. CASE route[1] # t
    <2>1. RouteFrom(t) = [i \in 1 .. n |-> route[n + 1 - i]]
      BY <1>1, <1>5 DEF RouteFrom, Reversed
    <2> HIDE DEF n, route
    <2>2. RouteFrom(t)[n] = route[n + 1 - n] /\ n + 1 - n = 1
      BY <1>1, <2>1
    <2>3. QED
      BY <1>2, <1>5, <2>2
  <1>6. QED
    BY <1>4, <1>5

\* What pulling and selling one reward does to the balances.
LEMMA BalancesStep ==
    ASSUME ReturnsAreAmounts, NEW b \in [Tokens -> Nat], NEW c, NEW at \in MarketStates,
           NEW u \in RewardTokens, NEW m \in Nat,
           LET pulled == [b EXCEPT ![u] = @ + IF u \in Natives THEN 0 ELSE m]
           IN  \/ u \notin DOMAIN Routes /\ c = pulled
               \/ /\ u \in DOMAIN Routes
                  /\ m \in 1 .. pulled[u]
                  /\ c = [pulled EXCEPT ![u] = @ - m,
                                        ![RewardAsset(u)] = @ + RouteReturn(at, u, m)]
    PROVE  /\ c \in [Tokens -> Nat]
           /\ \A t \in Tokens :
                 c[t] = b[t] + (IF RewardAsset(u) = t THEN RewardAmount(at, u, m) ELSE 0)
                             - (IF t = u /\ u \in Natives THEN m ELSE 0)
  <1> DEFINE pull == IF u \in Natives THEN 0 ELSE m
             pulled == [b EXCEPT ![u] = @ + pull]
             asset == RewardAsset(u)
             out == RewardAmount(at, u, m)
  <1>1. u \in Tokens /\ b[u] \in Nat
    BY DEF Tokens
  <1>2. pull \in Nat /\ (IF u \in Natives THEN pull = 0 ELSE pull = m)
    OBVIOUS
  <1>3. \/ u \notin DOMAIN Routes /\ c = pulled
        \/ /\ u \in DOMAIN Routes
           /\ m \in 1 .. pulled[u]
           /\ c = [pulled EXCEPT ![u] = @ - m, ![asset] = @ + RouteReturn(at, u, m)]
    OBVIOUS
  <1> HIDE DEF pull
  <1>4. pulled \in [Tokens -> Nat] /\ pulled[u] = b[u] + pull
        /\ \A t \in Tokens \ {u} : pulled[t] = b[t]
    BY <1>1, <1>2
  <1> HIDE DEF pulled
  <1>5. CASE u \notin DOMAIN Routes
    <2>1. asset = u /\ out = m
      BY <1>5 DEF RewardAsset, RewardAmount
    <2>2. c = pulled
      BY <1>3, <1>5
    <2>3. ASSUME NEW t \in Tokens
          PROVE  c[t] = b[t] + (IF asset = t THEN out ELSE 0)
                             - (IF t = u /\ u \in Natives THEN m ELSE 0)
      BY <1>1, <1>2, <1>4, <2>1, <2>2
    <2>4. QED
      BY <1>4, <2>2, <2>3
  <1>6. CASE u \in DOMAIN Routes
    <2>1. out = RouteReturn(at, u, m)
      BY <1>6 DEF RewardAmount
    <2>2. out \in Nat
      BY <1>6, <2>1, RouteTypes
    <2>3. asset # u
      BY <1>6, RewardIsSold
    <2> HIDE DEF out, asset
    <2>4. m \in 1 .. pulled[u] /\ c = [pulled EXCEPT ![u] = @ - m, ![asset] = @ + out]
      BY <1>3, <1>6, <2>1
    <2>5. pulled[u] - m \in Nat /\ pulled[u] - m = b[u] + pull - m
      BY <1>1, <1>2, <1>4, <2>4
    <2>6. /\ c \in [Tokens -> Nat]
          /\ c[u] = pulled[u] - m
          /\ \A t \in Tokens \ {u} : c[t] = b[t] + (IF asset = t THEN out ELSE 0)
      BY <1>1, <1>4, <2>2, <2>3, <2>4, <2>5
    <2>7. ASSUME NEW t \in Tokens
          PROVE  c[t] = b[t] + (IF asset = t THEN out ELSE 0)
                             - (IF t = u /\ u \in Natives THEN m ELSE 0)
      <3>1. CASE t = u
        BY <1>1, <1>2, <2>3, <2>5, <2>6, <3>1
      <3>2. CASE t # u
        <4>1. b[t] \in Nat
          OBVIOUS
        <4> DEFINE more == IF asset = t THEN out ELSE 0
        <4>2. more \in Nat /\ c[t] = b[t] + more
          BY <2>2, <2>6, <3>2
        <4> HIDE DEF more
        <4>3. c[t] = b[t] + more - 0
          BY <4>1, <4>2
        <4>4. QED
          BY <3>2, <4>3 DEF more
      <3>3. QED
        BY <3>1, <3>2
    <2>8. QED
      BY <2>6, <2>7 DEF out, asset
  <1>7. QED
    BY <1>5, <1>6

\* Handling one reward moves what it brings from the expected to the held.
LEMMA DepositAndSwapStep ==
    ASSUME ReturnsAreAmounts, PoolsAreBacked, IInv, DepositAndSwap
    PROVE  IInv'
  <1> DEFINE r == tx.rewards
             p == ProvideMessage(tx)
             rest == IF tx.no_swap THEN <<p>> ELSE <<SwapMessage, p>>
  <1>1. /\ tx # NoTx /\ Head(queue).type = "Rewards"
        /\ pair_type' = pair_type /\ maker_fee' = maker_fee /\ tx' = tx
    BY DEF DepositAndSwap, Executes
  <1>2. Begun(pair_type, tx) /\ Paying(held, pool, market, queue, tx)
    BY <1>1, PhaseOfHead
  <1>3. /\ r \in Rewards /\ tx.funds \in Funds /\ Paid(r, tx.funds)
        /\ tx.undo.held \in [Tokens -> Nat] /\ tx.undo.market \in MarketStates
        /\ tx.no_swap \in BOOLEAN
    BY <1>2 DEF Begun
  <1>4. /\ held \in [Tokens -> Nat] /\ Backed(pool) /\ pair_type \in PairTypes
        /\ maker_fee \in MakerFees /\ market \in MarketStates
    BY DEF IInv, Accounts
  <1>5. PICK h \in Nat :
            /\ h < Len(r)
            /\ queue = IF tx.no_swap THEN <<RewardsMessage(r, h), p>>
                       ELSE <<RewardsMessage(r, h), SwapMessage, p>>
            /\ Kept(held, tx, h)
            /\ ForeseenIn(tx) => Books(held, pool, market, tx, h)
    BY <1>2 DEF Paying
  <1> DEFINE k == h + 1
             u == r[k].info
             m == r[k].amount
             message == RewardsMessage(r, h)
  <1>6. /\ Len(r) \in Nat /\ k \in Nat /\ k \in DOMAIN r /\ (k = Len(r) \/ k < Len(r))
        /\ u \in RewardTokens /\ m \in Nat
    <2>1. Len(r) \in Nat /\ DOMAIN r = 1 .. Len(r)
      BY <1>3, RewardsFacts
    <2>2. k \in DOMAIN r
      BY <1>5, <2>1
    <2>3. r[k].info \in RewardTokens /\ r[k].amount \in Nat
      BY <1>3, <2>2, RewardsFacts
    <2>4. QED
      BY <1>5, <2>1, <2>2, <2>3
  <1>7. Head(queue) = message /\ Tail(queue) = rest
        /\ message.rewards = r /\ message.handled = h
    <2>1. message.rewards = r /\ message.handled = h
      BY DEF RewardsMessage, NoMessage
    <2> HIDE DEF message, p
    <2>2. Head(queue) = message /\ Tail(queue) = rest
      BY <1>5, QueueFacts DEF message
    <2>3. QED
      BY <2>1, <2>2
  <1> HIDE DEF rest
  <1>8. /\ LET pulled == [held EXCEPT ![u] = @ + IF u \in Natives THEN 0 ELSE m]
           IN  \/ u \notin DOMAIN Routes /\ held' = pulled
               \/ /\ u \in DOMAIN Routes
                  /\ m \in 1 .. pulled[u]
                  /\ held' = [pulled EXCEPT ![u] = @ - m,
                                            ![RewardAsset(u)] = @ + RouteReturn(market, u, m)]
        /\ \/ u \notin DOMAIN Routes /\ pool' = pool /\ market' = market
           \/ /\ u \in DOMAIN Routes /\ m > 0
              /\ market' = MarketAfter(market, u, m) /\ pool' \in PoolsAfter(u)
    <2>1. Head(queue).rewards[Head(queue).handled + 1] = r[k]
      BY <1>7
    <2> DEFINE v == Head(queue).rewards[Head(queue).handled + 1].info
               n == Head(queue).rewards[Head(queue).handled + 1].amount
               have == [held EXCEPT ![v] = @ + IF v \in Natives THEN 0 ELSE n]
    <2>2. \/ /\ v \notin DOMAIN Routes
             /\ held' = have /\ pool' = pool /\ market' = market
          \/ /\ v \in DOMAIN Routes /\ n \in 1 .. have[v]
             /\ held' = [have EXCEPT ![v] = @ - n, ![RewardAsset(v)] = @ + RouteReturn(market, v, n)]
             /\ market' = MarketAfter(market, v, n)
             /\ pool' \in PoolsAfter(v)
      BY DEF DepositAndSwap
    <2>3. v = u /\ n = m
      BY <2>1
    <2> HIDE DEF v, n, u, m
    <2>4. have = [held EXCEPT ![u] = @ + IF u \in Natives THEN 0 ELSE m]
      BY <2>3
    <2>5. have[u] \in Nat
      <3>1. u \in Tokens
        BY <1>6 DEF Tokens
      <3>2. QED
        BY <1>4, <1>6, <2>4, <3>1
    <2> HIDE DEF have
    <2>6. \/ /\ u \notin DOMAIN Routes
             /\ held' = have /\ pool' = pool /\ market' = market
          \/ /\ u \in DOMAIN Routes /\ m \in 1 .. have[u]
             /\ held' = [have EXCEPT ![u] = @ - m, ![RewardAsset(u)] = @ + RouteReturn(market, u, m)]
             /\ market' = MarketAfter(market, u, m)
             /\ pool' \in PoolsAfter(u)
      BY <2>2, <2>3
    <2>7. QED
      BY <2>4, <2>5, <2>6
  <1>9. queue' = IF k = Len(r) THEN rest ELSE <<RewardsMessage(r, k)>> \o rest
    <2>1. [message EXCEPT !.handled = k] = RewardsMessage(r, k)
      <3> DEFINE zero == [t \in {A, B} |-> 0]
                 none == [type |-> "Rewards", rewards |-> <<>>, handled |-> 0, offer |-> A,
                          amount |-> 0, prev_balances |-> zero]
      <3>1. NoMessage = none
        BY DEF NoMessage
      <3> HIDE DEF zero
      <3>2. ASSUME NEW n
            PROVE  RewardsMessage(r, n)
                     = [type |-> "Rewards", rewards |-> r, handled |-> n, offer |-> A,
                        amount |-> 0, prev_balances |-> zero]
        <4>1. RewardsMessage(r, n) = [none EXCEPT !.rewards = r, !.handled = n]
          BY <3>1 DEF RewardsMessage
        <4>2. QED
          BY <4>1
      <3> DEFINE first(n) == [type |-> "Rewards", rewards |-> r, handled |-> n, offer |-> A,
                              amount |-> 0, prev_balances |-> zero]
      <3>3. message = first(h) /\ RewardsMessage(r, k) = first(k)
        BY <3>2
      <3> HIDE DEF message
      <3>4. [message EXCEPT !.handled = k] = first(k)
        BY <3>3
      <3>5. QED
        BY <3>3, <3>4
    <2> HIDE DEF message
    <2>2. queue' = IF k = Len(r) THEN rest ELSE <<[message EXCEPT !.handled = k]>> \o rest
      BY <1>7 DEF DepositAndSwap
    <2>3. QED
      BY <2>1, <2>2
  <1> HIDE DEF message, p, r, k
  <1> DEFINE b == held'
             brings(at, t) == IF RewardAsset(u) = t THEN RewardAmount(at, u, m) ELSE 0
             spent(t) == IF t = u /\ u \in Natives THEN m ELSE 0
  <1> HIDE DEF u, m
  <1>10. /\ b \in [Tokens -> Nat]
         /\ \A t \in Tokens : b[t] = held[t] + brings(market, t) - spent(t)
    BY <1>4, <1>6, <1>8, BalancesStep
  <1>11. market' \in MarketStates
    BY <1>4, <1>6, <1>8, RouteTypes
  <1>12. Backed(pool')
    <2>1. pool' = pool \/ pool' \in Pools(pair_type)
      BY <1>8 DEF PoolsAfter
    <2>2. QED
      BY <1>4, <2>1 DEF PoolsAreBacked
  <1> HIDE DEF b
  <1>13. ASSUME NEW t \in Tokens
         PROVE  /\ Awaited(tx, h, t) \in Nat /\ Awaited(tx, k, t) \in Nat
                /\ Awaited(tx, k, t) <= Awaited(tx, h, t)
                /\ t # u => Awaited(tx, k, t) = Awaited(tx, h, t)
                /\ t \notin Natives => Awaited(tx, k, t) = 0 /\ Awaited(tx, h, t) = 0
                /\ /\ t = u /\ t \in Natives
                   /\ \A i \in DOMAIN r : i # k => r[i].info # t
                   => Awaited(tx, k, t) = 0 /\ Awaited(tx, h, t) = m
    <2>1. Awaited(tx, h, t) \in Nat /\ Awaited(tx, k, t) \in Nat
      BY <1>3, <1>5, <1>6, AwaitedType DEF r
    <2>2. h \in Nat /\ h < Len(tx.rewards)
      BY <1>5 DEF r
    <2>3. tx.rewards \in Rewards /\ tx.funds \in Funds /\ Paid(tx.rewards, tx.funds)
      BY <1>3 DEF r
    <2>4. /\ Awaited(tx, k, t) <= Awaited(tx, h, t)
          /\ t # u => Awaited(tx, k, t) = Awaited(tx, h, t)
          /\ t \notin Natives => Awaited(tx, k, t) = 0 /\ Awaited(tx, h, t) = 0
          /\ /\ t = u /\ t \in Natives
             /\ \A i \in DOMAIN r : i # k => r[i].info # t
             => Awaited(tx, k, t) = 0 /\ Awaited(tx, h, t) = m
      BY <2>2, <2>3, AwaitedStep DEF r, k, u, m
    <2>5. QED
      BY <2>1, <2>4
  <1>14. Kept(b, tx, k)
    <2>1. ASSUME NEW t \in Tokens \ {A, B}, ~SoldTwice(r, t)
          PROVE  b[t] >= tx.undo.held[t] + Awaited(tx, k, t)
      <3>1. held[t] >= tx.undo.held[t] + Awaited(tx, h, t)
        BY <1>5, <2>1 DEF Kept, r
      <3>2. held[t] \in Nat /\ tx.undo.held[t] \in Nat
        BY <1>3, <1>4
      <3>3. brings(market, t) \in Nat
        BY <1>4, <1>6, RouteTypes DEF RewardAmount
      <3> HIDE DEF brings
      <3>4. b[t] = held[t] + brings(market, t) - spent(t)
        BY <1>10
      <3>5. CASE t = u /\ t \in Natives /\ t \in DOMAIN Routes
        <4>1. \A i \in DOMAIN r : i # k => r[i].info # t
          BY <1>6, <2>1, <3>5 DEF SoldTwice, u
        <4>2. Awaited(tx, k, t) = 0 /\ Awaited(tx, h, t) = m /\ spent(t) = m
          BY <1>13, <3>5, <4>1
        <4>3. QED
          BY <1>6, <3>1, <3>2, <3>3, <3>4, <4>2
      <3>6. CASE ~(t = u /\ t \in Natives)
        <4>1. spent(t) = 0
          BY <3>6
        <4>2. Awaited(tx, k, t) <= Awaited(tx, h, t) /\ Awaited(tx, k, t) \in Nat
              /\ Awaited(tx, h, t) \in Nat
          BY <1>13
        <4> HIDE DEF spent
        <4>3. QED
          BY <3>1, <3>2, <3>3, <3>4, <4>1, <4>2
      <3>7. CASE t = u /\ t \in Natives /\ t \notin DOMAIN Routes
        <4>1. brings(market, t) = m /\ spent(t) = m
          BY <3>7 DEF brings, RewardAsset, RewardAmount
        <4>2. Awaited(tx, k, t) <= Awaited(tx, h, t) /\ Awaited(tx, k, t) \in Nat
              /\ Awaited(tx, h, t) \in Nat
          BY <1>13
        <4> HIDE DEF spent
        <4>3. QED
          BY <1>6, <3>1, <3>2, <3>4, <4>1, <4>2
      <3>8. QED
        BY <3>5, <3>6, <3>7
    <2>2. QED
      BY <2>1 DEF Kept, r
  <1>15. ASSUME ForeseenIn(tx) PROVE Books(b, pool', market', tx, k)
    <2> DEFINE was == tx.undo.market
    <2>1. Books(held, pool, market, tx, h)
      BY <1>5, <1>15
    <2>2. PairsMetOnce(r) /\ NativesNamedOnce(r)
      BY <1>15 DEF ForeseenIn, r
    <2>3. u \in DOMAIN Routes => \A pair \in RoutePairs(u) : market[pair] = was[pair]
      BY <1>5, <1>6, <2>1 DEF Books, r, k, u
    <2>4. RewardAmount(market, u, m) = RewardAmount(was, u, m)
      BY <2>3, SameReturn DEF RewardAmount
    <2>5. pool' = tx.undo.pool
      <3>1. u \in DOMAIN Routes => {A, B} \notin RoutePairs(u)
        BY <1>6, <2>2 DEF PairsMetOnce, u
      <3>2. pool' = pool
        BY <1>8, <3>1 DEF PoolsAfter
      <3>3. QED
        BY <2>1, <3>2 DEF Books
    <2>6. ASSUME NEW t \in {A, B}
          PROVE  b[t] + Ahead(was, r, k, t) = Brought(tx, t) + Awaited(tx, k, t)
      <3>1. t \in Tokens
        BY DEF Tokens
      <3>2. held[t] + Ahead(was, r, h, t) = Brought(tx, t) + Awaited(tx, h, t)
        BY <2>1 DEF Books, r
      <3>3. /\ Ahead(was, r, k, t) \in Nat /\ Brings(was, r, k, t) \in Nat
            /\ Ahead(was, r, h, t) = Ahead(was, r, k, t) + Brings(was, r, k, t)
        BY <1>3, <1>5, AheadSplit DEF k
      <3>4. Brings(was, r, k, t) = brings(market, t)
        BY <2>4 DEF Brings, u, m
      <3>5. Brought(tx, t) \in Nat
        BY <1>3, RewardsInType DEF Brought, r
      <3>6. Awaited(tx, h, t) = Awaited(tx, k, t) + spent(t) /\ spent(t) \in Nat
        <4>1. CASE t = u /\ t \in Natives
          <5>1. \A i \in DOMAIN r : i # k => r[i].info # t
            BY <1>6, <2>2, <4>1 DEF NativesNamedOnce, u
          <5>2. Awaited(tx, k, t) = 0 /\ Awaited(tx, h, t) = m
            BY <1>13, <3>1, <4>1, <5>1
          <5>3. QED
            BY <1>6, <4>1, <5>2
        <4>2. CASE ~(t = u /\ t \in Natives)
          <5>1. spent(t) = 0
            BY <4>2
          <5>2. /\ Awaited(tx, h, t) \in Nat /\ Awaited(tx, k, t) \in Nat
                /\ Awaited(tx, k, t) = Awaited(tx, h, t)
            BY <1>13, <3>1, <4>2
          <5>3. QED
            BY <5>1, <5>2
        <4>3. QED
          BY <4>1, <4>2
      <3>7. b[t] = held[t] + brings(market, t) - spent(t) /\ held[t] \in Nat
        BY <1>4, <1>10, <3>1
      <3>8. Awaited(tx, k, t) \in Nat
        BY <1>13, <3>1
      <3> HIDE DEF brings, spent, was
      <3>9. QED
        BY <3>2, <3>3, <3>4, <3>5, <3>6, <3>7, <3>8
    <2>7. ASSUME NEW i \in DOMAIN r, i > k, r[i].info \in DOMAIN Routes,
                 NEW pair \in RoutePairs(r[i].info)
          PROVE  market'[pair] = was[pair]
      <3>1. i > h /\ i # k
        BY <1>3, <1>6, <2>7, RewardsFacts DEF k
      <3>2. market[pair] = was[pair]
        BY <2>1, <2>7, <3>1 DEF Books, r
      <3>3. u \in DOMAIN Routes => pair \notin RoutePairs(u)
        BY <1>6, <2>2, <2>7, <3>1 DEF PairsMetOnce, u
      <3>4. pair \in DOMAIN market
        BY <1>4, <2>7, PairsHaveStates
      <3>5. market'[pair] = market[pair]
        BY <1>8, <3>3, <3>4, OthersNotMoved
      <3>6. QED
        BY <3>2, <3>5
    <2>8. QED
      BY <2>5, <2>6, <2>7 DEF Books, r
  <1>16. \/ Paying(b, pool', market', queue', tx) \/ Ready(b, pool', queue', tx)
    <2>1. CASE k = Len(r)
      <3>1. queue' = IF tx.no_swap THEN <<p>> ELSE <<SwapMessage, p>>
        BY <1>9, <2>1 DEF rest
      <3>2. Handled(b, pool', tx)
        BY <1>2, <1>10, <1>14, <1>15, <2>1, AllHandled DEF r
      <3>3. QED
        BY <3>1, <3>2 DEF Ready, p
    <2>2. CASE k # Len(r)
      <3>1. queue' = IF tx.no_swap THEN <<RewardsMessage(r, k), p>>
                     ELSE <<RewardsMessage(r, k), SwapMessage, p>>
        <4>1. queue' = <<RewardsMessage(r, k)>> \o rest
          BY <1>9, <2>2
        <4> DEFINE first == RewardsMessage(r, k)
        <4> HIDE DEF first
        <4>2. <<first>> \o <<p>> = <<first, p>>
          BY QueueFacts
        <4>3. <<first>> \o <<SwapMessage, p>> = <<first, SwapMessage, p>>
          BY ThreeMessages
        <4>4. CASE tx.no_swap
          BY <4>1, <4>2, <4>4 DEF rest, first
        <4>5. CASE ~tx.no_swap
          BY <4>1, <4>3, <4>5 DEF rest, first
        <4>6. QED
          BY <4>4, <4>5
      <3>2. k \in Nat /\ k < Len(tx.rewards)
        BY <1>6, <2>2 DEF r
      <3>3. QED
        BY <1>14, <1>15, <3>1, <3>2 DEF Paying, p, r
    <2>3. QED
      BY <2>1, <2>2
  <1>17. Accounts(pair_type, b, pool', maker_fee, market', queue', tx)
    BY <1>2, <1>4, <1>10, <1>11, <1>12, <1>16 DEF Accounts
  <1>18. QED
    BY <1>1, <1>17 DEF IInv, b

\* A pool is left as it is by no sale.
LEMMA PoolWithNoSale ==
    ASSUME NEW p, Backed(p), NEW s,
           s[A].sold = 0, s[A].returned = 0, s[B].sold = 0, s[B].returned = 0
    PROVE  PoolWith(p, s) = p
  <1>1. p \in [a: Nat, b: Nat, total: Nat]
    BY DEF Backed
  <1>2. PoolWith(p, s) = [p EXCEPT !.a = p.a + 0 - 0, !.b = p.b + 0 - 0]
    BY DEF PoolWith
  <1>3. p.a + 0 - 0 = p.a /\ p.b + 0 - 0 = p.b
    BY <1>1
  <1>4. [p EXCEPT !.a = p.a, !.b = p.b] = p
    BY <1>1
  <1>5. QED
    BY <1>2, <1>3, <1>4

\* What the rewards of a transaction bring are amounts.
LEMMA BroughtType ==
    ASSUME ReturnsAreAmounts, NEW type, NEW x, Begun(type, x), NEW t
    PROVE  Brought(x, t) \in Nat
  <1>1. x.undo.market \in MarketStates /\ x.rewards \in Rewards
    BY DEF Begun
  <1>2. QED
    BY <1>1, RewardsInType DEF Brought

\* optimal_swap decides on the sale, or on none.
LEMMA OptimalSwapStep ==
    ASSUME ReturnsAreAmounts, IInv, OptimalSwap
    PROVE  IInv'
  <1> DEFINE sale == SaleAt(pool, held[A], held[B])
             sold == {t \in {A, B} : sale[t].sold > 0}
             seller == CHOOSE x \in sold : TRUE
             p == ProvideMessage(tx)
  <1>1. /\ tx # NoTx /\ Head(queue).type = "OptimalSwap"
        /\ queue' = (IF pair_type = "Stable" \/ sold = {} THEN <<>>
                     ELSE <<PairMessage(seller, sale[seller].sold)>>) \o Tail(queue)
        /\ pair_type' = pair_type /\ held' = held /\ pool' = pool
        /\ maker_fee' = maker_fee /\ market' = market /\ tx' = tx
    <2> DEFINE found == OptimalSale(held[A], held[B])
               ts == {t \in {A, B} : found[t].sold > 0}
               one == CHOOSE x \in ts : TRUE
    <2>1. /\ tx # NoTx /\ Head(queue).type = "OptimalSwap"
          /\ queue' = (IF pair_type = "Stable" \/ ts = {} THEN <<>>
                       ELSE <<PairMessage(one, found[one].sold)>>) \o Tail(queue)
          /\ pair_type' = pair_type /\ held' = held /\ pool' = pool
          /\ maker_fee' = maker_fee /\ market' = market /\ tx' = tx
      BY DEF OptimalSwap, Executes, PairMessage
    <2>2. found = sale
      BY AtPool
    <2> HIDE DEF found, sale
    <2>3. ts = sold /\ one = seller
      BY <2>2
    <2> HIDE DEF ts, one, sold, seller
    <2>4. QED
      BY <2>1, <2>2, <2>3
  <1>2. Begun(pair_type, tx) /\ Ready(held, pool, queue, tx) /\ ~tx.no_swap
    BY <1>1, PhaseOfHead
  <1>3. queue = <<SwapMessage, p>> /\ Handled(held, pool, tx)
    BY <1>2 DEF Ready
  <1> HIDE DEF p
  <1>4. Tail(queue) = <<p>>
    <2> DEFINE m == SwapMessage
    <2>1. queue = <<m, p>>
      BY <1>3
    <2> HIDE DEF m
    <2>2. QED
      BY <2>1, QueueFacts
  <1>5. A \in Tokens /\ B \in Tokens /\ A # B /\ held \in [Tokens -> Nat] /\ Backed(pool)
    BY CompoundAssumption DEF Tokens, IInv, Accounts
  <1>6. /\ sale[A] \in [sold: Nat, returned: Nat] /\ sale[B] \in [sold: Nat, returned: Nat]
        /\ sale[A].sold = 0 => sale[A].returned = 0
        /\ sale[B].sold = 0 => sale[B].returned = 0
    BY <1>5, SaleAtFacts
  <1> HIDE DEF sale
  <1>7. CASE pair_type = "Stable" \/ sold = {}
    <2>1. queue' = <<p>>
      BY <1>1, <1>4, <1>7, QueueFacts
    <2>2. ASSUME ForeseenIn(tx)
          PROVE  LET s == SaleMade(pair_type, tx)
                     w == PoolWith(tx.undo.pool, s)
                 IN  /\ held[A] = Left(pair_type, tx, A) /\ held[B] = Left(pair_type, tx, B)
                     /\ pool.total = tx.undo.pool.total /\ pool.a <= w.a /\ pool.b <= w.b
                     /\ maker_fee = 0 \/ (s[A].sold = 0 /\ s[B].sold = 0) => pool = w
      <3> DEFINE s == SaleMade(pair_type, tx)
                 w == PoolWith(tx.undo.pool, s)
      <3>1. pool = tx.undo.pool /\ held[A] = Brought(tx, A) /\ held[B] = Brought(tx, B)
        BY <1>3, <2>2 DEF Handled
      <3>2. s[A].sold = 0 /\ s[A].returned = 0 /\ s[B].sold = 0 /\ s[B].returned = 0
        <4>1. CASE pair_type = "Stable"
          BY <4>1 DEF SaleMade, NoSale
        <4>2. CASE pair_type # "Stable"
          <5>1. s = sale
            BY <3>1, <4>2 DEF SaleMade, sale
          <5>2. ~(sale[A].sold > 0) /\ ~(sale[B].sold > 0)
            BY <1>7, <4>2
          <5> HIDE DEF s
          <5>3. QED
            BY <1>6, <5>1, <5>2
        <4>3. QED
          BY <4>1, <4>2
      <3>3. w = pool
        BY <1>5, <3>1, <3>2, PoolWithNoSale
      <3>4. held[A] - 0 + 0 = held[A] /\ held[B] - 0 + 0 = held[B]
        BY <1>5
      <3>5. Left(pair_type, tx, A) = held[A] /\ Left(pair_type, tx, B) = held[B]
        BY <1>5, <3>1, <3>2, <3>4 DEF Left
      <3>6. pool.a \in Nat /\ pool.b \in Nat
        BY <1>5 DEF Backed
      <3> HIDE DEF s, w
      <3>7. QED
        BY <3>1, <3>3, <3>5, <3>6 DEF s, w
    <2>3. Sold(pair_type, held, pool, maker_fee, queue', tx)
      BY <1>2, <1>3, <2>1, <2>2 DEF Sold, Handled, p
    <2>4. Accounts(pair_type, held, pool, maker_fee, market, queue', tx)
      BY <1>2, <2>3 DEF Accounts, IInv
    <2>5. QED
      BY <1>1, <2>4 DEF IInv
  <1>8. CASE ~(pair_type = "Stable" \/ sold = {})
    <2>1. seller \in sold
      BY <1>8
    <2> HIDE DEF seller
    <2>2. seller \in {A, B} /\ sale[seller].sold > 0
      BY <2>1
    <2>3. queue' = <<PairMessage(seller, sale[seller].sold), p>>
      <3> DEFINE m == PairMessage(seller, sale[seller].sold)
      <3>1. queue' = <<m>> \o <<p>>
        BY <1>1, <1>4, <1>8
      <3> HIDE DEF m
      <3>2. queue' = <<m, p>>
        BY <3>1, QueueFacts
      <3>3. QED
        BY <3>2 DEF m
    <2>4. Selling(pair_type, held, pool, queue', tx)
      BY <1>2, <1>3, <1>8, <2>2, <2>3 DEF Selling, sale, p
    <2>5. Accounts(pair_type, held, pool, maker_fee, market, queue', tx)
      BY <1>2, <2>4 DEF Accounts, IInv
    <2>6. QED
      BY <1>1, <2>5 DEF IInv
  <1>9. QED
    BY <1>7, <1>8

\* The pool after a sale of t of which the maker gets a part.
Swapped(p, t, sold, returned, part) ==
    IF t = A THEN [a |-> p.a + sold, b |-> p.b - returned - part, total |-> p.total]
    ELSE [a |-> p.a - returned - part, b |-> p.b + sold, total |-> p.total]

\* The message that sells, and what the contract has then.
LEMMA SellingFacts ==
    ASSUME ReturnsAreAmounts, IInv, Executes("PairSwap")
    PROVE  /\ Begun(pair_type, tx) /\ Handled(held, pool, tx)
           /\ pair_type # "Stable" /\ ~tx.no_swap
           /\ Tail(queue) = <<ProvideMessage(tx)>>
           /\ \E t \in {A, B} :
                 /\ Head(queue).offer = t
                 /\ Head(queue).amount = SaleAt(pool, held[A], held[B])[t].sold
                 /\ Head(queue).amount > 0 /\ Head(queue).amount <= held[t]
  <1> DEFINE sale == SaleAt(pool, held[A], held[B])
  <1>1. Begun(pair_type, tx) /\ Selling(pair_type, held, pool, queue, tx)
    BY PhaseOfHead DEF Executes
  <1>2. PICK t \in {A, B} :
            /\ sale[t].sold > 0
            /\ queue = <<PairMessage(t, sale[t].sold), ProvideMessage(tx)>>
    BY <1>1 DEF Selling
  <1>3. A \in Tokens /\ B \in Tokens /\ held \in [Tokens -> Nat] /\ Backed(pool)
    BY DEF Tokens, IInv, Accounts
  <1>4. sale[A].sold <= held[A] /\ sale[B].sold <= held[B]
    BY <1>3, SaleAtFacts
  <1> HIDE DEF sale
  <1>5. Head(queue) = PairMessage(t, sale[t].sold) /\ Tail(queue) = <<ProvideMessage(tx)>>
    BY <1>2, QueueFacts
  <1>6. Head(queue).offer = t /\ Head(queue).amount = sale[t].sold
    BY <1>5 DEF PairMessage, NoMessage
  <1>7. sale[t].sold <= held[t]
    BY <1>4
  <1>8. QED
    BY <1>1, <1>2, <1>5, <1>6, <1>7 DEF Selling, sale

\* A pool is left backed by a sale that its reserve covers.
LEMMA SwappedBacked ==
    ASSUME NEW p, Backed(p), NEW t \in {A, B}, NEW sold \in Nat, NEW returned \in Nat,
           NEW part \in Nat,
           LET ask == IF t = A THEN p.b ELSE p.a
           IN  returned + part <= ask /\ (p.a > 0 /\ p.b > 0 => returned + part < ask)
    PROVE  /\ Backed(Swapped(p, t, sold, returned, part))
           /\ Swapped(p, t, sold, returned, part).total = p.total
           /\ Swapped(p, t, sold, returned, part).a <= Swapped(p, t, sold, returned, 0).a
           /\ Swapped(p, t, sold, returned, part).b <= Swapped(p, t, sold, returned, 0).b
  <1> DEFINE a == p.a
             b == p.b
             n == p.total
  <1>1. a \in Nat /\ b \in Nat /\ n \in Nat /\ (n > 0 => a > 0 /\ b > 0)
    BY DEF Backed
  <1>2. CASE t = A
    <2>1. returned + part <= b /\ (a > 0 /\ b > 0 => returned + part < b)
      BY <1>2
    <2> DEFINE c == a + sold
               d == b - returned - part
               e == b - returned - 0
    <2>2. /\ Swapped(p, t, sold, returned, part) = [a |-> c, b |-> d, total |-> n]
          /\ Swapped(p, t, sold, returned, 0) = [a |-> c, b |-> e, total |-> n]
      BY <1>2 DEF Swapped
    <2> HIDE DEF a, b, n
    <2>3. c \in Nat /\ d \in Nat /\ e \in Nat /\ d <= e /\ (n > 0 => c > 0 /\ d > 0)
      BY <1>1, <2>1
    <2> HIDE DEF c, d, e
    <2>4. QED
      BY <1>1, <2>2, <2>3 DEF Backed, n
  <1>3. CASE t # A
    <2>1. returned + part <= a /\ (a > 0 /\ b > 0 => returned + part < a)
      BY <1>3
    <2> DEFINE c == b + sold
               d == a - returned - part
               e == a - returned - 0
    <2>2. /\ Swapped(p, t, sold, returned, part) = [a |-> d, b |-> c, total |-> n]
          /\ Swapped(p, t, sold, returned, 0) = [a |-> e, b |-> c, total |-> n]
      BY <1>3 DEF Swapped
    <2> HIDE DEF a, b, n
    <2>3. c \in Nat /\ d \in Nat /\ e \in Nat /\ d <= e /\ (n > 0 => c > 0 /\ d > 0)
      BY <1>1, <2>1
    <2> HIDE DEF c, d, e
    <2>4. QED
      BY <1>1, <2>2, <2>3 DEF Backed, n
  <1>4. QED
    BY <1>2, <1>3

\* What the pair does with the sale.
LEMMA PairSwapFacts ==
    ASSUME NEW t \in {A, B}, Backed(pool), maker_fee \in MakerFees, PairSwap,
           Head(queue).offer = t, Head(queue).amount \in Nat \ {0}
    PROVE  LET sold == Head(queue).amount
               offer == IF t = A THEN pool.a ELSE pool.b
               ask   == IF t = A THEN pool.b ELSE pool.a
               returned == Simulate(offer, ask, sold, Commission)
           IN  /\ held' = [held EXCEPT ![t] = @ - sold,
                                       ![IF t = A THEN B ELSE A] = @ + returned]
               /\ pool' = Swapped(pool, t, sold, returned, MakerPart(offer, ask, sold))
  <1> DEFINE sold == Head(queue).amount
             a == pool.a
             b == pool.b
             n == pool.total
  <1>1. A # B /\ pool \in [a: Nat, b: Nat, total: Nat]
    BY CompoundAssumption DEF Backed
  <1>2. sold \in Nat \ {0} /\ a \in Nat /\ b \in Nat /\ maker_fee \in 0 .. COMMISSION_DENOM
    BY <1>1, CompoundAssumption
  <1>3. CASE t = A
    <2> DEFINE ret == Simulate(a, b, sold, Commission)
               out == MakerPart(a, b, sold)
               z == [x \in {A, B} |-> IF x = A THEN [sold |-> sold, returned |-> ret] ELSE NoSale]
    <2>1. /\ pool' = [PoolWith(pool, z) EXCEPT !.b = @ - out]
          /\ held' = [held EXCEPT ![A] = @ - sold, ![B] = @ + ret]
      BY <1>3, AtPool DEF PairSwap
    <2>2. z[A].sold = sold /\ z[A].returned = ret /\ z[B].sold = 0 /\ z[B].returned = 0
      BY <1>1 DEF NoSale
    <2>3. ret \in Nat /\ out \in Nat
      BY <1>2, MakerPartBounds DEF MakerPart
    <2> HIDE DEF z, ret, out
    <2>4. PoolWith(pool, z) = [pool EXCEPT !.a = @ + sold - 0, !.b = @ + 0 - ret]
      BY <2>2 DEF PoolWith
    <2>5. a + sold - 0 = a + sold /\ b + 0 - ret = b - ret
      BY <1>2, <2>3
    <2>6. PoolWith(pool, z) = [a |-> a + sold, b |-> b - ret, total |-> n]
      BY <1>1, <2>4, <2>5
    <2> HIDE DEF a, b, n
    <2>7. pool' = [a |-> a + sold, b |-> b - ret - out, total |-> n]
      BY <2>1, <2>6
    <2>8. pool' = Swapped(pool, A, sold, ret, out)
      BY <2>7 DEF Swapped, a, b, n
    <2>9. QED
      BY <1>3, <2>1, <2>8 DEF ret, out, a, b
  <1>4. CASE t = B
    <2> DEFINE ret == Simulate(b, a, sold, Commission)
               out == MakerPart(b, a, sold)
               z == [x \in {A, B} |-> IF x = B THEN [sold |-> sold, returned |-> ret] ELSE NoSale]
    <2>1. /\ pool' = [PoolWith(pool, z) EXCEPT !.a = @ - out]
          /\ held' = [held EXCEPT ![B] = @ - sold, ![A] = @ + ret]
      BY <1>1, <1>4, AtPool DEF PairSwap
    <2>2. z[B].sold = sold /\ z[B].returned = ret /\ z[A].sold = 0 /\ z[A].returned = 0
      BY <1>1 DEF NoSale
    <2>3. ret \in Nat /\ out \in Nat
      BY <1>2, MakerPartBounds DEF MakerPart
    <2> HIDE DEF z, ret, out
    <2>4. PoolWith(pool, z) = [pool EXCEPT !.a = @ + 0 - ret, !.b = @ + sold - 0]
      BY <2>2 DEF PoolWith
    <2>5. b + sold - 0 = b + sold /\ a + 0 - ret = a - ret
      BY <1>2, <2>3
    <2>6. PoolWith(pool, z) = [a |-> a - ret, b |-> b + sold, total |-> n]
      BY <1>1, <2>4, <2>5
    <2> HIDE DEF a, b, n
    <2>7. pool' = [a |-> a - ret - out, b |-> b + sold, total |-> n]
      BY <2>1, <2>6
    <2>8. pool' = Swapped(pool, B, sold, ret, out)
      BY <1>1, <2>7 DEF Swapped, a, b, n
    <2>9. QED
      BY <1>1, <1>4, <2>1, <2>8 DEF ret, out, a, b
  <1>5. QED
    BY <1>3, <1>4

\* The pool of the simulation is the one that has the whole commission.
LEMMA PoolWithSale ==
    ASSUME NEW p, Backed(p), NEW t \in {A, B}, NEW s,
           s[t].sold \in Nat, s[t].returned \in Nat,
           \A x \in {A, B} : x # t => s[x].sold = 0 /\ s[x].returned = 0
    PROVE  PoolWith(p, s) = Swapped(p, t, s[t].sold, s[t].returned, 0)
  <1> DEFINE a == p.a
             b == p.b
             n == p.total
             sold == s[t].sold
             ret == s[t].returned
  <1>1. A # B /\ p \in [a: Nat, b: Nat, total: Nat]
    BY CompoundAssumption DEF Backed
  <1>2. a \in Nat /\ b \in Nat /\ sold \in Nat /\ ret \in Nat
    BY <1>1
  <1>3. CASE t = A
    <2>1. s[A].sold = sold /\ s[A].returned = ret /\ s[B].sold = 0 /\ s[B].returned = 0
      BY <1>1, <1>3
    <2> HIDE DEF sold, ret
    <2>2. PoolWith(p, s) = [p EXCEPT !.a = @ + sold - 0, !.b = @ + 0 - ret]
      BY <2>1 DEF PoolWith
    <2>3. a + sold - 0 = a + sold /\ b + 0 - ret = b - ret - 0
      BY <1>2
    <2>4. PoolWith(p, s) = [a |-> a + sold, b |-> b - ret - 0, total |-> n]
      BY <1>1, <2>2, <2>3
    <2>5. QED
      BY <1>3, <2>4 DEF Swapped, sold, ret
  <1>4. CASE t = B
    <2>1. s[B].sold = sold /\ s[B].returned = ret /\ s[A].sold = 0 /\ s[A].returned = 0
      BY <1>1, <1>4
    <2> HIDE DEF sold, ret
    <2>2. PoolWith(p, s) = [p EXCEPT !.a = @ + 0 - ret, !.b = @ + sold - 0]
      BY <2>1 DEF PoolWith
    <2>3. b + sold - 0 = b + sold /\ a + 0 - ret = a - ret - 0
      BY <1>2
    <2>4. PoolWith(p, s) = [a |-> a - ret - 0, b |-> b + sold, total |-> n]
      BY <1>1, <2>2, <2>3
    <2>5. QED
      BY <1>1, <1>4, <2>4 DEF Swapped, sold, ret
  <1>5. QED
    BY <1>3, <1>4

\* The pair executes the sale that was decided on.
LEMMA PairSwapStep ==
    ASSUME ReturnsAreAmounts, IInv, PairSwap
    PROVE  IInv'
  <1> DEFINE sale == SaleAt(pool, held[A], held[B])
             sold == Head(queue).amount
  <1>1. /\ Executes("PairSwap")
        /\ queue' = Tail(queue) /\ tx' = tx /\ pair_type' = pair_type
        /\ maker_fee' = maker_fee /\ market' = market
    BY DEF PairSwap
  <1>2. /\ Begun(pair_type, tx) /\ Handled(held, pool, tx)
        /\ pair_type # "Stable" /\ ~tx.no_swap
        /\ Tail(queue) = <<ProvideMessage(tx)>>
    BY <1>1, SellingFacts
  <1>3. PICK t \in {A, B} : /\ Head(queue).offer = t /\ sold = sale[t].sold
                           /\ sold > 0 /\ sold <= held[t]
    BY <1>1, SellingFacts
  <1>4. /\ A \in Tokens /\ B \in Tokens /\ A # B
        /\ held \in [Tokens -> Nat] /\ Backed(pool) /\ maker_fee \in MakerFees
        /\ maker_fee \in 0 .. COMMISSION_DENOM
        /\ pair_type \in PairTypes /\ market \in MarketStates
    BY CompoundAssumption DEF Tokens, IInv, Accounts
  <1>5. held[A] \in Nat /\ held[B] \in Nat /\ pool.a \in Nat /\ pool.b \in Nat
    BY <1>4 DEF Backed
  <1> DEFINE offer == IF t = A THEN pool.a ELSE pool.b
             ask   == IF t = A THEN pool.b ELSE pool.a
             returned == Simulate(offer, ask, sold, Commission)
             part  == MakerPart(offer, ask, sold)
             other == IF t = A THEN B ELSE A
  <1>6. /\ sale[A] \in [sold: Nat, returned: Nat] /\ sale[B] \in [sold: Nat, returned: Nat]
        /\ sale[A].sold = 0 \/ sale[B].sold = 0
        /\ sale[A].sold = 0 => sale[A].returned = 0
        /\ sale[B].sold = 0 => sale[B].returned = 0
        /\ sale[A].sold > 0 => sale[A].returned = Simulate(pool.a, pool.b, sale[A].sold, Commission)
        /\ sale[B].sold > 0 => sale[B].returned = Simulate(pool.b, pool.a, sale[B].sold, Commission)
    BY <1>4, <1>5, SaleAtFacts
  <1> HIDE DEF sale
  <1>7. sold \in Nat \ {0}
    BY <1>3, <1>6
  <1>8. sale[t].returned = returned /\ sale[other].sold = 0 /\ sale[other].returned = 0
    <2>1. CASE t = A
      BY <1>3, <1>4, <1>6, <2>1
    <2>2. CASE t = B
      BY <1>3, <1>4, <1>6, <2>2
    <2>3. QED
      BY <2>1, <2>2
  <1>9. /\ held' = [held EXCEPT ![t] = @ - sold, ![other] = @ + returned]
        /\ pool' = Swapped(pool, t, sold, returned, part)
    BY <1>3, <1>4, <1>7, PairSwapFacts
  <1> HIDE DEF sold
  <1>10. /\ part \in Nat /\ returned \in Nat
         /\ returned + part <= ask /\ (offer > 0 /\ ask > 0 => returned + part < ask)
         /\ maker_fee = 0 => part = 0
    <2>1. offer \in Nat /\ ask \in Nat
      BY <1>5
    <2> HIDE DEF offer, ask
    <2>2. QED
      BY <1>4, <1>7, <2>1, MakerPartBounds DEF MakerPart
  <1>11. /\ returned + part <= IF t = A THEN pool.b ELSE pool.a
         /\ pool.a > 0 /\ pool.b > 0
              => returned + part < IF t = A THEN pool.b ELSE pool.a
    <2> HIDE DEF returned, part
    <2>1. QED
      BY <1>10
  <1> HIDE DEF returned, part, offer
  <1>12. /\ Backed(pool') /\ pool'.total = pool.total
         /\ pool'.a <= Swapped(pool, t, sold, returned, 0).a
         /\ pool'.b <= Swapped(pool, t, sold, returned, 0).b
    <2> DEFINE after == Swapped(pool, t, sold, returned, part)
               whole == Swapped(pool, t, sold, returned, 0)
    <2>1. sold \in Nat /\ returned \in Nat /\ part \in Nat
      BY <1>7, <1>10
    <2>2. /\ Backed(after) /\ after.total = pool.total
          /\ after.a <= whole.a /\ after.b <= whole.b
      BY <1>4, <1>11, <2>1, SwappedBacked
    <2>3. pool' = after
      BY <1>9
    <2> HIDE DEF after
    <2>4. QED
      BY <2>2, <2>3
  <1> HIDE DEF ask
  <1>13. /\ held' \in [Tokens -> Nat]
         /\ held'[t] = held[t] - sold /\ held'[other] = held[other] + returned
         /\ \A x \in Tokens \ {A, B} : held'[x] = held[x]
    <2>1. t \in Tokens /\ other \in Tokens /\ t # other /\ {t, other} = {A, B}
      BY <1>4
    <2>2. held[t] \in Nat /\ held[other] \in Nat /\ held[t] - sold \in Nat
          /\ held[other] + returned \in Nat
      BY <1>3, <1>4, <1>7, <1>10, <2>1
    <2> HIDE DEF other
    <2>3. QED
      BY <1>4, <1>9, <2>1, <2>2
  <1>14. ASSUME ForeseenIn(tx)
         PROVE  LET s == SaleMade(pair_type, tx)
                    w == PoolWith(tx.undo.pool, s)
                IN  /\ held'[A] = Left(pair_type, tx, A) /\ held'[B] = Left(pair_type, tx, B)
                    /\ pool'.total = tx.undo.pool.total /\ pool'.a <= w.a /\ pool'.b <= w.b
                    /\ maker_fee = 0 \/ (s[A].sold = 0 /\ s[B].sold = 0) => pool' = w
    <2> DEFINE s == SaleMade(pair_type, tx)
               w == PoolWith(tx.undo.pool, s)
    <2>1. pool = tx.undo.pool /\ held[A] = Brought(tx, A) /\ held[B] = Brought(tx, B)
      BY <1>2, <1>14 DEF Handled
    <2>2. s = sale
      BY <1>2, <2>1 DEF SaleMade, sale
    <2>3. /\ Left(pair_type, tx, A) = held[A] - sale[A].sold + sale[B].returned
          /\ Left(pair_type, tx, B) = held[B] - sale[B].sold + sale[A].returned
      BY <1>4, <2>1, <2>2 DEF Left
    <2> HIDE DEF s
    <2>4. held'[A] = Left(pair_type, tx, A) /\ held'[B] = Left(pair_type, tx, B)
      <3>1. CASE t = A
        <4>1. /\ held'[A] = held[A] - sold /\ held'[B] = held[B] + returned
              /\ sale[A].sold = sold /\ sale[B].returned = 0
              /\ sale[B].sold = 0 /\ sale[A].returned = returned
          BY <1>3, <1>8, <1>13, <3>1
        <4>2. QED
          BY <1>5, <1>7, <1>10, <2>3, <4>1
      <3>2. CASE t = B
        <4>1. /\ held'[B] = held[B] - sold /\ held'[A] = held[A] + returned
              /\ sale[B].sold = sold /\ sale[A].returned = 0
              /\ sale[A].sold = 0 /\ sale[B].returned = returned
          BY <1>3, <1>4, <1>8, <1>13, <3>2
        <4>2. QED
          BY <1>5, <1>7, <1>10, <2>3, <4>1
      <3>3. QED
        BY <3>1, <3>2
    <2>5. w = Swapped(pool, t, sold, returned, 0)
      <3>1. \A x \in {A, B} : x # t => sale[x].sold = 0 /\ sale[x].returned = 0
        BY <1>8
      <3>2. sale[t].sold \in Nat /\ sale[t].returned \in Nat
        BY <1>3, <1>7, <1>8, <1>10
      <3>3. PoolWith(pool, sale) = Swapped(pool, t, sale[t].sold, sale[t].returned, 0)
        BY <1>4, <3>1, <3>2, PoolWithSale
      <3>4. QED
        BY <1>3, <1>8, <2>1, <2>2, <3>3
    <2> HIDE DEF w
    <2>6. maker_fee = 0 => pool' = w
      BY <1>9, <1>10, <2>5
    <2>7. ~(s[A].sold = 0 /\ s[B].sold = 0)
      BY <1>3, <1>7, <2>2
    <2>8. QED
      BY <1>12, <2>1, <2>4, <2>5, <2>6, <2>7 DEF s, w
  <1>15. Sold(pair_type, held', pool', maker_fee, queue', tx)
    <2>1. \A x \in Tokens \ {A, B} : ~SoldTwice(tx.rewards, x) => held'[x] >= tx.undo.held[x]
      BY <1>2, <1>13 DEF Handled
    <2>2. QED
      BY <1>1, <1>2, <1>14, <2>1 DEF Sold
  <1>16. Accounts(pair_type, held', pool', maker_fee, market, queue', tx)
    BY <1>2, <1>4, <1>12, <1>13, <1>15 DEF Accounts
  <1>17. QED
    BY <1>1, <1>16 DEF IInv

\* What is provided is what the contract has beyond what it had before.
LEMMA ProvideFacts ==
    ASSUME ReturnsAreAmounts, IInv, ProvideLiquidity
    PROVE  /\ Begun(pair_type, tx)
           /\ \/ Sold(pair_type, held, pool, maker_fee, queue, tx)
              \/ Ready(held, pool, queue, tx) /\ tx.no_swap
           /\ Head(queue).prev_balances = [t \in {A, B} |-> Prev(tx, t)]
           /\ Tail(queue) = <<>>
           /\ \A t \in {A, B} : Prev(tx, t) \in Nat
           /\ held' = [held EXCEPT ![A] = Prev(tx, A), ![B] = Prev(tx, B)]
           /\ \A t \in Tokens \ {A, B} :
                 ~SoldTwice(tx.rewards, t) => held[t] >= tx.undo.held[t]
  <1>1. tx # NoTx /\ Head(queue).type = "ProvideLiquidity"
    BY DEF ProvideLiquidity, Executes
  <1>2. /\ Begun(pair_type, tx)
        /\ \/ Sold(pair_type, held, pool, maker_fee, queue, tx)
           \/ Ready(held, pool, queue, tx) /\ tx.no_swap
    BY <1>1, PhaseOfHead
  <1>3. queue = <<ProvideMessage(tx)>>
    BY <1>2 DEF Sold, Ready
  <1>4. Head(queue) = ProvideMessage(tx) /\ Tail(queue) = <<>>
    BY <1>3, QueueFacts
  <1>5. Head(queue).prev_balances = [t \in {A, B} |-> Prev(tx, t)]
    BY <1>4 DEF ProvideMessage, NoMessage
  <1>6. \A t \in Tokens \ {A, B} : ~SoldTwice(tx.rewards, t) => held[t] >= tx.undo.held[t]
    BY <1>2 DEF Sold, Ready, Handled
  <1>7. ASSUME NEW t \in Tokens PROVE Prev(tx, t) \in Nat
    <2>1. /\ tx.rewards \in Rewards /\ tx.funds \in Funds /\ Paid(tx.rewards, tx.funds)
          /\ tx.undo.held[t] \in Nat
      BY <1>2 DEF Begun
    <2>2. /\ Sent(tx.funds, t) \in Nat /\ Named(tx.rewards, t) \in Nat
          /\ Named(tx.rewards, t) <= Sent(tx.funds, t)
      BY <2>1, NamedFacts
    <2>3. QED
      BY <2>1, <2>2 DEF Prev
  <1>8. /\ A \in Tokens /\ B \in Tokens /\ A # B /\ held \in [Tokens -> Nat]
    BY CompoundAssumption DEF Tokens, IInv, Accounts
  <1>9. held' = [held EXCEPT ![A] = Prev(tx, A), ![B] = Prev(tx, B)]
    <2> DEFINE prev == Head(queue).prev_balances
    <2>1. held' = [held EXCEPT ![A] = @ - (held[A] - prev[A]), ![B] = @ - (held[B] - prev[B])]
      BY DEF ProvideLiquidity
    <2>2. prev[A] = Prev(tx, A) /\ prev[B] = Prev(tx, B)
      BY <1>5
    <2> HIDE DEF prev
    <2>4. /\ held[A] \in Nat /\ held[B] \in Nat
          /\ Prev(tx, A) \in Nat /\ Prev(tx, B) \in Nat
      BY <1>7, <1>8
    <2>5. /\ held[A] - (held[A] - prev[A]) = Prev(tx, A)
          /\ held[B] - (held[B] - prev[B]) = Prev(tx, B)
      BY <2>2, <2>4
    <2>6. QED
      BY <1>8, <2>1, <2>5
  <1>10. \A t \in {A, B} : Prev(tx, t) \in Nat
    BY <1>7, <1>8
  <1>11. QED
    BY <1>2, <1>4, <1>5, <1>6, <1>9, <1>10

\* The LP that the pair mints.
Minted(x, y) ==
    IF pair_type = "Stable" /\ pool.total > 0 THEN StableShare(x, y, pool, Leverage)
    ELSE ProvideShare(x, y, pool)

\* The LP is an amount, and the first LP is for some of both assets.
LEMMA MintedFacts ==
    ASSUME Backed(pool), NEW x \in Nat, NEW y \in Nat
    PROVE  /\ Minted(x, y) \in Nat
           /\ pool.total = 0 /\ Minted(x, y) > 0 => x > 0 /\ y > 0
  <1>1. Leverage \in Nat /\ 2 * AMP_PRECISION <= Leverage
    BY CompoundAssumption, PoolMathAssumption
  <1>2. Minted(x, y) \in Nat
    <2>1. ProvideShare(x, y, pool) \in Nat
      BY ProvideShareType
    <2>2. pool.total > 0 => StableShare(x, y, pool, Leverage) \in Nat
      BY <1>1, StableShareType
    <2>3. QED
      BY <2>1, <2>2 DEF Minted
  <1>3. ASSUME pool.total = 0, Minted(x, y) > 0 PROVE x > 0 /\ y > 0
    <2>1. Minted(x, y) = Isqrt(x * y)
      BY <1>3 DEF Minted, ProvideShare
    <2>2. x * y \in Nat
      OBVIOUS
    <2>3. Isqrt(x * y) \in Nat /\ Isqrt(x * y) * Isqrt(x * y) <= x * y
      BY <2>2, IsqrtIsRoot
    <2> DEFINE r == Isqrt(x * y)
    <2>4. r \in Nat \ {0} /\ r * r <= x * y
      BY <1>3, <2>1, <2>3
    <2> HIDE DEF r
    <2>5. 1 <= r * r
      BY <2>4
    <2>6. x * y >= 1
      BY <2>2, <2>4, <2>5
    <2>7. (x = 0 => x * y = 0) /\ (y = 0 => x * y = 0)
      OBVIOUS
    <2>8. QED
      BY <2>6, <2>7
  <1>4. QED
    BY <1>2, <1>3

\* The last message ends the transaction and leaves a backed pool.
LEMMA ProvideLiquidityStep ==
    ASSUME ReturnsAreAmounts, IInv, ProvideLiquidity
    PROVE  IInv'
  <1> DEFINE x == held[A] - Prev(tx, A)
             y == held[B] - Prev(tx, B)
  <1>1. /\ Begun(pair_type, tx)
        /\ held' = [held EXCEPT ![A] = Prev(tx, A), ![B] = Prev(tx, B)]
        /\ Head(queue).prev_balances = [t \in {A, B} |-> Prev(tx, t)]
        /\ Tail(queue) = <<>>
        /\ Prev(tx, A) \in Nat /\ Prev(tx, B) \in Nat
    BY ProvideFacts
  <1>2. /\ x >= 0 /\ y >= 0 /\ Minted(x, y) > 0
        /\ pool' = [a |-> pool.a + x, b |-> pool.b + y, total |-> pool.total + Minted(x, y)]
        /\ queue' = <<>> /\ tx' = NoTx
        /\ pair_type' = pair_type /\ maker_fee' = maker_fee /\ market' = market
    BY <1>1 DEF ProvideLiquidity, Minted
  <1>3. /\ A \in Tokens /\ B \in Tokens /\ held \in [Tokens -> Nat]
        /\ Backed(pool) /\ pair_type \in PairTypes
        /\ maker_fee \in MakerFees /\ market \in MarketStates
    BY <1>1 DEF Tokens, IInv, Accounts
  <1>4. x \in Nat /\ y \in Nat
    BY <1>1, <1>2, <1>3
  <1>5. held' \in [Tokens -> Nat]
    BY <1>1, <1>3
  <1> HIDE DEF x, y
  <1>6. Minted(x, y) \in Nat /\ (pool.total = 0 => x > 0 /\ y > 0)
    BY <1>2, <1>3, <1>4, MintedFacts
  <1>7. Backed(pool')
    <2>1. /\ pool.a \in Nat /\ pool.b \in Nat /\ pool.total \in Nat
          /\ pool.total > 0 => pool.a > 0 /\ pool.b > 0
      BY <1>3 DEF Backed
    <2> DEFINE a == pool.a
               b == pool.b
               total == pool.total
               minted == Minted(x, y)
    <2>2. minted \in Nat /\ a \in Nat /\ b \in Nat /\ total \in Nat
      BY <1>6, <2>1
    <2>3. a + x > 0 /\ b + y > 0
      BY <1>4, <1>6, <2>1
    <2>4. pool' = [a |-> a + x, b |-> b + y, total |-> total + minted]
      BY <1>2
    <2> HIDE DEF a, b, total, minted
    <2>5. a + x \in Nat /\ b + y \in Nat /\ total + minted \in Nat
      BY <1>4, <2>2
    <2>6. QED
      BY <2>3, <2>4, <2>5 DEF Backed
  <1>8. Accounts(pair_type, held', pool', maker_fee, market, <<>>, NoTx)
    BY <1>3, <1>5, <1>7 DEF Accounts
  <1>9. QED
    BY <1>2, <1>8 DEF IInv

\* A transaction that fails, and what others do between transactions.
LEMMA OtherSteps ==
    ASSUME PoolsAreBacked, IInv,
           Revert \/ (\E t \in Tokens : Donate(t)) \/ OthersTrade \/ UNCHANGED vars
    PROVE  IInv'
  <1>1. /\ pair_type \in PairTypes /\ held \in [Tokens -> Nat] /\ Backed(pool)
        /\ maker_fee \in MakerFees /\ market \in MarketStates
        /\ tx = NoTx => queue = <<>>
    <2>1. Begun(pair_type, tx) => tx # NoTx
      BY DEF Begun
    <2>2. QED
      BY <2>1 DEF IInv, Accounts
  <1>2. CASE Revert
    <2>1. Begun(pair_type, tx)
      BY <1>2, PhaseOfHead DEF Revert
    <2>2. /\ held' \in [Tokens -> Nat] /\ Backed(pool') /\ market' \in MarketStates
          /\ pair_type' = pair_type /\ maker_fee' = maker_fee
          /\ queue' = <<>> /\ tx' = NoTx
      <3>1. /\ held' = tx.undo.held /\ pool' = tx.undo.pool /\ market' = tx.undo.market
            /\ pair_type' = pair_type /\ maker_fee' = maker_fee
            /\ queue' = <<>> /\ tx' = NoTx
        BY <1>2 DEF Revert
      <3>2. /\ tx.undo.held \in [Tokens -> Nat] /\ Backed(tx.undo.pool)
            /\ tx.undo.market \in MarketStates
        BY <2>1 DEF Begun
      <3>3. QED
        BY <3>1, <3>2
    <2>3. Accounts(pair_type, held', pool', maker_fee, market', <<>>, NoTx)
      BY <1>1, <2>2 DEF Accounts
    <2>4. QED
      BY <2>2, <2>3 DEF IInv
  <1>3. CASE \E t \in Tokens : Donate(t)
    <2>1. PICK t \in Tokens : Donate(t)
      BY <1>3
    <2>2. /\ held' = [held EXCEPT ![t] = @ + 1] /\ tx = NoTx
          /\ pair_type' = pair_type /\ pool' = pool /\ queue' = queue /\ tx' = tx
          /\ maker_fee' = maker_fee /\ market' = market
      BY <2>1 DEF Donate
    <2>3. held' \in [Tokens -> Nat]
      BY <1>1, <2>2
    <2>4. Accounts(pair_type, held', pool, maker_fee, market, queue, tx)
      BY <1>1, <2>2, <2>3 DEF Accounts
    <2>5. QED
      BY <2>2, <2>4 DEF IInv
  <1>4. CASE OthersTrade
    <2>1. /\ tx = NoTx /\ pool' \in Pools(pair_type)
          /\ maker_fee' \in MakerFees /\ market' \in Markets
          /\ pair_type' = pair_type /\ held' = held /\ queue' = queue /\ tx' = tx
      BY <1>4 DEF OthersTrade
    <2>2. Backed(pool') /\ market' \in MarketStates
      BY <1>1, <2>1, CompoundAssumption DEF PoolsAreBacked
    <2>3. Accounts(pair_type, held, pool', maker_fee', market', queue, tx)
      BY <1>1, <2>1, <2>2 DEF Accounts
    <2>4. QED
      BY <2>1, <2>3 DEF IInv
  <1>5. CASE UNCHANGED vars
    BY <1>5 DEF IInv, vars
  <1>6. QED
    BY <1>2, <1>3, <1>4, <1>5

\* Nothing is under way at first.
LEMMA Initially ==
    ASSUME PoolsAreBacked, Init
    PROVE  IInv
  <1>1. Backed(pool) /\ pair_type \in PairTypes
    BY DEF Init, PoolsAreBacked
  <1>2. held \in [Tokens -> Nat]
    BY DEF Init
  <1>3. maker_fee \in MakerFees /\ market \in MarketStates
    BY CompoundAssumption DEF Init
  <1>4. QED
    BY <1>1, <1>2, <1>3 DEF IInv, Accounts, Init

\* Every step keeps the accounts.
LEMMA Preserved ==
    ASSUME ReturnsAreAmounts, PoolsAreBacked, IInv, [Next]_vars
    PROVE  IInv'
  <1>1. ASSUME NEW rewards \in Rewards, NEW funds \in Funds, NEW no_swap \in BOOLEAN,
               Compound(rewards, funds, no_swap)
        PROVE  IInv'
    BY <1>1, CompoundStep
  <1>2. CASE DepositAndSwap
    BY <1>2, DepositAndSwapStep
  <1>3. CASE OptimalSwap
    BY <1>3, OptimalSwapStep
  <1>4. CASE PairSwap
    BY <1>4, PairSwapStep
  <1>5. CASE ProvideLiquidity
    BY <1>5, ProvideLiquidityStep
  <1>6. CASE Revert \/ (\E t \in Tokens : Donate(t)) \/ OthersTrade \/ UNCHANGED vars
    BY <1>6, OtherSteps
  <1>7. QED
    BY <1>1, <1>2, <1>3, <1>4, <1>5, <1>6 DEF Next

\* The accounts of every compound add up at every message.
THEOREM Invariance ==
    ASSUME ReturnsAreAmounts, PoolsAreBacked
    PROVE  Spec => []IInv
  <1>1. Init => IInv
    BY Initially
  <1>2. IInv /\ [Next]_vars => IInv'
    BY Preserved
  <1>3. QED
    BY <1>1, <1>2, PTL DEF Spec

-----------------------------------------------------------------------------
(* The properties *)

\* The messages of a transaction are messages.
LEMMA MessagesTyped ==
    ASSUME ReturnsAreAmounts, NEW type, NEW x, Begun(type, x),
           NEW p, Backed(p), NEW b \in [Tokens -> Nat]
    PROVE  /\ SwapMessage \in Message /\ ProvideMessage(x) \in Message
           /\ \A h \in Nat : RewardsMessage(x.rewards, h) \in Message
           /\ \A t \in {A, B} : PairMessage(t, SaleAt(p, b[A], b[B])[t].sold) \in Message
  <1> DEFINE Type == {"Rewards", "OptimalSwap", "PairSwap", "ProvideLiquidity"}
             Zero == [t \in {A, B} |-> 0]
             Before == [t \in {A, B} |-> Prev(x, t)]
             sale == SaleAt(p, b[A], b[B])
  <1>1. <<>> \in Rewards
    <2>1. <<>> \in [1 .. 0 -> Reward]
      OBVIOUS
    <2>2. 0 \in 0 .. MaxRewards
      BY CompoundAssumption
    <2>3. QED
      BY <2>1, <2>2 DEF Rewards
  <1>2. Zero \in [{A, B} -> Nat]
    OBVIOUS
  <1>3. Before \in [{A, B} -> Nat]
    <2>1. ASSUME NEW t \in {A, B} PROVE Prev(x, t) \in Nat
      <3>1. /\ x.rewards \in Rewards /\ x.funds \in Funds /\ Paid(x.rewards, x.funds)
            /\ t \in Tokens /\ x.undo.held[t] \in Nat
        BY DEF Begun, Tokens
      <3>2. /\ Sent(x.funds, t) \in Nat /\ Named(x.rewards, t) \in Nat
            /\ Named(x.rewards, t) <= Sent(x.funds, t)
        BY <3>1, NamedFacts
      <3>3. QED
        BY <3>1, <3>2 DEF Prev
    <2>2. QED
      BY <2>1
  <1>4. sale[A].sold \in Nat /\ sale[B].sold \in Nat
    <2>1. b[A] \in Nat /\ b[B] \in Nat
      BY DEF Tokens
    <2>2. sale[A] \in [sold: Nat, returned: Nat] /\ sale[B] \in [sold: Nat, returned: Nat]
      BY <2>1, SaleAtFacts
    <2> HIDE DEF sale
    <2>3. QED
      BY <2>2
  <1> HIDE DEF Zero, Before, sale
  <1>5. ASSUME NEW kind \in Type, NEW r \in Rewards, NEW h \in Nat, NEW t \in {A, B},
               NEW n \in Nat, NEW balances \in [{A, B} -> Nat]
        PROVE  [type |-> kind, rewards |-> r, handled |-> h, offer |-> t, amount |-> n,
                prev_balances |-> balances] \in Message
    BY DEF Message
  <1> DEFINE none == [type |-> "Rewards", rewards |-> <<>>, handled |-> 0, offer |-> A,
                      amount |-> 0, prev_balances |-> Zero]
  <1>6. NoMessage = none
    BY DEF NoMessage, Zero
  <1>7. SwapMessage = [type |-> "OptimalSwap", rewards |-> <<>>, handled |-> 0, offer |-> A,
                       amount |-> 0, prev_balances |-> Zero]
    <2>1. SwapMessage = [none EXCEPT !.type = "OptimalSwap"]
      BY <1>6 DEF SwapMessage
    <2>2. QED
      BY <2>1
  <1>8. ProvideMessage(x) = [type |-> "ProvideLiquidity", rewards |-> <<>>, handled |-> 0,
                             offer |-> A, amount |-> 0, prev_balances |-> Before]
    <2>1. ProvideMessage(x) = [none EXCEPT !.type = "ProvideLiquidity", !.prev_balances = Before]
      BY <1>6 DEF ProvideMessage, Before
    <2>2. QED
      BY <2>1
  <1>9. \A r, h : RewardsMessage(r, h) = [type |-> "Rewards", rewards |-> r, handled |-> h,
                                          offer |-> A, amount |-> 0, prev_balances |-> Zero]
    <2>1. \A r, h : RewardsMessage(r, h) = [none EXCEPT !.rewards = r, !.handled = h]
      BY <1>6 DEF RewardsMessage
    <2>2. QED
      BY <2>1
  <1>10. \A t, n : PairMessage(t, n) = [type |-> "PairSwap", rewards |-> <<>>, handled |-> 0,
                                        offer |-> t, amount |-> n, prev_balances |-> Zero]
    <2>1. \A t, n : PairMessage(t, n)
                      = [none EXCEPT !.type = "PairSwap", !.offer = t, !.amount = n]
      BY <1>6 DEF PairMessage
    <2>2. QED
      BY <2>1
  <1> HIDE DEF none
  <1>11. A \in {A, B} /\ 0 \in Nat /\ "OptimalSwap" \in Type /\ "ProvideLiquidity" \in Type
         /\ "Rewards" \in Type /\ "PairSwap" \in Type
    OBVIOUS
  <1> HIDE DEF Type
  <1>12. SwapMessage \in Message
    BY <1>1, <1>2, <1>5, <1>7, <1>11
  <1>13. ProvideMessage(x) \in Message
    <2>1. [type |-> "ProvideLiquidity", rewards |-> <<>>, handled |-> 0, offer |-> A,
           amount |-> 0, prev_balances |-> Before] \in Message
      BY <1>1, <1>3, <1>5, <1>11
    <2>2. QED
      BY <1>8, <2>1
  <1>14. \A h \in Nat : RewardsMessage(x.rewards, h) \in Message
    <2>1. x.rewards \in Rewards
      BY DEF Begun
    <2>2. QED
      BY <1>2, <1>5, <1>9, <1>11, <2>1
  <1>15. \A t \in {A, B} : PairMessage(t, sale[t].sold) \in Message
    BY <1>1, <1>2, <1>4, <1>5, <1>10, <1>11
  <1>16. QED
    BY <1>12, <1>13, <1>14, <1>15 DEF sale

\* The invariant implies the types.
LEMMA InvariantTypes ==
    ASSUME ReturnsAreAmounts, IInv
    PROVE  TypeOK
  <1>1. /\ pair_type \in PairTypes /\ held \in [Tokens -> Nat] /\ Backed(pool)
        /\ pool \in [a: Nat, b: Nat, total: Nat]
        /\ maker_fee \in MakerFees /\ market \in MarketStates
    BY DEF IInv, Accounts, Backed
  <1>2. CASE tx = NoTx
    <2>1. queue = <<>>
      BY <1>2 DEF IInv, Accounts, Begun
    <2>2. QED
      BY <1>1, <1>2, <2>1 DEF TypeOK
  <1>3. CASE tx # NoTx
    <2> DEFINE P == Paying(held, pool, market, queue, tx)
               R == Ready(held, pool, queue, tx)
               S == Selling(pair_type, held, pool, queue, tx)
               D == Sold(pair_type, held, pool, maker_fee, queue, tx)
               p == ProvideMessage(tx)
    <2>1. Begun(pair_type, tx) /\ (P \/ R \/ S \/ D) /\ queue # <<>>
      BY <1>3, PhaseOfHead DEF IInv, Accounts
    <2>2. /\ SwapMessage \in Message /\ p \in Message
          /\ \A h \in Nat : RewardsMessage(tx.rewards, h) \in Message
          /\ \A t \in {A, B} :
                PairMessage(t, SaleAt(pool, held[A], held[B])[t].sold) \in Message
      BY <1>1, <2>1, MessagesTyped
    <2>3. ASSUME NEW x \in Message, NEW y \in Message, NEW z \in Message,
                 queue = <<x>> \/ queue = <<x, y>> \/ queue = <<x, y, z>>
          PROVE  \A i \in DOMAIN queue : queue[i] \in Message
      BY <2>3
    <2> HIDE DEF P, R, S, D, p
    <2>4. tx.no_swap \in BOOLEAN
      BY <2>1 DEF Begun
    <2>5. \A i \in DOMAIN queue : queue[i] \in Message
      <3>1. CASE P
        <4>1. PICK h \in Nat :
                  queue = IF tx.no_swap THEN <<RewardsMessage(tx.rewards, h), p>>
                          ELSE <<RewardsMessage(tx.rewards, h), SwapMessage, p>>
          BY <3>1 DEF Paying, P, p
        <4>2. RewardsMessage(tx.rewards, h) \in Message
          BY <2>2
        <4>3. QED
          BY <2>2, <2>3, <2>4, <4>1, <4>2
      <3>2. CASE R
        <4>1. queue = IF tx.no_swap THEN <<p>> ELSE <<SwapMessage, p>>
          BY <3>2 DEF Ready, R, p
        <4>2. QED
          BY <2>2, <2>3, <2>4, <4>1
      <3>3. CASE S
        <4>1. PICK t \in {A, B} :
                  queue = <<PairMessage(t, SaleAt(pool, held[A], held[B])[t].sold), p>>
          BY <3>3 DEF Selling, S, p
        <4>2. QED
          BY <2>2, <2>3, <4>1
      <3>4. CASE D
        <4>1. queue = <<p>>
          BY <3>4 DEF Sold, D, p
        <4>2. QED
          BY <2>2, <2>3, <4>1
      <3>5. QED
        BY <2>1, <3>1, <3>2, <3>3, <3>4
    <2>6. QED
      BY <1>1, <1>3, <2>1, <2>5 DEF TypeOK
  <1>4. QED
    BY <1>2, <1>3

\* Balances and reserves are amounts at every message of every compound: no
\* sale takes more than there is, and no division has a zero divisor.
THEOREM TypeCorrect ==
    ASSUME ReturnsAreAmounts, PoolsAreBacked
    PROVE  Spec => []TypeOK
  <1>1. IInv => TypeOK
    BY InvariantTypes
  <1>2. QED
    BY <1>1, Invariance, PTL

\* The balance covers what optimal_swap has decided to sell when the pair
\* takes it.
SwapIsPaid == Executes("PairSwap") => Head(queue).amount <= held[Head(queue).offer]

\* What optimal_swap has decided to sell is there when the pair takes it,
\* for every pool, commission and balance.
THEOREM SwapsArePaid ==
    ASSUME ReturnsAreAmounts, PoolsAreBacked
    PROVE  Spec => []SwapIsPaid
  <1>1. IInv => SwapIsPaid
    BY SellingFacts DEF SwapIsPaid
  <1>2. QED
    BY <1>1, Invariance, PTL

\* The balances that the last message leaves.
LEMMA IdleStaysStep ==
    ASSUME ReturnsAreAmounts, IInv, ProvideLiquidity
    PROVE  /\ \A t \in {A, B} :
                 held'[t] = tx.undo.held[t] + Sent(tx.funds, t) - Named(tx.rewards, t)
           /\ \A t \in Tokens \ {A, B} :
                 held'[t] < tx.undo.held[t] => SoldTwice(tx.rewards, t)
  <1>1. /\ Begun(pair_type, tx)
        /\ held' = [held EXCEPT ![A] = Prev(tx, A), ![B] = Prev(tx, B)]
        /\ \A t \in Tokens \ {A, B} : ~SoldTwice(tx.rewards, t) => held[t] >= tx.undo.held[t]
    BY ProvideFacts
  <1>2. /\ held \in [Tokens -> Nat] /\ tx.undo.held \in [Tokens -> Nat]
        /\ A \in Tokens /\ B \in Tokens /\ A # B
    BY <1>1, CompoundAssumption DEF IInv, Accounts, Begun, Tokens
  <1>3. ASSUME NEW t \in {A, B}
        PROVE  held'[t] = tx.undo.held[t] + Sent(tx.funds, t) - Named(tx.rewards, t)
    <2>1. held'[t] = Prev(tx, t)
      BY <1>1, <1>2
    <2>2. /\ tx.rewards \in Rewards /\ tx.funds \in Funds /\ Paid(tx.rewards, tx.funds)
          /\ t \in Tokens
      BY <1>1, <1>2 DEF Begun
    <2>3. /\ Sent(tx.funds, t) \in Nat /\ Named(tx.rewards, t) \in Nat
          /\ tx.undo.held[t] \in Nat
      BY <1>2, <2>2, NamedFacts
    <2>4. QED
      BY <2>1, <2>3 DEF Prev
  <1>4. ASSUME NEW t \in Tokens \ {A, B}, held'[t] < tx.undo.held[t]
        PROVE  SoldTwice(tx.rewards, t)
    <2>1. held'[t] = held[t]
      BY <1>1, <1>2
    <2>2. held[t] \in Nat /\ tx.undo.held[t] \in Nat
      BY <1>2
    <2>3. QED
      BY <1>1, <1>4, <2>1, <2>2
  <1>5. QED
    BY <1>3, <1>4

\* A compound that goes through leaves of the pair's assets what was there
\* before, and what came with it unnamed, whatever it names and however often.
\* Of other tokens no less is left, but for a native with a proxy that is named
\* more than once: optimal_swap and the proxies sell nothing else that lay there.
THEOREM IdleTokensStay ==
    ASSUME ReturnsAreAmounts, PoolsAreBacked
    PROVE  Spec => IdleStays
  <1>1. IInv /\ [Next]_vars
          => [ProvideLiquidity =>
                /\ \A t \in {A, B} :
                      held'[t] = tx.undo.held[t] + Sent(tx.funds, t) - Named(tx.rewards, t)
                /\ \A t \in Tokens \ {A, B} :
                      held'[t] < tx.undo.held[t] => SoldTwice(tx.rewards, t)]_vars
    BY IdleStaysStep
  <1>2. QED
    BY <1>1, Invariance, PTL DEF Spec, IdleStays

\* The pool of the simulation is backed, and has the LP of the pool before.
LEMMA PoolWithBacked ==
    ASSUME NEW p, Backed(p), NEW x \in Nat, NEW y \in Nat
    PROVE  LET w == PoolWith(p, SaleAt(p, x, y)) IN Backed(w) /\ w.total = p.total
  <1> DEFINE s == SaleAt(p, x, y)
             w == PoolWith(p, s)
  <1>1. /\ s[A] \in [sold: Nat, returned: Nat] /\ s[B] \in [sold: Nat, returned: Nat]
        /\ s[A].sold = 0 \/ s[B].sold = 0
        /\ s[A].sold = 0 => s[A].returned = 0
        /\ s[B].sold = 0 => s[B].returned = 0
        /\ s[A].sold > 0 => s[A].returned = Simulate(p.a, p.b, s[A].sold, Commission)
        /\ s[B].sold > 0 => s[B].returned = Simulate(p.b, p.a, s[B].sold, Commission)
    BY SaleAtFacts
  <1>2. p.a \in Nat /\ p.b \in Nat /\ A # B /\ Commission \in 0 .. COMMISSION_DENOM - 1
    BY CompoundAssumption DEF Backed
  <1> HIDE DEF s
  <1>3. CASE s[A].sold = 0 /\ s[B].sold = 0
    BY <1>1, <1>3, PoolWithNoSale DEF s
  <1>4. ASSUME NEW t \in {A, B}, s[t].sold > 0,
               \A z \in {A, B} : z # t => s[z].sold = 0 /\ s[z].returned = 0
        PROVE  Backed(w) /\ w.total = p.total
    <2> DEFINE sold == s[t].sold
               ret  == s[t].returned
               offer == IF t = A THEN p.a ELSE p.b
               ask == IF t = A THEN p.b ELSE p.a
    <2>1. /\ sold \in Nat \ {0} /\ ret \in Nat /\ ret = Simulate(offer, ask, sold, Commission)
          /\ offer \in Nat /\ ask \in Nat
      BY <1>1, <1>2, <1>4
    <2>2. w = Swapped(p, t, sold, ret, 0)
      BY <1>4, <2>1, PoolWithSale
    <2> HIDE DEF sold, ret, offer, ask, w
    <2>3. ret <= ask /\ (offer > 0 /\ ask > 0 => ret < ask)
      BY <1>2, <2>1, SimulateBounds
    <2>4. /\ ret + 0 <= IF t = A THEN p.b ELSE p.a
          /\ p.a > 0 /\ p.b > 0 => ret + 0 < IF t = A THEN p.b ELSE p.a
      BY <2>1, <2>3 DEF offer, ask
    <2>5. 0 \in Nat /\ sold \in Nat
      BY <2>1
    <2>6. Backed(Swapped(p, t, sold, ret, 0)) /\ Swapped(p, t, sold, ret, 0).total = p.total
      BY <2>1, <2>4, <2>5, SwappedBacked
    <2>7. QED
      BY <2>2, <2>6
  <1>5. CASE s[A].sold # 0
    BY <1>1, <1>2, <1>4, <1>5 DEF s
  <1>6. CASE s[B].sold # 0
    BY <1>1, <1>2, <1>4, <1>6 DEF s
  <1>7. QED
    BY <1>3, <1>5, <1>6

\* The last message mints the LP of what the contract has.
LEMMA MintedOfAll ==
    ASSUME ReturnsAreAmounts, IInv, ProvideLiquidity, Foreseen
    PROVE  /\ Begun(pair_type, tx) /\ ForeseenIn(tx)
           /\ Sold(pair_type, held, pool, maker_fee, queue, tx)
           /\ held[A] \in Nat /\ held[B] \in Nat /\ Backed(pool)
           /\ Minted(held[A], held[B]) \in Nat
           /\ pool'.total - pool.total = Minted(held[A], held[B])
  <1>1. ForeseenIn(tx)
    BY AtPool
  <1>2. /\ Begun(pair_type, tx) /\ Sold(pair_type, held, pool, maker_fee, queue, tx)
        /\ Head(queue).prev_balances = [t \in {A, B} |-> Prev(tx, t)]
    BY <1>1, ProvideFacts DEF ForeseenIn
  <1>3. held[A] \in Nat /\ held[B] \in Nat /\ Backed(pool)
    BY DEF IInv, Accounts, Tokens
  <1>4. ASSUME NEW t \in {A, B} PROVE Prev(tx, t) = 0
    <2>1. /\ tx.rewards \in Rewards /\ tx.funds \in Funds /\ Paid(tx.rewards, tx.funds)
          /\ t \in Tokens
      BY <1>2 DEF Begun, Tokens
    <2>2. Named(tx.rewards, t) \in Nat
      BY <2>1, NamedFacts
    <2>3. tx.undo.held[t] + Sent(tx.funds, t) = Named(tx.rewards, t)
      BY <1>1 DEF ForeseenIn
    <2>4. QED
      BY <2>2, <2>3 DEF Prev
  <1>5. /\ held[A] - Head(queue).prev_balances[A] = held[A]
        /\ held[B] - Head(queue).prev_balances[B] = held[B]
    BY <1>2, <1>3, <1>4
  <1>6. pool'.total = pool.total + Minted(held[A], held[B])
    BY <1>5 DEF ProvideLiquidity, Minted
  <1>7. pool.total \in Nat /\ Minted(held[A], held[B]) \in Nat
    BY <1>3, MintedFacts DEF Backed
  <1>8. QED
    BY <1>1, <1>2, <1>3, <1>6, <1>7

\* The LP that the last message mints is no less than the simulation gave, and
\* that much if the pair keeps the commission.
LEMMA SimulationStep ==
    ASSUME ReturnsAreAmounts, IInv, ProvideLiquidity, Foreseen
    PROVE  LET minted == pool'.total - pool.total
           IN  /\ minted >= tx.simulation.lp_amount
               /\ maker_fee = 0 \/ (\A t \in {A, B} : tx.simulation.sale[t] = NoSale)
                  => minted = tx.simulation.lp_amount
  <1> DEFINE p == tx.undo.pool
             x == Brought(tx, A)
             y == Brought(tx, B)
             s == SaleMade(pair_type, tx)
             w == PoolWith(p, s)
             all == Minted(held[A], held[B])
             minted == pool'.total - pool.total
             lp == tx.simulation.lp_amount
             whole == maker_fee = 0 \/ (\A t \in {A, B} : tx.simulation.sale[t] = NoSale)
  <1>1. /\ Begun(pair_type, tx) /\ ForeseenIn(tx)
        /\ Sold(pair_type, held, pool, maker_fee, queue, tx)
        /\ held[A] \in Nat /\ held[B] \in Nat /\ Backed(pool)
        /\ all \in Nat /\ minted = all
    BY MintedOfAll
  <1>2. /\ tx.simulation = SimulationAt(pair_type, p, tx.undo.market, tx.rewards)
        /\ Backed(p) /\ x \in Nat /\ y \in Nat
    BY <1>1, BroughtType DEF Begun
  <1>3. /\ held[A] = Left(pair_type, tx, A) /\ held[B] = Left(pair_type, tx, B)
        /\ pool.total = p.total /\ pool.a <= w.a /\ pool.b <= w.b
        /\ maker_fee = 0 \/ (s[A].sold = 0 /\ s[B].sold = 0) => pool = w
    BY <1>1 DEF Sold
  <1>4. A # B
    BY CompoundAssumption
  <1> HIDE DEF minted
  <1>5. /\ x = RewardsIn(tx.undo.market, tx.rewards, A)
        /\ y = RewardsIn(tx.undo.market, tx.rewards, B)
    BY DEF Brought
  <1>6. tx.simulation.sale = s
    BY <1>2, <1>5 DEF SimulationAt, SaleMade
  <1>7. whole => pool = w
    BY <1>3, <1>6 DEF NoSale
  <1>8. CASE pair_type = "Stable"
    <2>1. /\ s[A].sold = 0 /\ s[A].returned = 0 /\ s[B].sold = 0 /\ s[B].returned = 0
      BY <1>8 DEF SaleMade, NoSale
    <2>2. held[A] = x /\ held[B] = y
      BY <1>2, <1>3, <1>4, <2>1 DEF Left
    <2>3. pool = p
      BY <1>2, <1>3, <2>1, PoolWithNoSale
    <2>4. lp = IF p.total > 0 THEN StableShare(x, y, p, Leverage) ELSE ProvideShare(x, y, p)
      BY <1>2, <1>5, <1>8 DEF SimulationAt
    <2>5. all = lp
      BY <1>8, <2>2, <2>3, <2>4 DEF Minted
    <2> HIDE DEF all, lp, whole
    <2>6. QED
      BY <1>1, <2>5 DEF minted, lp, whole
  <1>9. CASE pair_type # "Stable"
    <2>1. s = SaleAt(p, x, y)
      BY <1>9 DEF SaleMade
    <2>2. /\ held[A] = x - s[A].sold + s[B].returned
          /\ held[B] = y - s[B].sold + s[A].returned
      BY <1>3, <1>4 DEF Left
    <2>3. lp = ProvideShare(x - s[A].sold + s[B].returned, y - s[B].sold + s[A].returned, w)
      BY <1>2, <1>5, <1>9, <2>1 DEF SimulationAt
    <2>4. all = ProvideShare(held[A], held[B], pool) /\ lp = ProvideShare(held[A], held[B], w)
      <3>1. all = ProvideShare(held[A], held[B], pool)
        BY <1>9 DEF Minted
      <3> HIDE DEF all, lp, w, s, x, y
      <3>2. lp = ProvideShare(held[A], held[B], w)
        BY <2>2, <2>3
      <3>3. QED
        BY <3>1, <3>2
    <2>5. Backed(w) /\ w.total = p.total
      <3> HIDE DEF p, x, y, s
      <3>1. LET z == PoolWith(p, SaleAt(p, x, y)) IN Backed(z) /\ z.total = p.total
        BY <1>2, PoolWithBacked
      <3>2. QED
        BY <2>1, <3>1
    <2> HIDE DEF all, lp, whole, w, s
    <2>6. lp <= all
      <3>1. ProvideShare(held[A], held[B], w) <= ProvideShare(held[A], held[B], pool)
        BY <1>1, <1>3, <2>5, ShareMonotone
      <3>2. QED
        BY <2>4, <3>1
    <2>7. whole => all = lp
      BY <1>7, <2>4
    <2>8. lp \in Nat
      BY <1>1, <2>4, <2>5, ProvideShareType
    <2>9. minted >= lp /\ (whole => minted = lp)
      BY <1>1, <2>6, <2>7, <2>8
    <2>10. QED
      BY <2>9 DEF minted, lp, whole
  <1>10. QED
    BY <1>8, <1>9

\* query_compound_simulation, computed before the first message runs, against
\* what the messages bring, for every pair, maker fee and route that no other
\* reward's route meets: the LP is no less, and that much if none of the
\* commission leaves the pair.
THEOREM SimulationsAreKept ==
    ASSUME ReturnsAreAmounts, PoolsAreBacked
    PROVE  Spec => SimulationIsKept
  <1>1. IInv /\ [Next]_vars
          => [ProvideLiquidity /\ Foreseen =>
                 LET minted == pool'.total - pool.total
                 IN  /\ minted >= tx.simulation.lp_amount
                     /\ maker_fee = 0 \/ (\A t \in {A, B} : tx.simulation.sale[t] = NoSale)
                        => minted = tx.simulation.lp_amount]_vars
    BY SimulationStep
  <1>2. QED
    BY <1>1, Invariance, PTL DEF Spec, SimulationIsKept

\* The sale is the best one, whichever asset is in excess.
LEMMA SaleIsBestStep ==
    ASSUME IInv
    PROVE  SaleIsBest
  <1> SUFFICES ASSUME pool.total > 0
               PROVE  LET sale == OptimalSale(held[A], held[B])
                          mirrored == [pool EXCEPT !.a = pool.b, !.b = pool.a]
                      IN  /\ held[A] * pool.b >= held[B] * pool.a =>
                                IsBestSale(sale[A].sold, held[A], held[B], pool, Commission)
                          /\ held[B] * pool.a >= held[A] * pool.b =>
                                IsBestSale(sale[B].sold, held[B], held[A], mirrored, Commission)
    BY DEF SaleIsBest
  <1> DEFINE x == held[A]
             y == held[B]
             sale == OptimalSale(x, y)
             mirrored == [pool EXCEPT !.a = pool.b, !.b = pool.a]
  <1>1. x \in Nat /\ y \in Nat /\ Backed(pool) /\ pool \in [a: Nat, b: Nat, total: Nat]
    BY DEF IInv, Accounts, Backed, Tokens
  <1>2. /\ Backed(mirrored) /\ mirrored.total = pool.total
        /\ mirrored.a = pool.b /\ mirrored.b = pool.a
    BY <1>1 DEF Backed
  <1>3. Commission \in 0 .. COMMISSION_DENOM - 1 /\ A # B
    BY CompoundAssumption
  <1>4. /\ sale[A].sold \in {0, GetSwapAmount(x, y, pool.a, pool.b, Commission)}
        /\ sale[B].sold \in {0, GetSwapAmount(y, x, pool.b, pool.a, Commission)}
    BY <1>3 DEF OptimalSale, Sale, NoSale
  <1>5. x * pool.b \in Nat /\ y * pool.a \in Nat
    BY <1>1
  <1> HIDE DEF x, y, sale, mirrored
  <1>6. ASSUME x * pool.b >= y * pool.a
        PROVE  IsBestSale(sale[A].sold, x, y, pool, Commission)
    <2>1. y * pool.a <= x * pool.b
      BY <1>5, <1>6
    <2>2. QED
      BY <1>1, <1>3, <1>4, <2>1, BestSale
  <1>7. ASSUME y * pool.a >= x * pool.b
        PROVE  IsBestSale(sale[B].sold, y, x, mirrored, Commission)
    <2>1. x * mirrored.a <= y * mirrored.b
      BY <1>2, <1>5, <1>7
    <2>2. QED
      BY <1>1, <1>2, <1>3, <1>4, <2>1, BestSale
  <1>8. QED
    BY <1>6, <1>7 DEF x, y, sale, mirrored

\* optimal_swap sells the best amount of the asset in excess, for every pool
\* and commission that stays in the pair, but for what its truncated roots are
\* worth.
THEOREM SalesAreBest ==
    ASSUME ReturnsAreAmounts, PoolsAreBacked
    PROVE  Spec => []SaleIsBest
  <1>1. IInv => SaleIsBest
    BY SaleIsBestStep
  <1>2. QED
    BY <1>1, Invariance, PTL

\* compute_d, whose rounds truncate five times, gives the invariant of every
\* stable pool, for every amp and however many the rounds are, as far as Below
\* and Above say.
THEOREM InvariantsAreFound ==
    ASSUME ReturnsAreAmounts, PoolsAreBacked
    PROVE  Spec => []InvariantFound
  <1>1. IInv => InvariantFound
    <2> SUFFICES ASSUME IInv, pool.total > 0
                 PROVE  IsInvariant(Leverage, pool.a, pool.b, ComputeD(Leverage, pool.a, pool.b))
      BY DEF InvariantFound
    <2>1. pool.a \in Nat \ {0} /\ pool.b \in Nat \ {0}
      BY DEF IInv, Accounts, Backed
    <2>2. Leverage \in Nat /\ 2 * AMP_PRECISION <= Leverage
      BY CompoundAssumption, PoolMathAssumption
    <2>3. QED
      BY <2>1, <2>2, ComputeDIsInvariant
  <1>2. QED
    BY <1>1, Invariance, PTL
=============================================================================
