--------------------------- MODULE RatiosTheorems ---------------------------
(***************************************************************************)
(* Lemmas about the operators of Ratios: bounds of the truncating and of   *)
(* the rounding-up ratio, and how the total of a ledger changes when one   *)
(* account does.                                                           *)
(***************************************************************************)
EXTENDS Ratios, Integers, Functions, FiniteSetTheorems, TLAPS

\* Division truncates: the quotient is the largest number of whole divisors.
LEMMA DivBounds ==
    ASSUME NEW a \in Nat, NEW d \in Nat \ {0}
    PROVE  /\ a \div d \in Nat
           /\ d * (a \div d) <= a
           /\ a < d * (a \div d) + d
  OBVIOUS

\* Division by one divisor is monotone.
LEMMA DivMonotone ==
    ASSUME NEW a \in Nat, NEW b \in Nat, NEW d \in Nat \ {0}, a <= b
    PROVE  a \div d <= b \div d
  <1> DEFINE p == a \div d
             q == b \div d
  <1>1. p \in Nat /\ q \in Nat /\ d * p <= a /\ b < d * q + d
    BY DivBounds
  <1> HIDE DEF p, q
  <1>2. SUFFICES ASSUME q + 1 <= p PROVE FALSE
    BY <1>1 DEF p, q
  <1>3. d * (q + 1) <= d * p /\ d * (q + 1) = d * q + d
    BY <1>1, <1>2
  <1>4. QED
    BY <1>1, <1>3

\* A product of naturals is monotone in each factor.
LEMMA TimesMonotone ==
    ASSUME NEW a \in Nat, NEW b \in Nat, NEW c \in Nat, a <= b
    PROVE  /\ a * c \in Nat /\ b * c \in Nat
           /\ a * c <= b * c /\ c * a <= c * b
  OBVIOUS

\* A common positive factor can be cancelled.
LEMMA TimesCancel ==
    ASSUME NEW a \in Int, NEW b \in Int, NEW c \in Nat \ {0}, a * c <= b * c
    PROVE  a <= b
  OBVIOUS

\* multiply_ratio never gives more than the exact ratio, and less than one
\* unit below it.
LEMMA MulRatioBounds ==
    ASSUME NEW x \in Nat, NEW num \in Nat, NEW den \in Nat \ {0}
    PROVE  /\ MulRatio(x, num, den) \in Nat
           /\ den * MulRatio(x, num, den) <= x * num
           /\ x * num < den * MulRatio(x, num, den) + den
  <1>1. x * num \in Nat
    OBVIOUS
  <1>2. QED
    BY <1>1, DivBounds DEF MulRatio

\* multiply_ratio_and_ceil never gives less than the exact ratio, and less
\* than one unit above it.
LEMMA MulRatioCeilBounds ==
    ASSUME NEW x \in Nat, NEW num \in Nat, NEW den \in Nat \ {0}
    PROVE  /\ MulRatioCeil(x, num, den) \in Nat
           /\ x * num <= den * MulRatioCeil(x, num, den)
           /\ den * MulRatioCeil(x, num, den) < x * num + den
  <1> DEFINE p == x * num
             q == (p + den - 1) \div den
  <1>1. p \in Nat /\ p + den - 1 \in Nat
    OBVIOUS
  <1>2. q \in Nat /\ den * q <= p + den - 1 /\ p + den - 1 < den * q + den
    BY <1>1, DivBounds
  <1>3. den * q \in Nat
    BY <1>2
  <1> HIDE DEF p, q
  <1>4. p <= den * q /\ den * q < p + den
    BY <1>1, <1>2, <1>3
  <1>5. QED
    BY <1>2, <1>4 DEF p, q, MulRatioCeil

\* Shares that are minted at the truncated price take nothing from the others:
\* the pot p of t shares becomes q.
LEMMA MintingIsFair ==
    ASSUME NEW t \in Nat \ {0}, NEW p \in Nat, NEW q \in Nat, q > p,
           NEW m \in Nat, p # 0 => m = MulRatio(q - p, t, p)
    PROVE  q * t >= p * (t + m)
  <1>1. CASE p = 0
    BY <1>1
  <1>2. CASE p # 0
    <2>1. q - p \in Nat /\ p * m <= (q - p) * t
      BY <1>2, MulRatioBounds
    <2>2. (q - p) * t = q * t - p * t /\ p * (t + m) = p * t + p * m
      OBVIOUS
    <2>3. q * t \in Nat /\ p * t \in Nat /\ p * m \in Nat
      OBVIOUS
    <2>4. QED
      BY <2>1, <2>2, <2>3
  <1>3. QED
    BY <1>1, <1>2

\* Shares that are given up for at most what they are worth take nothing from
\* the others: the pot p of t shares becomes the pot q of v shares.
LEMMA BurningIsFair ==
    ASSUME NEW t \in Nat, NEW v \in Nat, NEW p \in Nat, NEW q \in Nat,
           (p - q) * t <= (t - v) * p
    PROVE  q * t >= p * v
  <1>1. (p - q) * t = p * t - q * t /\ (t - v) * p = p * t - p * v
    OBVIOUS
  <1>2. p * t \in Nat /\ q * t \in Nat /\ p * v \in Nat
    OBVIOUS
  <1>3. QED
    BY <1>1, <1>2

\* A ratio of at most one does not enlarge, whichever way it is rounded.
LEMMA RatioAtMostOne ==
    ASSUME NEW x \in Nat, NEW num \in Nat, NEW den \in Nat \ {0}, num <= den
    PROVE  MulRatio(x, num, den) <= x /\ MulRatioCeil(x, num, den) <= x
  <1> DEFINE m == MulRatio(x, num, den)
             c == MulRatioCeil(x, num, den)
  <1>1. x * num <= x * den
    BY TimesMonotone
  <1>2. m \in Nat /\ den * m <= x * num
    BY MulRatioBounds
  <1>3. c \in Nat /\ den * c < x * num + den
    BY MulRatioCeilBounds
  <1> HIDE DEF m, c
  <1>4. m <= x
    <2>1. m * den <= x * den
      BY <1>1, <1>2
    <2>2. QED
      BY <2>1, <1>2, TimesCancel
  <1>5. c <= x
    <2>1. SUFFICES ASSUME x + 1 <= c PROVE FALSE
      BY <1>3
    <2>2. den * (x + 1) <= den * c
      BY <2>1, <1>3, TimesMonotone
    <2>3. den * (x + 1) = x * den + den
      OBVIOUS
    <2>4. QED
      BY <1>1, <1>3, <2>2, <2>3
  <1>6. QED
    BY <1>4, <1>5 DEF m, c

\* The average of two times is a time not after the later of them.
LEMMA DepositTimeBound ==
    ASSUME NEW a \in Nat, NEW b \in Nat, a + b > 0,
           NEW s \in Nat, NEW t \in Nat, NEW now \in Nat, s <= now, t <= now
    PROVE  /\ DepositTime(a, b, s, t) \in Nat
           /\ DepositTime(a, b, s, t) <= now
  <1> DEFINE sum == a * s + b * t
             q == sum \div (a + b)
  <1>1. a * s \in Nat /\ a * s <= a * now /\ b * t \in Nat /\ b * t <= b * now
    BY TimesMonotone
  <1>2. sum \in Nat /\ a + b \in Nat \ {0}
    BY <1>1
  <1>3. q \in Nat /\ (a + b) * q <= sum
    BY <1>2, DivBounds
  <1>4. (a + b) * now = a * now + b * now
    OBVIOUS
  <1>5. sum <= (a + b) * now
    BY <1>1, <1>4
  <1> HIDE DEF sum, q
  <1>6. q * (a + b) <= now * (a + b)
    BY <1>2, <1>3, <1>5
  <1>7. q <= now
    BY <1>2, <1>3, <1>6, TimesCancel
  <1>8. QED
    BY <1>3, <1>7 DEF sum, q, DepositTime

-----------------------------------------------------------------------------
(* Ledgers *)

\* The units of one account: finite, and as many as its balance.
LEMMA AccountUnits ==
    ASSUME NEW x, NEW n \in Nat
    PROVE  /\ IsFiniteSet({x} \X (1 .. n))
           /\ Cardinality({x} \X (1 .. n)) = n
  <1>1. IsFiniteSet({x}) /\ Cardinality({x}) = 1
    BY FS_Singleton
  <1>2. IsFiniteSet(1 .. n) /\ Cardinality(1 .. n) = n
    BY FS_Interval
  <1>3. /\ IsFiniteSet({x} \X (1 .. n))
        /\ Cardinality({x} \X (1 .. n)) = Cardinality({x}) * Cardinality(1 .. n)
    BY <1>1, <1>2, FS_Product
  <1>4. QED
    BY <1>1, <1>2, <1>3

\* A ledger over finitely many accounts has finitely many units.
LEMMA UnitsFinite ==
    ASSUME NEW S, IsFiniteSet(S), NEW f \in [S -> Nat]
    PROVE  IsFiniteSet(Units(f))
  <1> DEFINE A(x) == {x} \X (1 .. f[x])
             T == {A(x) : x \in S}
             F == [x \in S |-> A(x)]
  <1>1. F \in Surjection(S, T)
    BY DEF Surjection
  <1>2. IsFiniteSet(T)
    BY <1>1, FS_Surjection
  <1>3. ASSUME NEW x \in S PROVE IsFiniteSet(A(x))
    BY AccountUnits, f[x] \in Nat
  <1>4. IsFiniteSet(UNION T)
    BY <1>2, <1>3, FS_UNION
  <1>5. QED
    BY <1>4 DEF Units

\* The total of a ledger is a natural number.
LEMMA TotalType ==
    ASSUME NEW S, IsFiniteSet(S), NEW f \in [S -> Nat]
    PROVE  Total(f) \in Nat
  BY UnitsFinite, FS_CardinalityType DEF Total

\* The units that do not belong to the account u.
Others(f, u) == UNION {{x} \X (1 .. f[x]) : x \in DOMAIN f \ {u}}

\* The total is the balance of one account and the units of the others.
LEMMA TotalSplit ==
    ASSUME NEW S, IsFiniteSet(S), NEW f \in [S -> Nat], NEW u \in S
    PROVE  /\ Cardinality(Others(f, u)) \in Nat
           /\ Total(f) = Cardinality(Others(f, u)) + f[u]
  <1> DEFINE A == {u} \X (1 .. f[u])
  <1>1. Units(f) = Others(f, u) \cup A
    BY DEF Units, Others
  <1>2. Others(f, u) \cap A = {}
    BY DEF Others
  <1>3. IsFiniteSet(Others(f, u))
    BY <1>1, UnitsFinite, FS_Subset
  <1>4. IsFiniteSet(A) /\ Cardinality(A) = f[u]
    BY AccountUnits
  <1>5. Cardinality(Others(f, u) \cap A) = 0
    BY <1>2, FS_EmptySet
  <1>6. Cardinality(Others(f, u)) \in Nat
    BY <1>3, FS_CardinalityType
  <1> HIDE DEF A
  <1>7. Cardinality(Units(f)) = Cardinality(Others(f, u)) + Cardinality(A)
                                  - Cardinality(Others(f, u) \cap A)
    BY <1>1, <1>3, <1>4, FS_Union
  <1>8. QED
    BY <1>4, <1>5, <1>6, <1>7 DEF Total

\* When one account changes, the total changes by as much.
LEMMA TotalUpdate ==
    ASSUME NEW S, IsFiniteSet(S), NEW f \in [S -> Nat], NEW u \in S,
           NEW v \in Nat
    PROVE  Total([f EXCEPT ![u] = v]) = Total(f) - f[u] + v
  <1> DEFINE g == [f EXCEPT ![u] = v]
  <1>1. g \in [S -> Nat] /\ g[u] = v
    OBVIOUS
  <1>2. Others(g, u) = Others(f, u)
    BY DEF Others
  <1>3. Total(g) = Cardinality(Others(g, u)) + g[u]
    BY <1>1, TotalSplit
  <1>4. Total(f) = Cardinality(Others(f, u)) + f[u]
        /\ Cardinality(Others(f, u)) \in Nat
    BY TotalSplit
  <1> HIDE DEF g
  <1>5. Total(g) = Total(f) - f[u] + v
    BY <1>1, <1>2, <1>3, <1>4
  <1>6. QED
    BY <1>5 DEF g

\* Two ledgers that differ in one account.
LEMMA TotalReplaced ==
    ASSUME NEW S, IsFiniteSet(S), NEW f \in [S -> Nat], NEW g \in [S -> Nat], NEW u \in S,
           \A x \in S : x # u => g[x] = f[x]
    PROVE  Total(g) = Total(f) - f[u] + g[u]
  <1>1. g = [f EXCEPT ![u] = g[u]]
    OBVIOUS
  <1>2. g[u] \in Nat
    OBVIOUS
  <1>3. Total([f EXCEPT ![u] = g[u]]) = Total(f) - f[u] + g[u]
    BY <1>2, TotalUpdate
  <1>4. QED
    BY <1>1, <1>3

\* What one account passes on to another does not change the total.
LEMMA TotalMoved ==
    ASSUME NEW S, IsFiniteSet(S), NEW f \in [S -> Nat], NEW g \in [S -> Nat],
           NEW u \in S, NEW v \in S, u # v,
           g[u] + g[v] = f[u] + f[v],
           \A x \in S : x # u /\ x # v => g[x] = f[x]
    PROVE  Total(g) = Total(f)
  <1> DEFINE h == [f EXCEPT ![u] = g[u]]
  <1>1. /\ h \in [S -> Nat] /\ h[u] = g[u] /\ h[v] = f[v]
        /\ \A x \in S : x # u => h[x] = f[x]
        /\ \A x \in S : x # v => g[x] = h[x]
    OBVIOUS
  <1> HIDE DEF h
  <1>2. Total(h) = Total(f) - f[u] + h[u]
    BY <1>1, TotalReplaced
  <1>3. Total(g) = Total(h) - h[v] + g[v]
    BY <1>1, TotalReplaced
  <1>4. Total(f) \in Nat /\ Total(g) \in Nat /\ Total(h) \in Nat
    BY <1>1, TotalType
  <1>5. f[u] \in Nat /\ f[v] \in Nat /\ g[u] \in Nat /\ g[v] \in Nat
    OBVIOUS
  <1>6. QED
    BY <1>1, <1>2, <1>3, <1>4, <1>5

\* No account holds more than the total.
LEMMA TotalBoundsEach ==
    ASSUME NEW S, IsFiniteSet(S), NEW f \in [S -> Nat], NEW u \in S
    PROVE  f[u] <= Total(f)
  BY TotalSplit

\* A ledger of zeros has the total 0.
LEMMA TotalOfZeros ==
    ASSUME NEW S
    PROVE  Total([x \in S |-> 0]) = 0
  <1>1. Units([x \in S |-> 0]) = {}
    BY DEF Units
  <1>2. QED
    BY <1>1, FS_EmptySet DEF Total

-----------------------------------------------------------------------------
(* Totals of ledgers that are related account by account *)

\* Among sets of accounts there is one that no other is a part of.
LEMMA SmallestSet ==
    ASSUME NEW S, IsFiniteSet(S), NEW T \in SUBSET SUBSET S, T # {}
    PROVE  \E U \in T : \A V \in T : V \subseteq U => V = U
  <1>1. IsWellFoundedOn(StrictSubsetOrdering(S), FiniteSubsetsOf(S))
    BY FS_StrictSubsetOrderingWellFounded
  <1>2. FiniteSubsetsOf(S) = SUBSET S
    BY FS_FiniteSubsetsOfFinite
  <1>3. \E U \in T : \A V \in T : ~(<<V, U>> \in StrictSubsetOrdering(S))
    BY <1>1, <1>2, WFMin
  <1>4. \A U, V \in T : V \subseteq U /\ V # U => <<V, U>> \in StrictSubsetOrdering(S)
    BY DEF StrictSubsetOrdering
  <1>5. QED
    BY <1>3, <1>4

\* The part of a ledger that belongs to the accounts of U.
Part(f, U) == [x \in U |-> f[x]]

\* The total of a part is the total without one account, and its balance.
LEMMA TotalOfPart ==
    ASSUME NEW S, IsFiniteSet(S), NEW f \in [S -> Nat], NEW U \in SUBSET S, NEW u \in U
    PROVE  /\ Total(Part(f, U \ {u})) \in Nat
           /\ Total(Part(f, U)) = Total(Part(f, U \ {u})) + f[u]
  <1>1. IsFiniteSet(U) /\ IsFiniteSet(U \ {u})
    BY FS_Subset
  <1>2. Part(f, U) \in [U -> Nat] /\ Part(f, U \ {u}) \in [U \ {u} -> Nat]
    BY DEF Part
  <1>3. Others(Part(f, U), u) = Units(Part(f, U \ {u}))
    BY DEF Others, Units, Part
  <1>4. Part(f, U)[u] = f[u]
    BY DEF Part
  <1>5. QED
    BY <1>1, <1>2, <1>3, <1>4, TotalSplit, TotalType DEF Total

\* An inequality that holds of the balances of every account holds of the
\* totals.
LEMMA TotalsRelated ==
    ASSUME NEW S, IsFiniteSet(S),
           NEW f \in [S -> Nat], NEW g \in [S -> Nat],
           NEW h \in [S -> Nat], NEW k \in [S -> Nat],
           NEW a \in Nat, NEW b \in Nat,
           \A x \in S : a * f[x] + a * g[x] <= a * h[x] + b * k[x]
    PROVE  a * Total(f) + a * Total(g) <= a * Total(h) + b * Total(k)
  <1> DEFINE Holds(U) == a * Total(Part(f, U)) + a * Total(Part(g, U))
                         <= a * Total(Part(h, U)) + b * Total(Part(k, U))
             T == {U \in SUBSET S : ~Holds(U)}
  <1>1. T = {}
    <2>1. SUFFICES ASSUME T # {} PROVE FALSE
      OBVIOUS
    <2>2. PICK U \in T : \A V \in T : V \subseteq U => V = U
      <3>1. T \in SUBSET SUBSET S
        OBVIOUS
      <3> HIDE DEF T
      <3>2. QED
        BY <2>1, <3>1, SmallestSet
    <2>3. U \in SUBSET S /\ ~Holds(U)
      BY <2>2
    <2>4. CASE U = {}
      <3>1. \A l \in {f, g, h, k} : Part(l, {}) = [x \in {} |-> 0]
        BY DEF Part
      <3>2. \A l \in {f, g, h, k} : Total(Part(l, {})) = 0
        BY <3>1, TotalOfZeros
      <3>3. QED
        BY <2>3, <2>4, <3>2
    <2>5. CASE U # {}
      <3>1. PICK u \in U : TRUE
        BY <2>5
      <3> DEFINE V == U \ {u}
      <3>2. Holds(V)
        <4>1. V \in SUBSET S /\ V \subseteq U /\ V # U
          BY <2>3, <3>1
        <4> HIDE DEF V, Holds
        <4>2. QED
          BY <2>2, <4>1
      <3>3. u \in S
        BY <2>3
      <3>4. \A l \in {f, g, h, k} : /\ Total(Part(l, V)) \in Nat /\ l[u] \in Nat
                                   /\ Total(Part(l, U)) = Total(Part(l, V)) + l[u]
        BY <2>3, <3>3, TotalOfPart
      <3>5. a * f[u] + a * g[u] <= a * h[u] + b * k[u]
        BY <3>3
      <3> DEFINE F == Total(Part(f, V))
                 G == Total(Part(g, V))
                 H == Total(Part(h, V))
                 K == Total(Part(k, V))
      <3>6. /\ F \in Nat /\ G \in Nat /\ H \in Nat /\ K \in Nat
            /\ f[u] \in Nat /\ g[u] \in Nat /\ h[u] \in Nat /\ k[u] \in Nat
            /\ Total(Part(f, U)) = F + f[u] /\ Total(Part(g, U)) = G + g[u]
            /\ Total(Part(h, U)) = H + h[u] /\ Total(Part(k, U)) = K + k[u]
        BY <3>4
      <3>7. a * F + a * G <= a * H + b * K
        BY <3>2
      <3> HIDE DEF F, G, H, K, V
      <3>8. /\ a * (F + f[u]) = a * F + a * f[u] /\ a * (G + g[u]) = a * G + a * g[u]
            /\ a * (H + h[u]) = a * H + a * h[u] /\ b * (K + k[u]) = b * K + b * k[u]
        BY <3>6
      <3>9. /\ a * F \in Nat /\ a * G \in Nat /\ a * H \in Nat /\ b * K \in Nat
            /\ a * f[u] \in Nat /\ a * g[u] \in Nat /\ a * h[u] \in Nat /\ b * k[u] \in Nat
        BY <3>6
      <3>10. a * F + a * f[u] + (a * G + a * g[u]) <= a * H + a * h[u] + (b * K + b * k[u])
        BY <3>5, <3>7, <3>9
      <3>11. Holds(U)
        BY <3>6, <3>8, <3>10
      <3>12. QED
        BY <2>3, <3>11
    <2>6. QED
      BY <2>4, <2>5
  <1>2. Holds(S)
    BY <1>1
  <1>3. \A l \in {f, g, h, k} : Part(l, S) = l
    BY DEF Part
  <1>4. QED
    BY <1>2, <1>3

\* The total of a ledger whose balances are sums is the sum of the totals.
LEMMA TotalOfSum ==
    ASSUME NEW S, IsFiniteSet(S),
           NEW f \in [S -> Nat], NEW g \in [S -> Nat], NEW h \in [S -> Nat],
           \A x \in S : h[x] = f[x] + g[x]
    PROVE  Total(h) = Total(f) + Total(g)
  <1> DEFINE z == [x \in S |-> 0]
  <1>1. z \in [S -> Nat] /\ Total(z) = 0 /\ \A x \in S : z[x] = 0
    BY TotalOfZeros
  <1>2. Total(f) \in Nat /\ Total(g) \in Nat /\ Total(h) \in Nat
    BY TotalType
  <1> HIDE DEF z
  <1>3. 1 * Total(f) + 1 * Total(g) <= 1 * Total(h) + 0 * Total(z)
    <2>1. \A x \in S : 1 * f[x] + 1 * g[x] <= 1 * h[x] + 0 * z[x]
      BY <1>1
    <2>2. 1 \in Nat /\ 0 \in Nat
      OBVIOUS
    <2>3. QED
      BY <1>1, <2>1, <2>2, TotalsRelated
  <1>4. 1 * Total(h) + 1 * Total(z) <= 1 * Total(f) + 1 * Total(g)
    <2>1. \A x \in S : 1 * h[x] + 1 * z[x] <= 1 * f[x] + 1 * g[x]
      BY <1>1
    <2>2. 1 \in Nat
      OBVIOUS
    <2>3. QED
      BY <1>1, <2>1, <2>2, TotalsRelated
  <1>5. QED
    BY <1>1, <1>2, <1>3, <1>4

\* Ledgers that are ordered account by account have totals in that order.
LEMMA TotalMonotone ==
    ASSUME NEW S, IsFiniteSet(S),
           NEW f \in [S -> Nat], NEW h \in [S -> Nat],
           \A x \in S : f[x] <= h[x]
    PROVE  Total(f) <= Total(h)
  <1> DEFINE d == [x \in S |-> h[x] - f[x]]
  <1>1. d \in [S -> Nat] /\ \A x \in S : h[x] = f[x] + d[x]
    OBVIOUS
  <1> HIDE DEF d
  <1>2. Total(h) = Total(f) + Total(d)
    BY <1>1, TotalOfSum
  <1>3. Total(f) \in Nat /\ Total(d) \in Nat
    BY <1>1, TotalType
  <1>4. QED
    BY <1>2, <1>3

\* The total of a ledger whose balances are multiplied is multiplied.
LEMMA TotalScaled ==
    ASSUME NEW S, IsFiniteSet(S), NEW f \in [S -> Nat], NEW c \in Nat,
           NEW g \in [S -> Nat], \A x \in S : g[x] = c * f[x]
    PROVE  Total(g) = c * Total(f)
  <1> DEFINE Holds(U) == Total(Part(g, U)) = c * Total(Part(f, U))
             T == {U \in SUBSET S : ~Holds(U)}
  <1>1. ASSUME T # {} PROVE FALSE
    <2>1. T \in SUBSET SUBSET S
      OBVIOUS
    <2>2. PICK U \in T : \A V \in T : V \subseteq U => V = U
      <3> HIDE DEF T
      <3>1. QED
        BY <1>1, <2>1, SmallestSet
    <2>3. U \in SUBSET S /\ ~Holds(U)
      OBVIOUS
    <2>4. CASE U = {}
      <3>1. Part(f, {}) = [x \in {} |-> 0] /\ Part(g, {}) = [x \in {} |-> 0]
        BY DEF Part
      <3>2. Total(Part(f, {})) = 0 /\ Total(Part(g, {})) = 0
        BY <3>1, TotalOfZeros
      <3>3. QED
        BY <2>3, <2>4, <3>2
    <2>5. CASE U # {}
      <3>1. PICK u \in U : TRUE
        BY <2>5
      <3>2. U \ {u} \in SUBSET S /\ U \ {u} # U /\ u \in S
        BY <2>3, <3>1
      <3>3. Holds(U \ {u})
        BY <2>2, <3>2
      <3> DEFINE F == Total(Part(f, U \ {u}))
                 G == Total(Part(g, U \ {u}))
      <3>4. /\ F \in Nat /\ Total(Part(f, U)) = F + f[u]
            /\ G \in Nat /\ Total(Part(g, U)) = G + g[u]
        BY <2>3, TotalOfPart
      <3>5. f[u] \in Nat /\ g[u] = c * f[u] /\ G = c * F
        BY <3>2, <3>3
      <3> HIDE DEF F, G
      <3>6. c * (F + f[u]) = c * F + c * f[u]
        BY <3>4, <3>5
      <3>7. QED
        BY <2>3, <3>4, <3>5, <3>6
    <2>6. QED
      BY <2>4, <2>5
  <1>2. Holds(S)
    BY <1>1
  <1>3. Part(f, S) = f /\ Part(g, S) = g
    BY DEF Part
  <1>4. QED
    BY <1>2, <1>3

\* A ledger with one unit for each account has as many as there are accounts.
LEMMA TotalOfOnes ==
    ASSUME NEW S, IsFiniteSet(S)
    PROVE  Total([x \in S |-> 1]) = Cardinality(S)
  <1>1. Units([x \in S |-> 1]) = S \X {1}
    BY DEF Units
  <1>2. IsFiniteSet({1}) /\ Cardinality({1}) = 1
    BY FS_Singleton
  <1>3. Cardinality(S \X {1}) = Cardinality(S) * Cardinality({1})
    BY <1>2, FS_Product
  <1>4. Cardinality(S) \in Nat
    BY FS_CardinalityType
  <1>5. Cardinality(S) * 1 = Cardinality(S)
    BY <1>4
  <1>6. QED
    BY <1>1, <1>2, <1>3, <1>5 DEF Total

\* A set of naturals has a smallest member.
LEMMA SmallestNumber ==
    ASSUME NEW T \in SUBSET Nat, T # {}
    PROVE  \E m \in T : \A k \in T : m <= k
  <1>1. PICK n \in T : TRUE
    OBVIOUS
  <1> DEFINE F == {1 .. k : k \in {j \in T : j <= n}}
  <1>2. IsFiniteSet(1 .. n)
    BY <1>1, FS_Interval
  <1>3. F \in SUBSET SUBSET (1 .. n) /\ F # {}
    <2>1. \A k \in T : k <= n => 1 .. k \subseteq 1 .. n
      BY <1>1
    <2>2. \A V \in F : V \subseteq 1 .. n
      BY <2>1
    <2>3. n \in {j \in T : j <= n}
      BY <1>1
    <2>4. 1 .. n \in F
      BY <2>3
    <2>5. QED
      BY <2>2, <2>4
  <1>4. PICK U \in F : \A V \in F : V \subseteq U => V = U
    <2> DEFINE N == 1 .. n
    <2>1. IsFiniteSet(N) /\ F \in SUBSET SUBSET N /\ F # {}
      BY <1>2, <1>3
    <2> HIDE DEF F, N
    <2>2. \E U \in F : \A V \in F : V \subseteq U => V = U
      BY <2>1, SmallestSet
    <2>3. QED
      BY <2>2
  <1>5. PICK m \in T : m <= n /\ U = 1 .. m
    BY <1>4
  <1>6. ASSUME NEW k \in T, k < m PROVE FALSE
    <2>1. 1 .. k \in F /\ 1 .. k \subseteq U
      BY <1>5, <1>6
    <2>2. 1 .. k = 1 .. m
      BY <1>4, <1>5, <2>1
    <2>3. m \in 1 .. m /\ m \notin 1 .. k
      BY <1>6
    <2>4. QED
      BY <2>2, <2>3
  <1>7. QED
    BY <1>5, <1>6

\* A ledger that has something for one row of accounts only.
LEMMA TotalOfRow ==
    ASSUME NEW S, IsFiniteSet(S), NEW R, NEW x \in R, NEW Q, Q = R \X S,
           NEW f \in [S -> Nat], NEW g \in [Q -> Nat],
           \A q \in Q : g[q] = IF q[1] = x THEN f[q[2]] ELSE 0
    PROVE  Total(g) = Total(f)
  <1> DEFINE B == [z \in Units(f) |-> <<<<x, z[1]>>, z[2]>>]
  <1>1. /\ \A y \in S : g[<<x, y>>] = f[y]
        /\ \A q \in R \X S : q[1] # x => g[q] = 0
    OBVIOUS
  <1>2. Units(f) = {z \in S \X Nat : z[2] \in 1 .. f[z[1]]}
    BY DEF Units
  <1>3. Units(g) = {z \in (R \X S) \X Nat : z[2] \in 1 .. g[z[1]]}
    BY DEF Units
  <1>4. ASSUME NEW z \in Units(f)
        PROVE  <<<<x, z[1]>>, z[2]>> \in Units(g)
    <2>1. z[1] \in S /\ z[2] \in Nat /\ z[2] \in 1 .. f[z[1]]
      BY <1>2
    <2>2. g[<<x, z[1]>>] = f[z[1]]
      BY <1>1, <2>1
    <2> DEFINE w == <<<<x, z[1]>>, z[2]>>
    <2>3. w[1] = <<x, z[1]>> /\ w[2] = z[2] /\ w \in (R \X S) \X Nat
      BY <2>1
    <2> HIDE DEF w
    <2>4. w \in Units(g)
      BY <1>3, <2>1, <2>2, <2>3
    <2>5. QED
      BY <2>4 DEF w
  <1>5. B \in [Units(f) -> Units(g)]
    BY <1>4
  <1>6. ASSUME NEW y \in Units(f), NEW z \in Units(f), B[y] = B[z] PROVE y = z
    <2>1. y \in S \X Nat /\ z \in S \X Nat
      BY <1>2
    <2>2. <<<<x, y[1]>>, y[2]>> = <<<<x, z[1]>>, z[2]>>
      BY <1>6
    <2>3. y[1] = z[1] /\ y[2] = z[2]
      BY <2>2
    <2>4. QED
      BY <2>1, <2>3
  <1>7. ASSUME NEW w \in Units(g) PROVE \E z \in Units(f) : B[z] = w
    <2>1. w \in (R \X S) \X Nat /\ w[2] \in 1 .. g[w[1]]
      BY <1>3
    <2>2. w[1] \in R \X S /\ w[2] \in Nat
      BY <2>1
    <2>3. w[1][1] = x
      BY <1>1, <2>1, <2>2
    <2>4. w[1] = <<x, w[1][2]>> /\ w[1][2] \in S /\ w = <<w[1], w[2]>>
      BY <2>1, <2>2, <2>3
    <2> DEFINE z == <<w[1][2], w[2]>>
    <2>5. w[2] \in 1 .. f[w[1][2]]
      BY <1>1, <2>1, <2>4
    <2>6. z \in Units(f)
      BY <1>2, <2>2, <2>4, <2>5
    <2>7. B[z] = <<<<x, w[1][2]>>, w[2]>>
      BY <2>6
    <2>8. QED
      BY <2>4, <2>6, <2>7
  <1>8. ExistsBijection(Units(f), Units(g))
    <2>1. B \in Injection(Units(f), Units(g))
      BY <1>5, <1>6 DEF Injection, IsInjective
    <2>2. B \in Surjection(Units(f), Units(g))
      BY <1>5, <1>7 DEF Surjection
    <2>3. QED
      BY <2>1, <2>2 DEF ExistsBijection, Bijection
  <1>9. Cardinality(Units(g)) = Cardinality(Units(f))
    BY <1>8, UnitsFinite, FS_Bijection
  <1>10. QED
    BY <1>9 DEF Total
=============================================================================
