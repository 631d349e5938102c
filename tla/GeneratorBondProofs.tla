------------------------ MODULE GeneratorBondProofs ------------------------
(***************************************************************************)
(* Theorems about GeneratorBond for every set of holders, pools and        *)
(* tokens, all amounts, rates and bounds.                                  *)
(*                                                                         *)
(* A call leaves messages to execute, so the invariant says in which of    *)
(* three stages a transaction is: the claims (Calm), the shares changed    *)
(* but not the deposit (Changing), both changed but not the pool's record  *)
(* of the generator's indexes (Changed).  What a failing message brings    *)
(* back must satisfy it too (Undone).                                      *)
(*                                                                         *)
(* The books are kept without truncation: a user's claim is SCALE times    *)
(* what he has earned, and a credit, a change of shares or a payment moves *)
(* the sum of the claims by no more than SCALE times what was reconciled   *)
(* (Backed).  The sums are over all pools, since one balance per token     *)
(* holds the rewards of all.                                               *)
(***************************************************************************)
EXTENDS GeneratorBond, RatiosTheorems, SequenceTheorems, TLAPS

-----------------------------------------------------------------------------
(* The lists of a claim: FoldLeft and FlattenSeq are recursive functions,  *)
(* whose existence has to be shown before their equations can be used.     *)

\* The greatest of a set of positions is one of them.
LEMMA MaxIsMember ==
    ASSUME NEW n \in Nat, NEW s \in SUBSET (1 .. n), s # {}
    PROVE  Max(s) \in s
  <1> DEFINE T == {n - x : x \in s}
  <1>1. T \in SUBSET Nat /\ T # {}
    <2>1. PICK x \in s : TRUE
      OBVIOUS
    <2>2. n - x \in T
      OBVIOUS
    <2>3. \A y \in s : n - y \in Nat
      OBVIOUS
    <2>4. QED
      BY <2>2, <2>3
  <1>2. PICK m \in T : \A k \in T : m <= k
    BY <1>1, SmallestNumber
  <1>3. PICK x \in s : m = n - x
    BY <1>2
  <1>4. \A y \in s : x >= y
    <2> SUFFICES ASSUME NEW y \in s PROVE x >= y
      OBVIOUS
    <2>1. n - y \in T /\ x \in Nat /\ y \in Nat
      OBVIOUS
    <2>2. n - x <= n - y
      BY <1>2, <1>3, <2>1
    <2>3. QED
      BY <2>1, <2>2
  <1>5. QED
    BY <1>3, <1>4 DEF Max

\* The fold over the subsets of at most k positions, and over all of them.
Step(g, b, lps, s) ==
    IF s = {} THEN b ELSE ReconcileClaimedByOthers(g[s \ {Max(s)}], lps[Max(s)])

IsFold(g, b, lps, n) == g = [s \in SUBSET (1 .. n) |-> Step(g, b, lps, s)]

LEMMA FoldExists ==
    ASSUME NEW b, NEW lps, NEW n \in Nat
    PROVE  \E g : IsFold(g, b, lps, n)
  <1> DEFINE S == 1 .. n
             Bounded(k) == {s \in SUBSET S : Cardinality(s) <= k}
             T == {k \in Nat : ~ \E g : g = [s \in Bounded(k) |-> Step(g, b, lps, s)]}
  <1>1. IsFiniteSet(S) /\ Cardinality(S) = n
    BY FS_Interval
  <1>2. ASSUME NEW s \in SUBSET S
        PROVE  /\ IsFiniteSet(s) /\ Cardinality(s) \in Nat /\ Cardinality(s) <= n
               /\ Cardinality(s) = 0 <=> s = {}
               /\ s # {} => /\ Max(s) \in s
                            /\ s \ {Max(s)} \in SUBSET S
                            /\ Cardinality(s \ {Max(s)}) = Cardinality(s) - 1
    <2>1. IsFiniteSet(s) /\ Cardinality(s) <= n
      BY <1>1, FS_Subset
    <2>2. Cardinality(s) \in Nat /\ (Cardinality(s) = 0 <=> s = {})
      BY <2>1, FS_CardinalityType, FS_EmptySet
    <2>3. ASSUME s # {} PROVE Max(s) \in s /\ Cardinality(s \ {Max(s)}) = Cardinality(s) - 1
      <3>1. Max(s) \in s
        BY <2>3, MaxIsMember
      <3>2. QED
        BY <2>1, <3>1, FS_RemoveElement
    <2>4. QED
      BY <2>1, <2>2, <2>3
  <1>3. ASSUME T # {} PROVE FALSE
    <2>1. PICK m \in T : \A k \in T : m <= k
      BY <1>3, SmallestNumber
    <2>2. m \in Nat /\ ~ \E g : g = [s \in Bounded(m) |-> Step(g, b, lps, s)]
      OBVIOUS
    <2>3. CASE m = 0
      <3> DEFINE g == [s \in Bounded(m) |-> b]
      <3>1. ASSUME NEW s \in Bounded(m) PROVE s = {}
        <4>1. s \in SUBSET S /\ Cardinality(s) <= 0
          BY <2>3
        <4>2. Cardinality(s) \in Nat /\ (Cardinality(s) = 0 <=> s = {})
          BY <1>2, <4>1
        <4>3. QED
          BY <4>1, <4>2
      <3>2. \A s \in Bounded(m) : b = Step(g, b, lps, s)
        BY <3>1 DEF Step
      <3>3. g = [s \in Bounded(m) |-> Step(g, b, lps, s)]
        BY <3>2
      <3>4. QED
        BY <2>2, <3>3
    <2>4. CASE m # 0
      <3> DEFINE j == m - 1
      <3>1. j \in Nat /\ ~(m <= j)
        BY <2>2, <2>4
      <3>2. j \notin T
        BY <2>1, <3>1
      <3>3. PICK g : g = [s \in Bounded(j) |-> Step(g, b, lps, s)]
        BY <3>1, <3>2
      <3> DEFINE h == [s \in Bounded(m) |-> IF s \in Bounded(j) THEN g[s] ELSE Step(g, b, lps, s)]
      <3>4. ASSUME NEW s \in Bounded(m) PROVE h[s] = Step(h, b, lps, s)
        <4>1. h[s] = Step(g, b, lps, s)
          <5>1. CASE s \in Bounded(j)
            BY <3>3, <3>4, <5>1
          <5>2. CASE s \notin Bounded(j)
            BY <3>4, <5>2
          <5>3. QED
            BY <5>1, <5>2
        <4>2. CASE s = {}
          BY <4>1, <4>2 DEF Step
        <4>3. CASE s # {}
          <5> DEFINE p == s \ {Max(s)}
          <5>1. p \in SUBSET S /\ Cardinality(p) = Cardinality(s) - 1
                /\ Cardinality(s) \in Nat /\ Cardinality(s) <= m
            BY <1>2, <3>4, <4>3
          <5>2. Cardinality(p) <= j /\ Cardinality(p) <= m
            BY <2>2, <5>1
          <5>3. p \in Bounded(j) /\ p \in Bounded(m)
            BY <5>1, <5>2
          <5>4. h[p] = g[p]
            BY <5>3
          <5> HIDE DEF h
          <5>5. QED
            BY <4>1, <4>3, <5>4 DEF Step
        <4>4. QED
          BY <4>2, <4>3
      <3>5. h = [s \in Bounded(m) |-> h[s]]
        OBVIOUS
      <3> HIDE DEF h
      <3>6. h = [s \in Bounded(m) |-> Step(h, b, lps, s)]
        BY <3>4, <3>5
      <3>7. QED
        BY <2>2, <3>6
    <2>5. QED
      BY <2>3, <2>4
  <1>4. n \notin T
    BY <1>3
  <1>5. Bounded(n) = SUBSET S
    BY <1>2
  <1>6. \E g : g = [s \in Bounded(n) |-> Step(g, b, lps, s)]
    BY <1>4
  <1>7. QED
    BY <1>5, <1>6 DEF IsFold

LEMMA FoldOf ==
    ASSUME NEW b, NEW lps \in Seq(LpTokens)
    PROVE  \E g : /\ IsFold(g, b, lps, Len(lps))
                  /\ FoldLeft(ReconcileClaimedByOthers, b, lps) = g[1 .. Len(lps)]
  <1> DEFINE it == CHOOSE g : g = [s \in SUBSET DOMAIN lps |-> Step(g, b, lps, s)]
  <1>1. DOMAIN lps = 1 .. Len(lps) /\ Len(lps) \in Nat
    BY LenProperties
  <1>2. \E g : IsFold(g, b, lps, Len(lps))
    BY <1>1, FoldExists
  <1>3. \E g : g = [s \in SUBSET DOMAIN lps |-> Step(g, b, lps, s)]
    BY <1>1, <1>2 DEF IsFold
  <1>4. it = [s \in SUBSET DOMAIN lps |-> Step(it, b, lps, s)]
    BY <1>3
  <1>5. FoldLeft(ReconcileClaimedByOthers, b, lps) = it[DOMAIN lps]
    BY DEF FoldLeft, MapThenFoldSet, Step
  <1> HIDE DEF it
  <1>6. QED
    BY <1>1, <1>4, <1>5 DEF IsFold

IsFlat(f, ls, n) == f = [i \in 1 .. n |-> IF i = 1 THEN ls[i] ELSE f[i - 1] \o ls[i]]

LEMMA FlatExists ==
    ASSUME NEW ls, NEW n \in Nat
    PROVE  \E f : IsFlat(f, ls, n)
  <1> DEFINE T == {k \in Nat : ~ \E f : IsFlat(f, ls, k)}
  <1>1. ASSUME T # {} PROVE FALSE
    <2>1. PICK m \in T : \A k \in T : m <= k
      BY <1>1, SmallestNumber
    <2>2. m \in Nat /\ ~ \E f : IsFlat(f, ls, m)
      OBVIOUS
    <2>3. CASE m = 0
      <3> DEFINE f == [i \in 1 .. 0 |-> ls[i]]
      <3>1. f = [i \in 1 .. 0 |-> IF i = 1 THEN ls[i] ELSE f[i - 1] \o ls[i]]
        OBVIOUS
      <3> HIDE DEF f
      <3>2. QED
        BY <2>2, <2>3, <3>1 DEF IsFlat
    <2>4. CASE m # 0
      <3>1. m - 1 \in Nat /\ ~(m <= m - 1)
        BY <2>2, <2>4
      <3>2. m - 1 \notin T
        BY <2>1, <3>1
      <3>3. PICK f : IsFlat(f, ls, m - 1)
        BY <3>1, <3>2
      <3> DEFINE h == [i \in 1 .. m |-> IF i < m THEN f[i]
                                        ELSE IF i = 1 THEN ls[i] ELSE f[i - 1] \o ls[i]]
      <3>4. ASSUME NEW i \in 1 .. m
            PROVE  h[i] = IF i = 1 THEN ls[i] ELSE h[i - 1] \o ls[i]
        <4>1. i < m => i \in 1 .. m - 1 /\ h[i] = f[i]
          BY <2>2
        <4>2. i # 1 => i - 1 \in 1 .. m - 1 /\ i - 1 < m
          BY <2>2
        <4>3. i # 1 => h[i - 1] = f[i - 1]
          BY <2>2, <4>2
        <4>4. i \in 1 .. m - 1 => f[i] = IF i = 1 THEN ls[i] ELSE f[i - 1] \o ls[i]
          BY <3>3 DEF IsFlat
        <4>5. ~(i < m) => h[i] = IF i = 1 THEN ls[i] ELSE f[i - 1] \o ls[i]
          OBVIOUS
        <4> HIDE DEF h
        <4>6. QED
          BY <4>1, <4>3, <4>4, <4>5
      <3>5. h = [i \in 1 .. m |-> h[i]]
        OBVIOUS
      <3> HIDE DEF h
      <3>6. IsFlat(h, ls, m)
        BY <3>4, <3>5 DEF IsFlat
      <3>7. QED
        BY <2>2, <3>6
    <2>5. QED
      BY <2>3, <2>4
  <1>2. n \notin T
    BY <1>1
  <1>3. QED
    BY <1>2

\* A list of sequences of which one may be appended to another.
LEMMA FlattenKeeps ==
    ASSUME NEW B, \A s, t \in B : s \o t \in B, NEW ls \in Seq(B), ls # << >>
    PROVE  /\ FlattenSeq(ls) \in B
           /\ Len(ls) = 1 => FlattenSeq(ls) = ls[1]
  <1> DEFINE n == Len(ls)
             f == CHOOSE g : g = [i \in 1 .. n |-> IF i = 1 THEN ls[i] ELSE g[i - 1] \o ls[i]]
  <1>1. n \in Nat \ {0} /\ \A i \in 1 .. n : ls[i] \in B
    BY EmptySeq, LenProperties, ElementOfSeq
  <1>2. \E g : g = [i \in 1 .. n |-> IF i = 1 THEN ls[i] ELSE g[i - 1] \o ls[i]]
    <2>1. \E g : IsFlat(g, ls, n)
      BY <1>1, FlatExists
    <2>2. QED
      BY <2>1 DEF IsFlat
  <1>3. f = [i \in 1 .. n |-> IF i = 1 THEN ls[i] ELSE f[i - 1] \o ls[i]]
    BY <1>2
  <1>4. FlattenSeq(ls) = f[n]
    BY <1>1 DEF FlattenSeq
  <1> HIDE DEF f
  <1> DEFINE T == {k \in Nat : k \in 1 .. n /\ f[k] \notin B}
  <1>5. ASSUME T # {} PROVE FALSE
    <2>1. PICK m \in T : \A k \in T : m <= k
      BY <1>5, SmallestNumber
    <2>2. m \in 1 .. n /\ f[m] \notin B
      OBVIOUS
    <2>3. m # 1
      BY <1>1, <1>3, <2>2
    <2>4. m - 1 \in 1 .. n /\ m - 1 \in Nat /\ ~(m <= m - 1)
      BY <1>1, <2>2, <2>3
    <2>5. m - 1 \notin T
      BY <2>1, <2>4
    <2>6. f[m - 1] \in B
      BY <2>4, <2>5
    <2>7. f[m] = f[m - 1] \o ls[m]
      BY <1>3, <2>2, <2>3
    <2>8. QED
      BY <1>1, <2>2, <2>6, <2>7
  <1>6. f[n] \in B
    BY <1>1, <1>5
  <1>7. n = 1 => f[n] = ls[1]
    BY <1>1, <1>3
  <1>8. QED
    BY <1>4, <1>6, <1>7

-----------------------------------------------------------------------------
(* The inductive invariant *)

\* What a user has a right to of a token, SCALE times, without truncation.
Claim(p, k, q, t) ==
    SCALE * k[q].pending_rewards[t]
        + k[q].bond_share * (p[q[1]].reward_indexes[t] - k[q].reward_indexes[t])
Claims(p, k, t) == [q \in LpTokens \X Users |-> Claim(p, k, q, t)]

\* The shares of one pool.
Shares(k, lp) == [u \in Users |-> k[<<lp, u>>].bond_share]

\* A record is not ahead of its pool.
Known(p, k) ==
    \A q \in LpTokens \X Users :
        /\ \A t \in Tokens : k[q].reward_indexes[t] <= p[q[1]].reward_indexes[t]
        /\ k[q].exists \/ k[q] = NoUser

\* The claims, the fee and the stakers' part of a token are reconciled.
Backed(p, k, r, t) ==
    Total(Claims(p, k, t)) + SCALE * (r[t].fee + r[t].staker_income)
        <= SCALE * r[t].reconciled_amount

Accounts(p, k, r) ==
    /\ p \in [LpTokens -> PoolInfo] /\ k \in [LpTokens \X Users -> UserInfo]
    /\ r \in [Tokens -> RewardInfo]
    /\ Known(p, k)
    /\ \A lp \in LpTokens : Total(Shares(k, lp)) = p[lp].total_bond_share
    /\ \A t \in Tokens : Backed(p, k, r, t)

\* The generator has recorded no more than it emitted.
Recorded(d, e, lp) ==
    /\ d[lp] \in Deposits
    /\ d[lp].reward_user_index <= e[lp][ASTRO]
    /\ \A t \in ProxyTokens : d[lp].reward_debt_proxy[t] <= e[lp][t] * d[lp].amount
    /\ d[lp].amount = 0 => d[lp] = NoDeposit

\* The generator has paid for the pool all it has emitted.
Current(d, e, lp) ==
    /\ d[lp].amount > 0 => d[lp].reward_user_index = e[lp][ASTRO]
    /\ \A t \in ProxyTokens : d[lp].reward_debt_proxy[t] = e[lp][t] * d[lp].amount

\* A pool that is claimed for in this block owes nothing.
Rested(p, d, e, h, lp) ==
    /\ p[lp].last_reconcile <= h
    /\ p[lp].total_bond_share > 0 => d[lp].amount > 0
    /\ p[lp].total_bond_share > 0 /\ p[lp].last_reconcile = h =>
          /\ Current(d, e, lp)
          /\ p[lp].prev_reward_user_index = d[lp].reward_user_index

\* Shares of the pool may change.
Ready(p, d, e, lp) ==
    p[lp].total_bond_share > 0 =>
        /\ Current(d, e, lp)
        /\ p[lp].prev_reward_user_index = d[lp].reward_user_index

ClaimTypes == {"GeneratorClaim", "AfterBondClaimed", "ClaimRewards"}
ChangeTypes == {"Deposit", "Withdraw"}

\* What a call may leave to execute.
Proper(m) ==
    /\ m \in Message
    /\ m.type \in ClaimTypes \cup ChangeTypes
    /\ m.type \in ChangeTypes \cup {"ClaimRewards"} => m.user \in Users
    /\ m.type = "Deposit" => m.amount > 0

\* A callback comes after its claim.
Paired(q) ==
    \A i \in 2 .. Len(q) :
        q[i].type = "AfterBondClaimed" =>
            q[i - 1].type = "GeneratorClaim" /\ q[i - 1].lp = q[i].lp

\* A change of shares comes last, after the callback of a claim, if it is not
\* the only message.
ChangesLast(q) ==
    \A i \in 1 .. Len(q) :
        q[i].type \in ChangeTypes =>
            /\ i = Len(q)
            /\ i > 1 => q[i - 1].type = "AfterBondClaimed" /\ q[i - 1].lp = q[i].lp

\* Only claims so far.
Calm ==
    /\ \A i \in 1 .. Len(queue) : Proper(queue[i])
    /\ Paired(queue) /\ ChangesLast(queue)
    /\ \A lp \in LpTokens : Rested(pools, deposits, emitted, height, lp)
    /\ \A i \in 1 .. Len(queue) : queue[i].type = "Withdraw" => deposits[queue[i].lp].amount > 0
    /\ Executes("AfterBondClaimed") => Current(deposits, emitted, Head(queue).lp)
    /\ Executes("Deposit") \/ Executes("Withdraw") =>
          Ready(pools, deposits, emitted, Head(queue).lp)

\* The shares have changed, and the deposit will.
Changing ==
    LET m == queue[1] IN
    /\ Len(queue) = 2
    /\ m.type \in {"GeneratorDeposit", "GeneratorWithdraw"}
    /\ queue[2].type = "AfterBondChanged" /\ queue[2].lp = m.lp
    /\ \A lp \in LpTokens \ {m.lp} : Rested(pools, deposits, emitted, height, lp)
    /\ pools[m.lp].last_reconcile <= height
    /\ m.type = "GeneratorDeposit" => m.amount > 0
    /\ m.type = "GeneratorWithdraw" /\ m.amount = deposits[m.lp].amount =>
          pools[m.lp].total_bond_share = 0
    /\ pools[m.lp].total_bond_share > 0 => m.type = "GeneratorDeposit" \/ deposits[m.lp].amount > 0

\* The deposit has changed.
Changed ==
    LET m == queue[1] IN
    /\ Len(queue) = 1
    /\ m.type = "AfterBondChanged"
    /\ \A lp \in LpTokens \ {m.lp} : Rested(pools, deposits, emitted, height, lp)
    /\ pools[m.lp].last_reconcile <= height
    /\ pools[m.lp].total_bond_share > 0 => deposits[m.lp].amount > 0
    /\ Current(deposits, emitted, m.lp)

Sound ==
    /\ boost_fee \in 0 .. SCALE /\ staker_rate \in 0 .. SCALE /\ height \in Nat
    /\ queue \in Seq(Message) /\ held \in Indexes
    /\ emitted \in [LpTokens -> Indexes]
    /\ deposits \in [LpTokens -> Deposits]
    /\ Accounts(pools, users, rewards)
    /\ \A lp \in LpTokens : Recorded(deposits, emitted, lp)

\* What a failed message brings back is as between transactions.
Undone ==
    /\ undo.held \in Indexes /\ undo.deposits \in [LpTokens -> Deposits]
    /\ Accounts(undo.pools, undo.users, undo.rewards)
    /\ \A lp \in LpTokens : /\ Recorded(undo.deposits, emitted, lp)
                             /\ Rested(undo.pools, undo.deposits, emitted, height, lp)

IInv ==
    /\ Sound
    /\ Calm \/ Changing \/ Changed
    /\ queue # << >> => Undone

-----------------------------------------------------------------------------
(* Decimals and the split of a reward *)

LEMMA FromRatioBounds ==
    ASSUME NEW num \in Nat, NEW den \in Nat \ {0}
    PROVE  /\ FromRatio(num, den) \in Nat
           /\ den * FromRatio(num, den) <= num * SCALE
           /\ num * SCALE < den * FromRatio(num, den) + den
  <1>1. num * SCALE \in Nat
    BY DecimalAssumption
  <1>2. QED
    BY <1>1, DivBounds DEF FromRatio

LEMMA TimesDecimalBounds ==
    ASSUME NEW amount \in Nat, NEW decimal \in Nat
    PROVE  /\ TimesDecimal(amount, decimal) \in Nat
           /\ SCALE * TimesDecimal(amount, decimal) <= amount * decimal
  <1>1. amount * decimal \in Nat
    OBVIOUS
  <1>2. QED
    BY <1>1, DivBounds, DecimalAssumption DEF TimesDecimal

\* A rate of at most 1 takes at most all.
LEMMA RateTakesPart ==
    ASSUME NEW amount \in Nat, NEW rate \in 0 .. SCALE
    PROVE  TimesDecimal(amount, rate) \in Nat /\ TimesDecimal(amount, rate) <= amount
  <1> DEFINE x == TimesDecimal(amount, rate)
  <1>1. rate \in Nat /\ rate <= SCALE /\ SCALE \in Nat \ {0}
    BY DecimalAssumption
  <1>2. x \in Nat /\ SCALE * x <= amount * rate
    BY <1>1, TimesDecimalBounds
  <1>3. rate * amount <= SCALE * amount
    BY <1>1, TimesMonotone
  <1> HIDE DEF x
  <1>4. x * SCALE = SCALE * x /\ amount * SCALE = SCALE * amount /\ rate * amount = amount * rate
        /\ amount * rate \in Nat /\ x * SCALE \in Nat
    BY <1>1, <1>2
  <1>5. x * SCALE <= amount * SCALE
    BY <1>1, <1>2, <1>3, <1>4
  <1>6. QED
    BY <1>1, <1>2, <1>5, TimesCancel DEF x

\* The split of ASTRO hands out what came in.
LEMMA SplitOfReward ==
    ASSUME boost_fee \in 0 .. SCALE, staker_rate \in 0 .. SCALE,
           NEW d \in Deposits, NEW net \in Nat, d.virtual_amount > 0, Based(d, net) <= net
    PROVE  /\ Fee(d, net) \in Nat /\ ToStaker(d, net) \in Nat /\ ToLp(d, net) \in Nat
           /\ ToLp(d, net) + Fee(d, net) + ToStaker(d, net) = net
  <1> DEFINE b == Based(d, net)
             f == Fee(d, net)
             s == ToStaker(d, net)
  <1>1. b \in Nat
    <2>1. d.amount \in Nat /\ d.virtual_amount \in Nat \ {0}
      BY DEF Deposits
    <2>2. (d.amount * 40) \div 100 \in Nat
      BY <2>1
    <2>3. QED
      BY <2>1, <2>2, MulRatioBounds DEF Based
  <1>2. net - b \in Nat
    BY <1>1
  <1>3. f \in Nat /\ f <= net - b
    BY <1>2, RateTakesPart DEF Fee
  <1>4. net - b - f \in Nat
    BY <1>1, <1>3
  <1>5. s \in Nat /\ s <= net - b - f
    BY <1>4, RateTakesPart DEF ToStaker
  <1>6. ToLp(d, net) = net - f - s
    BY DEF ToLp
  <1> HIDE DEF b, f, s
  <1>7. QED
    BY <1>1, <1>3, <1>5, <1>6 DEF f, s

-----------------------------------------------------------------------------
(* Claims *)

LEMMA Finite == IsFiniteSet(LpTokens \X Users)
  BY FS_Product, BondAssumption

LEMMA RecordType ==
    ASSUME NEW p \in [LpTokens -> PoolInfo], NEW k \in [LpTokens \X Users -> UserInfo],
           NEW q \in LpTokens \X Users, NEW t \in Tokens
    PROVE  /\ q[1] \in LpTokens /\ p[q[1]].reward_indexes[t] \in Nat
           /\ p[q[1]].total_bond_share \in Nat
           /\ k[q].bond_share \in Nat /\ k[q].reward_indexes[t] \in Nat
           /\ k[q].pending_rewards[t] \in Nat
  <1>1. q[1] \in LpTokens
    OBVIOUS
  <1>2. p[q[1]] \in PoolInfo /\ k[q] \in UserInfo
    BY <1>1
  <1>3. QED
    BY <1>1, <1>2 DEF PoolInfo, UserInfo, Indexes

LEMMA ClaimType ==
    ASSUME NEW p \in [LpTokens -> PoolInfo], NEW k \in [LpTokens \X Users -> UserInfo],
           Known(p, k), NEW t \in Tokens
    PROVE  /\ Claims(p, k, t) \in [LpTokens \X Users -> Nat]
           /\ Total(Claims(p, k, t)) \in Nat
  <1>1. ASSUME NEW q \in LpTokens \X Users PROVE Claim(p, k, q, t) \in Nat
    <2> DEFINE x == p[q[1]].reward_indexes[t]
               i == k[q].reward_indexes[t]
               b == k[q].bond_share
               w == k[q].pending_rewards[t]
    <2>1. x \in Nat /\ i \in Nat /\ b \in Nat /\ w \in Nat /\ i <= x
      BY RecordType DEF Known
    <2>2. Claim(p, k, q, t) = SCALE * w + b * (x - i)
      BY DEF Claim
    <2> HIDE DEF x, i, b, w
    <2>3. SCALE * w \in Nat /\ x - i \in Nat
      BY <2>1, DecimalAssumption
    <2>4. b * (x - i) \in Nat
      BY <2>1, <2>3
    <2>5. QED
      BY <2>2, <2>3, <2>4
  <1>2. Claims(p, k, t) \in [LpTokens \X Users -> Nat]
    BY <1>1 DEF Claims
  <1>3. QED
    BY <1>2, Finite, TotalType

LEMMA SharesType ==
    ASSUME NEW k \in [LpTokens \X Users -> UserInfo], NEW lp \in LpTokens
    PROVE  Shares(k, lp) \in [Users -> Nat] /\ Total(Shares(k, lp)) \in Nat
  <1>1. ASSUME NEW u \in Users PROVE k[<<lp, u>>].bond_share \in Nat
    <2>1. k[<<lp, u>>] \in UserInfo
      OBVIOUS
    <2>2. QED
      BY <2>1 DEF UserInfo
  <1>2. Shares(k, lp) \in [Users -> Nat]
    BY <1>1 DEF Shares
  <1>3. QED
    BY <1>2, TotalType, BondAssumption

\* The total of a ledger of the accounts that only has one pool's entries.
IsRow(g, f, lp) ==
    /\ g \in [LpTokens \X Users -> Nat]
    /\ \A q \in LpTokens \X Users : g[q] = IF q[1] = lp THEN f[q[2]] ELSE 0

LEMMA RowTotal ==
    ASSUME NEW lp \in LpTokens, NEW f \in [Users -> Nat], NEW g, IsRow(g, f, lp)
    PROVE  Total(g) = Total(f)
  <1> DEFINE Q == LpTokens \X Users
  <1>1. IsFiniteSet(Users) /\ Q = LpTokens \X Users
    BY BondAssumption
  <1>2. g \in [Q -> Nat] /\ \A q \in Q : g[q] = IF q[1] = lp THEN f[q[2]] ELSE 0
    BY DEF IsRow
  <1> HIDE DEF Q
  <1>3. QED
    BY <1>1, <1>2, TotalOfRow

\* A pool's index grows, for all of its shares.
LEMMA IndexRaised ==
    ASSUME NEW p \in [LpTokens -> PoolInfo], NEW n \in [LpTokens -> PoolInfo],
           NEW k \in [LpTokens \X Users -> UserInfo], Known(p, k), Known(n, k),
           NEW lp \in LpTokens, NEW t \in Tokens, NEW part \in Nat,
           n[lp].reward_indexes[t] = p[lp].reward_indexes[t] + part,
           \A l \in LpTokens \ {lp} : n[l] = p[l]
    PROVE  Total(Claims(n, k, t)) <= Total(Claims(p, k, t)) + part * Total(Shares(k, lp))
  <1> DEFINE C == Claims(p, k, t)
             D == Claims(n, k, t)
             S == Shares(k, lp)
             R == [q \in LpTokens \X Users |-> IF q[1] = lp THEN S[q[2]] ELSE 0]
             z == [q \in LpTokens \X Users |-> 0]
  <1>1. /\ C \in [LpTokens \X Users -> Nat] /\ D \in [LpTokens \X Users -> Nat]
        /\ Total(C) \in Nat /\ Total(D) \in Nat
    BY ClaimType
  <1>2. S \in [Users -> Nat] /\ Total(S) \in Nat
    BY SharesType
  <1>3. R \in [LpTokens \X Users -> Nat] /\ Total(R) = Total(S)
    <2>1. \A q \in LpTokens \X Users : R[q] = IF q[1] = lp THEN S[q[2]] ELSE 0
      OBVIOUS
    <2>2. R \in [LpTokens \X Users -> Nat]
      BY <1>2
    <2> HIDE DEF R, S
    <2>3. IsRow(R, S, lp)
      BY <2>1, <2>2 DEF IsRow
    <2>4. Total(R) = Total(S)
      BY <1>2, <2>3, RowTotal
    <2>5. QED
      BY <2>2, <2>4
  <1>4. z \in [LpTokens \X Users -> Nat] /\ Total(z) = 0
    BY TotalOfZeros
  <1>5. ASSUME NEW q \in LpTokens \X Users
        PROVE  1 * D[q] + 1 * z[q] <= 1 * C[q] + part * R[q]
    <2> DEFINE x == p[q[1]].reward_indexes[t]
               y == n[q[1]].reward_indexes[t]
               i == k[q].reward_indexes[t]
               b == k[q].bond_share
               w == SCALE * k[q].pending_rewards[t]
    <2>1. /\ x \in Nat /\ y \in Nat /\ i \in Nat /\ b \in Nat /\ w \in Nat
          /\ q[1] \in LpTokens /\ q[2] \in Users /\ q = <<q[1], q[2]>>
      <3>1. x \in Nat /\ i \in Nat /\ b \in Nat /\ k[q].pending_rewards[t] \in Nat
        BY RecordType
      <3>2. y \in Nat
        BY RecordType
      <3>3. w \in Nat
        BY <3>1, DecimalAssumption
      <3>4. QED
        BY <3>1, <3>2, <3>3
    <2>2. C[q] = w + b * (x - i) /\ D[q] = w + b * (y - i) /\ z[q] = 0
      BY DEF Claims, Claim
    <2>3. R[q] = IF q[1] = lp THEN b ELSE 0
      BY <2>1 DEF Shares
    <2>4. y = IF q[1] = lp THEN x + part ELSE x
      BY <2>1
    <2>5. C[q] \in Nat /\ D[q] \in Nat /\ R[q] \in Nat
      BY <1>1, <1>3
    <2> HIDE DEF C, D, R, z, x, y, i, b, w
    <2>6. CASE q[1] = lp
      <3>1. y - i = (x - i) + part
        BY <2>1, <2>4, <2>6
      <3>2. b * ((x - i) + part) = b * (x - i) + part * b /\ b * (x - i) \in Int /\ part * b \in Nat
        BY <2>1
      <3>3. D[q] = C[q] + part * b
        BY <2>1, <2>2, <3>1, <3>2
      <3>4. part * R[q] = part * b
        BY <2>3, <2>6
      <3>5. QED
        BY <2>2, <2>5, <3>2, <3>3, <3>4
    <2>7. CASE q[1] # lp
      <3>1. D[q] = C[q] /\ R[q] = 0
        BY <2>2, <2>3, <2>4, <2>7
      <3>2. QED
        BY <2>2, <2>5, <3>1
    <2>8. QED
      BY <2>6, <2>7
  <1>6. 1 * Total(D) + 1 * Total(z) <= 1 * Total(C) + part * Total(R)
    <2>1. 1 \in Nat
      OBVIOUS
    <2> HIDE DEF C, D, R, z, S
    <2>2. QED
      BY <1>1, <1>3, <1>4, <1>5, <2>1, TotalsRelated, Finite
  <1> HIDE DEF C, D, R, z, S
  <1>7. part * Total(S) \in Nat
    BY <1>2
  <1>8. QED
    BY <1>1, <1>3, <1>4, <1>6, <1>7 DEF C, D, S

-----------------------------------------------------------------------------
(* Crediting a pool with rewards *)

\* What the truncation of an index may lose of n, with a total of b shares.
Lost(b, n) == IF n = 0 THEN 0 ELSE b - 1

\* x is credited to each share, and f and s are kept, of what came in.
Splits(pool, d, net, r, t, x, f, s) ==
    /\ x \in Nat /\ f \in Nat /\ s \in Nat
    /\ Credit(pool, d, net)[t] = pool.reward_indexes[t] + x
    /\ Book(r, d, net)[t] = [reconciled_amount |-> r[t].reconciled_amount + net[t],
                             fee |-> r[t].fee + f, staker_income |-> r[t].staker_income + s]
    /\ x * pool.total_bond_share + SCALE * (f + s) <= SCALE * net[t]
    /\ SCALE * net[t] <= x * pool.total_bond_share + SCALE * (f + s)
                            + Lost(pool.total_bond_share, net[t])

\* What the holders of shares are credited with, the fee and the stakers'
\* part are no more than came in, and less only by the truncation.
LEMMA CreditSplits ==
    ASSUME boost_fee \in 0 .. SCALE, staker_rate \in 0 .. SCALE,
           NEW pool \in PoolInfo, NEW d \in Deposits, NEW net \in Indexes,
           Creditable(pool, d, net), NEW r \in [Tokens -> RewardInfo], NEW t \in Tokens
    PROVE  \E part, f, s : Splits(pool, d, net, r, t, part, f, s)
  <1> DEFINE x == net[t]
             b == pool.total_bond_share
  <1>1. x \in Nat /\ b \in Nat /\ SCALE \in Nat
    BY DecimalAssumption DEF Indexes, PoolInfo
  <1>2. CASE x = 0
    <2>1. Credit(pool, d, net)[t] = pool.reward_indexes[t] + 0
      BY <1>2 DEF Credit
    <2>2. Book(r, d, net)[t] =
                    [reconciled_amount |-> r[t].reconciled_amount + net[t],
                     fee |-> r[t].fee + 0, staker_income |-> r[t].staker_income + 0]
      BY <1>2 DEF Book
    <2>3. /\ 0 * b + SCALE * (0 + 0) <= SCALE * x
          /\ SCALE * x <= 0 * b + SCALE * (0 + 0) + Lost(b, x)
      BY <1>1, <1>2 DEF Lost
    <2>4. Splits(pool, d, net, r, t, 0, 0, 0)
      BY <2>1, <2>2, <2>3 DEF Splits
    <2>5. QED
      BY <2>4
  <1>3. CASE x # 0 /\ t # ASTRO
    <2> DEFINE part == FromRatio(x, b)
    <2>1. b \in Nat \ {0}
      BY <1>1, <1>3 DEF Creditable
    <2>2. part \in Nat /\ b * part <= x * SCALE /\ x * SCALE < b * part + b
      BY <1>1, <2>1, FromRatioBounds
    <2>3. Credit(pool, d, net)[t] = pool.reward_indexes[t] + part
      BY <1>3 DEF Credit
    <2>4. Book(r, d, net)[t] =
                    [reconciled_amount |-> r[t].reconciled_amount + net[t],
                     fee |-> r[t].fee + 0, staker_income |-> r[t].staker_income + 0]
      BY <1>3 DEF Book
    <2> HIDE DEF part, x, b
    <2>5. b * part = part * b /\ x * SCALE = SCALE * x /\ SCALE * (0 + 0) = 0 /\ part * b \in Nat
      BY <1>1, <2>1, <2>2
    <2>6. /\ part * b + SCALE * (0 + 0) <= SCALE * x
          /\ SCALE * x <= part * b + SCALE * (0 + 0) + Lost(b, x)
      <3>1. Lost(b, x) = b - 1
        BY <1>3 DEF Lost, x
      <3>2. x * SCALE \in Nat
        BY <1>1 DEF x
      <3>3. QED
        BY <2>1, <2>2, <2>5, <3>1, <3>2
    <2>7. Splits(pool, d, net, r, t, part, 0, 0)
      BY <2>2, <2>3, <2>4, <2>6 DEF x, b, Splits
    <2>8. QED
      BY <2>7
  <1>4. CASE x # 0 /\ t = ASTRO
    <2> DEFINE f == Fee(d, x)
               s == ToStaker(d, x)
               l == ToLp(d, x)
               part == FromRatio(l, b)
    <2>1. b \in Nat \ {0} /\ d.virtual_amount > 0 /\ Based(d, x) <= x
      BY <1>1, <1>4 DEF Creditable
    <2>2. f \in Nat /\ s \in Nat /\ l \in Nat /\ l + f + s = x
      BY <1>1, <2>1, SplitOfReward
    <2>3. part \in Nat /\ b * part <= l * SCALE /\ l * SCALE < b * part + b
      BY <2>1, <2>2, FromRatioBounds
    <2>4. Credit(pool, d, net)[t] = pool.reward_indexes[t] + part
      BY <1>4 DEF Credit
    <2>5. Book(r, d, net)[t] =
                    [reconciled_amount |-> r[t].reconciled_amount + net[t],
                     fee |-> r[t].fee + f, staker_income |-> r[t].staker_income + s]
      BY <1>4 DEF Book
    <2> HIDE DEF part, x, b, f, s, l
    <2>6. /\ b * part = part * b /\ part * b \in Nat
          /\ SCALE * x = l * SCALE + SCALE * (f + s) /\ l * SCALE \in Nat /\ SCALE * (f + s) \in Nat
      <3>1. x = l + (f + s)
        BY <2>2
      <3>2. SCALE * (l + (f + s)) = SCALE * l + SCALE * (f + s)
        BY <1>1, <2>2
      <3>3. QED
        BY <1>1, <2>1, <2>2, <2>3, <3>1, <3>2
    <2>7. /\ part * b + SCALE * (f + s) <= SCALE * x
          /\ SCALE * x <= part * b + SCALE * (f + s) + Lost(b, x)
      <3>1. Lost(b, x) = b - 1
        BY <1>4 DEF Lost, x
      <3>2. QED
        BY <2>1, <2>3, <2>6, <3>1
    <2>8. Splits(pool, d, net, r, t, part, f, s)
      BY <2>2, <2>3, <2>4, <2>5, <2>7 DEF x, b, Splits
    <2>9. QED
      BY <2>8
  <1>5. QED
    BY <1>2, <1>3, <1>4

\* Crediting a pool keeps the accounts.
LEMMA CreditKeeps ==
    ASSUME boost_fee \in 0 .. SCALE, staker_rate \in 0 .. SCALE,
           NEW p, NEW k, NEW r, Accounts(p, k, r), NEW lp \in LpTokens,
           NEW d \in Deposits, NEW net \in Indexes, Creditable(p[lp], d, net),
           NEW idx \in Nat, NEW debt \in [ProxyTokens -> Nat], NEW last \in Nat,
           NEW n, n = [p EXCEPT ![lp] =
                          [p[lp] EXCEPT !.reward_indexes = Credit(p[lp], d, net),
                                        !.prev_reward_user_index = idx,
                                        !.prev_reward_debt_proxy = debt,
                                        !.last_reconcile = last]]
    PROVE  Accounts(n, k, Book(r, d, net))
  <1> DEFINE c == Credit(p[lp], d, net)
             w == Book(r, d, net)
  <1>1. /\ p \in [LpTokens -> PoolInfo] /\ k \in [LpTokens \X Users -> UserInfo]
        /\ r \in [Tokens -> RewardInfo] /\ Known(p, k)
        /\ \A l \in LpTokens : Total(Shares(k, l)) = p[l].total_bond_share
        /\ \A t \in Tokens : Backed(p, k, r, t)
    BY DEF Accounts
  <1>2. p[lp] \in PoolInfo
    BY <1>1
  <1>3. \A t \in Tokens : \E part, f, s : Splits(p[lp], d, net, r, t, part, f, s)
    BY <1>1, <1>2, CreditSplits
  <1>4. \A t \in Tokens : /\ p[lp].reward_indexes[t] \in Nat /\ net[t] \in Nat
                          /\ r[t].reconciled_amount \in Nat /\ r[t].fee \in Nat
                          /\ r[t].staker_income \in Nat
    BY <1>1, <1>2 DEF PoolInfo, Indexes, RewardInfo
  <1>5. c = [t \in Tokens |-> c[t]] /\ w = [t \in Tokens |-> w[t]]
    <2>1. c = [t \in Tokens |-> c[t]]
      BY DEF Credit
    <2>2. w = [t \in Tokens |-> w[t]]
      BY DEF Book
    <2>3. QED
      BY <2>1, <2>2
  <1> HIDE DEF c, w
  <1>6. /\ c \in Indexes /\ \A t \in Tokens : p[lp].reward_indexes[t] <= c[t]
    <2>1. ASSUME NEW t \in Tokens PROVE c[t] \in Nat /\ p[lp].reward_indexes[t] <= c[t]
      <3>1. PICK part, f, s : Splits(p[lp], d, net, r, t, part, f, s)
        BY <1>3
      <3>2. part \in Nat /\ c[t] = p[lp].reward_indexes[t] + part
        BY <3>1 DEF Splits, c
      <3>3. QED
        BY <1>4, <3>2
    <2>2. c \in [Tokens -> Nat]
      BY <1>5, <2>1
    <2>3. QED
      BY <2>1, <2>2 DEF Indexes
  <1>7. w \in [Tokens -> RewardInfo]
    <2>1. ASSUME NEW t \in Tokens PROVE w[t] \in RewardInfo
      <3>1. PICK part, f, s : Splits(p[lp], d, net, r, t, part, f, s)
        BY <1>3
      <3>2. /\ f \in Nat /\ s \in Nat
            /\ w[t] = [reconciled_amount |-> r[t].reconciled_amount + net[t],
                       fee |-> r[t].fee + f, staker_income |-> r[t].staker_income + s]
        BY <3>1 DEF Splits, w
      <3>3. QED
        BY <1>4, <3>2 DEF RewardInfo
    <2>2. QED
      BY <1>5, <2>1
  <1>8. /\ n[lp] \in PoolInfo /\ n[lp].reward_indexes = c
        /\ n[lp].total_bond_share = p[lp].total_bond_share
        /\ \A l \in LpTokens \ {lp} : n[l] = p[l]
    BY <1>1, <1>2, <1>6 DEF PoolInfo, c
  <1>9. n \in [LpTokens -> PoolInfo]
    BY <1>1, <1>8
  <1>10. Known(n, k)
    <2>1. ASSUME NEW q \in LpTokens \X Users, NEW t \in Tokens
          PROVE  k[q].reward_indexes[t] <= n[q[1]].reward_indexes[t]
      <3>1. /\ k[q].reward_indexes[t] \in Nat /\ p[q[1]].reward_indexes[t] \in Nat
            /\ n[q[1]].reward_indexes[t] \in Nat /\ q[1] \in LpTokens
        BY <1>1, <1>9, RecordType
      <3>2. k[q].reward_indexes[t] <= p[q[1]].reward_indexes[t]
        BY <1>1 DEF Known
      <3>3. p[q[1]].reward_indexes[t] <= n[q[1]].reward_indexes[t]
        BY <1>6, <1>8, <3>1
      <3>4. QED
        BY <3>1, <3>2, <3>3
    <2>2. QED
      BY <1>1, <2>1 DEF Known
  <1>11. \A l \in LpTokens : Total(Shares(k, l)) = n[l].total_bond_share
    BY <1>1, <1>8
  <1>12. ASSUME NEW t \in Tokens PROVE Backed(n, k, w, t)
    <2>0. PICK part, f, s : Splits(p[lp], d, net, r, t, part, f, s)
      BY <1>3
    <2>1. /\ part \in Nat /\ f \in Nat /\ s \in Nat
          /\ c[t] = p[lp].reward_indexes[t] + part
          /\ w[t] = [reconciled_amount |-> r[t].reconciled_amount + net[t],
                     fee |-> r[t].fee + f, staker_income |-> r[t].staker_income + s]
          /\ part * p[lp].total_bond_share + SCALE * (f + s) <= SCALE * net[t]
      BY <2>0 DEF Splits, c, w
    <2>2. Total(Claims(n, k, t)) <= Total(Claims(p, k, t)) + part * Total(Shares(k, lp))
      BY <1>1, <1>8, <1>9, <1>10, <2>1, IndexRaised
    <2>3. Total(Claims(p, k, t)) + SCALE * (r[t].fee + r[t].staker_income)
             <= SCALE * r[t].reconciled_amount
      BY <1>1 DEF Backed
    <2>4. Total(Shares(k, lp)) = p[lp].total_bond_share /\ p[lp].total_bond_share \in Nat
      BY <1>1, <1>2 DEF PoolInfo
    <2> DEFINE A == Total(Claims(n, k, t))
               B == Total(Claims(p, k, t))
               b == p[lp].total_bond_share
               y == net[t]
               o == r[t].reconciled_amount
               g == r[t].fee
               h == r[t].staker_income
    <2>5. A \in Nat /\ B \in Nat /\ SCALE \in Nat
      BY <1>1, <1>9, <1>10, ClaimType, DecimalAssumption
    <2>6. /\ b \in Nat /\ y \in Nat /\ o \in Nat /\ g \in Nat /\ h \in Nat
          /\ part \in Nat /\ f \in Nat /\ s \in Nat
      BY <1>4, <2>1, <2>4
    <2>7. /\ A <= B + part * b
          /\ B + SCALE * (g + h) <= SCALE * o
          /\ part * b + SCALE * (f + s) <= SCALE * y
      BY <2>1, <2>2, <2>3, <2>4
    <2>8. w[t].fee = g + f /\ w[t].staker_income = h + s /\ w[t].reconciled_amount = o + y
      BY <2>1
    <2> HIDE DEF A, B, b, y, o, g, h
    <2>9. /\ part * b \in Nat /\ SCALE * (g + h) \in Nat /\ SCALE * o \in Nat
          /\ SCALE * (f + s) \in Nat /\ SCALE * y \in Nat
          /\ SCALE * ((g + f) + (h + s)) = SCALE * (g + h) + SCALE * (f + s)
          /\ SCALE * (o + y) = SCALE * o + SCALE * y
      BY <2>5, <2>6
    <2>10. A + SCALE * ((g + f) + (h + s)) <= SCALE * (o + y)
      BY <2>5, <2>7, <2>9
    <2>11. QED
      BY <2>8, <2>10 DEF Backed, A
  <1>13. QED
    BY <1>1, <1>7, <1>9, <1>10, <1>11, <1>12 DEF Accounts, w

-----------------------------------------------------------------------------
(* Reconciling what others claimed *)

\* No reward is reconciled that the contract does not hold.
Covered(r, h) == \A t \in Tokens : r[t].reconciled_amount <= h[t]

\* What a list of reconciliations leaves, as far as it went well: the
\* accounts hold, the shares stand, and a pool that was claimed for in this
\* block is not touched.
Passed(s) ==
    s.ok =>
        /\ Accounts(s.pools, users, s.rewards)
        /\ \A lp \in LpTokens :
              /\ s.pools[lp].exists = pools[lp].exists
              /\ s.pools[lp].total_bond_share = pools[lp].total_bond_share
              /\ s.pools[lp].last_reconcile = pools[lp].last_reconcile
              /\ pools[lp].last_reconcile = height => s.pools[lp] = pools[lp]
        /\ Covered(rewards, held) => Covered(s.rewards, held)

\* What is found for one token is held and not accounted for yet.
LEMMA SurplusBounds ==
    ASSUME held \in Indexes, NEW r \in [Tokens -> RewardInfo], NEW pool \in PoolInfo,
           NEW d \in Deposits, pool.prev_reward_user_index <= d.reward_user_index,
           NEW t \in Tokens
    PROVE  /\ Surplus(r, pool, d, t) \in Nat
           /\ r[t].reconciled_amount <= held[t] =>
                r[t].reconciled_amount + Surplus(r, pool, d, t) <= held[t]
  <1> DEFINE h == held[t]
             c == r[t].reconciled_amount
             paid == Paid(pool, d, t)
  <1>1. h \in Nat /\ c \in Nat
    BY DEF Indexes, RewardInfo
  <1>2. paid \in Nat
    <2>1. CASE t = ASTRO
      <3> DEFINE x == d.reward_user_index
                 y == pool.prev_reward_user_index
                 v == d.virtual_amount
      <3>1. x \in Nat /\ y \in Nat /\ v \in Nat /\ y <= x
        BY DEF Deposits, PoolInfo
      <3>2. paid = (x - y) * v
        BY <2>1 DEF Paid
      <3> HIDE DEF x, y, v, paid
      <3>3. x - y \in Nat
        BY <3>1
      <3>4. QED
        BY <3>1, <3>2, <3>3
    <2>2. CASE t # ASTRO
      <3>1. t \in ProxyTokens
        BY <2>2 DEF Tokens
      <3>2. d.reward_debt_proxy[t] \in Nat /\ pool.prev_reward_debt_proxy[t] \in Nat
        BY <3>1 DEF Deposits, PoolInfo
      <3>3. QED
        BY <2>2, <3>2 DEF Paid, Minus
    <2>3. QED
      BY <2>1, <2>2
  <1> HIDE DEF paid
  <1>3. Surplus(r, pool, d, t) = AtMost(Minus(h, c), paid)
    BY DEF Surplus, paid
  <1> HIDE DEF h, c
  <1>4. /\ AtMost(Minus(h, c), paid) \in Nat
        /\ c <= h => c + AtMost(Minus(h, c), paid) <= h
    BY <1>1, <1>2 DEF AtMost, Minus
  <1>5. QED
    BY <1>3, <1>4 DEF h, c

LEMMA ReconcilePasses ==
    ASSUME boost_fee \in 0 .. SCALE, staker_rate \in 0 .. SCALE,
           held \in Indexes, deposits \in [LpTokens -> Deposits],
           NEW s, Passed(s), NEW lp \in LpTokens
    PROVE  Passed(ReconcileClaimedByOthers(s, lp))
  <1> DEFINE pool == s.pools[lp]
             deposit == deposits[lp]
             net == [t \in Tokens |-> Surplus(s.rewards, pool, deposit, t)]
             c == Credit(pool, deposit, net)
             n == [s.pools EXCEPT ![lp] = Synced(pool, c, deposit)]
             ok == s.ok /\ Creditable(pool, deposit, net)
                     /\ pool.prev_reward_user_index <= deposit.reward_user_index
             w == Book(s.rewards, deposit, net)
  <1>1. CASE pool.total_bond_share = 0 \/ ~NeedsClaim(pool)
    <2>1. ReconcileClaimedByOthers(s, lp) = s
      BY <1>1 DEF ReconcileClaimedByOthers
    <2>2. QED
      BY <2>1
  <1>2. CASE ~(pool.total_bond_share = 0 \/ ~NeedsClaim(pool))
    <2>1. ReconcileClaimedByOthers(s, lp) = [pools |-> n, rewards |-> w, ok |-> ok]
      BY <1>2 DEF ReconcileClaimedByOthers
    <2>2. ASSUME ok
          PROVE  /\ Accounts(n, users, w)
                 /\ \A l \in LpTokens :
                      /\ n[l].exists = pools[l].exists
                      /\ n[l].total_bond_share = pools[l].total_bond_share
                      /\ n[l].last_reconcile = pools[l].last_reconcile
                      /\ pools[l].last_reconcile = height => n[l] = pools[l]
                 /\ Covered(rewards, held) => Covered(w, held)
      <3>1. /\ Accounts(s.pools, users, s.rewards)
            /\ \A l \in LpTokens :
                  /\ s.pools[l].exists = pools[l].exists
                  /\ s.pools[l].total_bond_share = pools[l].total_bond_share
                  /\ s.pools[l].last_reconcile = pools[l].last_reconcile
                  /\ pools[l].last_reconcile = height => s.pools[l] = pools[l]
            /\ Covered(rewards, held) => Covered(s.rewards, held)
        BY <2>2 DEF Passed
      <3>2. /\ Creditable(pool, deposit, net)
            /\ pool.prev_reward_user_index <= deposit.reward_user_index
        BY <2>2
      <3>3. s.pools \in [LpTokens -> PoolInfo] /\ s.rewards \in [Tokens -> RewardInfo]
        BY <3>1 DEF Accounts
      <3>4. pool \in PoolInfo /\ deposit \in Deposits
        BY <3>3
      <3>5. \A t \in Tokens :
               /\ Surplus(s.rewards, pool, deposit, t) \in Nat
               /\ s.rewards[t].reconciled_amount <= held[t] =>
                    s.rewards[t].reconciled_amount + Surplus(s.rewards, pool, deposit, t)
                       <= held[t]
        BY <3>2, <3>3, <3>4, SurplusBounds
      <3>6. net \in Indexes /\ \A t \in Tokens : net[t] = Surplus(s.rewards, pool, deposit, t)
        BY <3>5 DEF Indexes
      <3> HIDE DEF net
      <3>7. Synced(pool, c, deposit) =
               [pool EXCEPT !.reward_indexes = c,
                            !.prev_reward_user_index = deposit.reward_user_index,
                            !.prev_reward_debt_proxy = deposit.reward_debt_proxy,
                            !.last_reconcile = pool.last_reconcile]
        BY <3>4 DEF Synced, PoolInfo
      <3>8. /\ deposit.reward_user_index \in Nat /\ pool.last_reconcile \in Nat
            /\ deposit.reward_debt_proxy \in [ProxyTokens -> Nat]
        BY <3>4 DEF Deposits, PoolInfo
      <3>9. Accounts(n, users, w)
        <4>1. PICK P : P = s.pools
          OBVIOUS
        <4>2. PICK R : R = s.rewards
          OBVIOUS
        <4>3. n = [P EXCEPT ![lp] =
                     [P[lp] EXCEPT !.reward_indexes = Credit(P[lp], deposit, net),
                                   !.prev_reward_user_index = deposit.reward_user_index,
                                   !.prev_reward_debt_proxy = deposit.reward_debt_proxy,
                                   !.last_reconcile = pool.last_reconcile]]
          BY <3>7, <4>1
        <4>4. Accounts(P, users, R) /\ Creditable(P[lp], deposit, net) /\ w = Book(R, deposit, net)
          BY <3>1, <3>2, <4>1, <4>2
        <4> HIDE DEF n, w, pool
        <4>5. Accounts(n, users, Book(R, deposit, net))
          BY <3>4, <3>6, <3>8, <4>3, <4>4, CreditKeeps
        <4>6. QED
          BY <4>4, <4>5
      <3>10. ASSUME NEW l \in LpTokens
             PROVE  /\ n[l].exists = pools[l].exists
                    /\ n[l].total_bond_share = pools[l].total_bond_share
                    /\ n[l].last_reconcile = pools[l].last_reconcile
                    /\ pools[l].last_reconcile = height => n[l] = pools[l]
        <4>1. CASE l # lp
          <5>1. n[l] = s.pools[l]
            BY <4>1, <3>3
          <5>2. QED
            BY <3>1, <5>1
        <4>2. CASE l = lp
          <5>1. n[lp] = Synced(pool, c, deposit)
            BY <3>3
          <5>2. /\ n[lp].exists = pool.exists
                /\ n[lp].total_bond_share = pool.total_bond_share
                /\ n[lp].last_reconcile = pool.last_reconcile
            BY <3>4, <5>1 DEF Synced, PoolInfo
          <5>3. pool.last_reconcile # height
            BY <1>2 DEF NeedsClaim
          <5> HIDE DEF n, pool
          <5>4. QED
            BY <3>1, <4>2, <5>2, <5>3 DEF pool
        <4>3. QED
          BY <4>1, <4>2
      <3>11. Covered(rewards, held) => Covered(w, held)
        <4> SUFFICES ASSUME Covered(rewards, held), NEW t \in Tokens
                     PROVE  w[t].reconciled_amount <= held[t]
          BY DEF Covered
        <4>1. w[t].reconciled_amount = s.rewards[t].reconciled_amount + net[t]
          BY DEF Book
        <4>2. s.rewards[t].reconciled_amount <= held[t]
          BY <3>1 DEF Covered
        <4>3. QED
          BY <3>5, <3>6, <4>1, <4>2
      <3>12. QED
        BY <3>9, <3>10, <3>11
    <2> HIDE DEF n, w, ok
    <2>3. QED
      BY <2>1, <2>2 DEF Passed
  <1>3. QED
    BY <1>1, <1>2

\* (Begin) So does the whole list.
LEMMA ListPasses ==
    ASSUME boost_fee \in 0 .. SCALE, staker_rate \in 0 .. SCALE,
           held \in Indexes, deposits \in [LpTokens -> Deposits],
           NEW b, Passed(b), NEW lps \in Seq(LpTokens)
    PROVE  Passed(FoldLeft(ReconcileClaimedByOthers, b, lps))
  <1> DEFINE S == 1 .. Len(lps)
  <1>1. PICK g : /\ IsFold(g, b, lps, Len(lps))
                 /\ FoldLeft(ReconcileClaimedByOthers, b, lps) = g[S]
    BY FoldOf
  <1>2. Len(lps) \in Nat /\ IsFiniteSet(S) /\ S \in SUBSET S
    BY LenProperties, FS_Interval
  <1> DEFINE T == {U \in SUBSET S : ~Passed(g[U])}
  <1>3. ASSUME T # {} PROVE FALSE
    <2> HIDE DEF S
    <2>1. T \in SUBSET SUBSET S
      OBVIOUS
    <2>2. PICK U \in T : \A V \in T : V \subseteq U => V = U
      <3> HIDE DEF T
      <3>1. QED
        BY <1>2, <1>3, <2>1, SmallestSet
    <2>3. U \in SUBSET S /\ ~Passed(g[U])
      OBVIOUS
    <2>4. g[U] = Step(g, b, lps, U)
      BY <1>1, <2>3 DEF IsFold, S
    <2>5. U # {}
      BY <2>3, <2>4 DEF Step
    <2>6. Max(U) \in U
      BY <1>2, <2>3, <2>5, MaxIsMember DEF S
    <2> DEFINE V == U \ {Max(U)}
    <2>7. V \in SUBSET S /\ V \subseteq U /\ V # U
      BY <2>3, <2>6
    <2>8. V \notin T
      BY <2>2, <2>7
    <2>9. Passed(g[V])
      BY <2>7, <2>8
    <2>10. lps[Max(U)] \in LpTokens
      BY <2>3, <2>6, ElementOfSeq DEF S
    <2>11. g[U] = ReconcileClaimedByOthers(g[V], lps[Max(U)])
      BY <2>4, <2>5 DEF Step
    <2> HIDE DEF V
    <2>12. Passed(g[U])
      BY <2>9, <2>10, <2>11, ReconcilePasses
    <2>13. QED
      BY <2>3, <2>12
  <1>4. Passed(g[S])
    BY <1>2, <1>3
  <1>5. QED
    BY <1>1, <1>4

-----------------------------------------------------------------------------
(* Changes of a record *)

\* The accounts depend on the pools' indexes and shares only.
LEMMA PoolsAlike ==
    ASSUME NEW p, NEW k, NEW r, Accounts(p, k, r), NEW n \in [LpTokens -> PoolInfo],
           \A l \in LpTokens : /\ n[l].reward_indexes = p[l].reward_indexes
                               /\ n[l].total_bond_share = p[l].total_bond_share
    PROVE  Accounts(n, k, r)
  <1>1. \A q \in LpTokens \X Users : q[1] \in LpTokens
    OBVIOUS
  <1>2. Known(n, k)
    BY <1>1 DEF Accounts, Known
  <1>3. ASSUME NEW t \in Tokens PROVE Claims(n, k, t) = Claims(p, k, t)
    <2>1. \A q \in LpTokens \X Users : Claim(n, k, q, t) = Claim(p, k, q, t)
      BY <1>1 DEF Claim
    <2>2. QED
      BY <2>1 DEF Claims
  <1>4. \A t \in Tokens : Backed(n, k, r, t)
    BY <1>3 DEF Accounts, Backed
  <1>5. QED
    BY <1>2, <1>4 DEF Accounts

\* (reconcile_to_user_info) What a user earned, truncated, is within his
\* claim.
LEMMA EarnedIsClaimed ==
    ASSUME NEW p \in [LpTokens -> PoolInfo], NEW k \in [LpTokens \X Users -> UserInfo],
           Known(p, k), NEW q \in LpTokens \X Users, NEW t \in Tokens
    PROVE  /\ Earned(p[q[1]], k[q])[t] \in Nat
           /\ SCALE * Earned(p[q[1]], k[q])[t] <= Claim(p, k, q, t)
           /\ Claim(p, k, q, t) \in Nat
  <1> DEFINE x == p[q[1]].reward_indexes[t]
             i == k[q].reward_indexes[t]
             b == k[q].bond_share
             w == k[q].pending_rewards[t]
             e == TimesDecimal(b, x - i)
  <1>1. x \in Nat /\ i \in Nat /\ b \in Nat /\ w \in Nat /\ i <= x
    BY RecordType DEF Known
  <1>2. Earned(p[q[1]], k[q])[t] = w + e /\ Claim(p, k, q, t) = SCALE * w + b * (x - i)
    BY DEF Earned, Claim
  <1>3. e \in Nat /\ SCALE * e <= b * (x - i)
    <2> HIDE DEF x, i, b
    <2>1. x - i \in Nat
      BY <1>1
    <2>2. QED
      BY <1>1, <2>1, TimesDecimalBounds
  <1> HIDE DEF x, i, b, w, e
  <1>4. /\ SCALE * (w + e) = SCALE * w + SCALE * e
        /\ SCALE * w \in Nat /\ SCALE * e \in Nat /\ b * (x - i) \in Nat
    <2>1. SCALE \in Nat /\ x - i \in Nat
      BY <1>1, DecimalAssumption
    <2>2. QED
      BY <1>1, <1>3, <2>1
  <1>5. QED
    BY <1>1, <1>2, <1>3, <1>4

\* The user u of the pool lp gets the record `new', the pool the record x,
\* and what has been reconciled falls at most by what the user is paid.
Changes(p, k, r, lp, u, new, x, w) ==
    /\ new \in UserInfo /\ new.exists /\ new.reward_indexes = p[lp].reward_indexes
    /\ x \in PoolInfo /\ x.reward_indexes = p[lp].reward_indexes
    /\ x.total_bond_share = p[lp].total_bond_share - k[<<lp, u>>].bond_share + new.bond_share
    /\ w \in [Tokens -> RewardInfo]
    /\ \A t \in Tokens :
          /\ w[t].fee = r[t].fee /\ w[t].staker_income = r[t].staker_income
          /\ SCALE * new.pending_rewards[t] + SCALE * r[t].reconciled_amount
                <= Claim(p, k, <<lp, u>>, t) + SCALE * w[t].reconciled_amount

LEMMA UserChanges ==
    ASSUME NEW p, NEW k, NEW r, Accounts(p, k, r),
           NEW lp \in LpTokens, NEW u \in Users, NEW new, NEW x, NEW w,
           Changes(p, k, r, lp, u, new, x, w)
    PROVE  Accounts([p EXCEPT ![lp] = x], [k EXCEPT ![<<lp, u>>] = new], w)
  <1>0. PICK q, n, m : q = <<lp, u>> /\ n = [p EXCEPT ![lp] = x] /\ m = [k EXCEPT ![q] = new]
    OBVIOUS
  <1>c. /\ new \in UserInfo /\ new.exists /\ new.reward_indexes = p[lp].reward_indexes
        /\ x \in PoolInfo /\ x.reward_indexes = p[lp].reward_indexes
        /\ x.total_bond_share = p[lp].total_bond_share - k[q].bond_share + new.bond_share
        /\ w \in [Tokens -> RewardInfo]
        /\ \A t \in Tokens :
              /\ w[t].fee = r[t].fee /\ w[t].staker_income = r[t].staker_income
              /\ SCALE * new.pending_rewards[t] + SCALE * r[t].reconciled_amount
                    <= Claim(p, k, q, t) + SCALE * w[t].reconciled_amount
    BY <1>0 DEF Changes
  <1>1. /\ p \in [LpTokens -> PoolInfo] /\ k \in [LpTokens \X Users -> UserInfo]
        /\ r \in [Tokens -> RewardInfo] /\ Known(p, k)
        /\ \A l \in LpTokens : Total(Shares(k, l)) = p[l].total_bond_share
        /\ \A t \in Tokens : Backed(p, k, r, t)
    BY DEF Accounts
  <1>2. q \in LpTokens \X Users /\ q[1] = lp /\ q[2] = u
    BY <1>0
  <1>3. /\ n \in [LpTokens -> PoolInfo] /\ n[lp] = x
        /\ \A l \in LpTokens \ {lp} : n[l] = p[l]
        /\ \A l \in LpTokens : n[l].reward_indexes = p[l].reward_indexes
    BY <1>0, <1>c, <1>1
  <1>4. /\ m \in [LpTokens \X Users -> UserInfo] /\ m[q] = new
        /\ \A o \in LpTokens \X Users : o # q => m[o] = k[o]
    BY <1>0, <1>c, <1>1, <1>2
  <1>5. Known(n, m)
    <2>1. ASSUME NEW o \in LpTokens \X Users
          PROVE  /\ \A t \in Tokens : m[o].reward_indexes[t] <= n[o[1]].reward_indexes[t]
                 /\ m[o].exists \/ m[o] = NoUser
      <3>1. CASE o # q
        BY <1>1, <1>3, <1>4, <3>1 DEF Known
      <3>2. CASE o = q
        <4>1. \A t \in Tokens : x.reward_indexes[t] \in Nat
          BY <1>c DEF PoolInfo, Indexes
        <4>2. m[o].reward_indexes = x.reward_indexes /\ n[o[1]].reward_indexes = x.reward_indexes
          BY <1>c, <1>2, <1>3, <1>4, <3>2
        <4>3. QED
          BY <1>c, <1>4, <3>2, <4>1, <4>2
      <3>3. QED
        BY <3>1, <3>2
    <2>2. QED
      BY <2>1 DEF Known
  <1>6. ASSUME NEW l \in LpTokens PROVE Total(Shares(m, l)) = n[l].total_bond_share
    <2> DEFINE S == Shares(k, l)
               D == Shares(m, l)
    <2>1. S \in [Users -> Nat] /\ D \in [Users -> Nat]
      BY <1>1, <1>4, SharesType
    <2>2. \A v \in Users : <<l, v>> \in LpTokens \X Users /\ (<<l, v>> = q <=> l = lp /\ v = u)
      BY <1>0
    <2>3. \A v \in Users : S[v] = k[<<l, v>>].bond_share /\ D[v] = m[<<l, v>>].bond_share
      BY DEF Shares
    <2>4. Total(S) = p[l].total_bond_share
      BY <1>1
    <2> HIDE DEF S, D
    <2>5. CASE l # lp
      <3>1. \A v \in Users : D[v] = S[v]
        BY <1>4, <2>2, <2>3, <2>5
      <3>2. D = S
        BY <2>1, <3>1
      <3>3. QED
        BY <1>3, <2>4, <2>5, <3>2 DEF S, D
    <2>6. CASE l = lp
      <3>1. \A v \in Users : v # u => D[v] = S[v]
        BY <1>0, <1>4, <2>2, <2>3, <2>6
      <3>2. Total(D) = Total(S) - S[u] + D[u]
        <4>1. IsFiniteSet(Users)
          BY BondAssumption
        <4>2. QED
          BY <2>1, <3>1, <4>1, TotalReplaced
      <3>3. S[u] = k[q].bond_share /\ D[u] = new.bond_share
        BY <1>0, <1>4, <2>3, <2>6
      <3>4. QED
        BY <1>c, <1>3, <2>4, <2>6, <3>2, <3>3 DEF D
    <2>7. QED
      BY <2>5, <2>6
  <1>7. ASSUME NEW t \in Tokens PROVE Backed(n, m, w, t)
    <2> DEFINE C == Claims(p, k, t)
               D == Claims(n, m, t)
    <2>1. /\ C \in [LpTokens \X Users -> Nat] /\ Total(C) \in Nat
          /\ D \in [LpTokens \X Users -> Nat] /\ Total(D) \in Nat
      BY <1>1, <1>3, <1>4, <1>5, ClaimType
    <2>2. \A o \in LpTokens \X Users : C[o] = Claim(p, k, o, t) /\ D[o] = Claim(n, m, o, t)
      BY DEF Claims
    <2>3. ASSUME NEW o \in LpTokens \X Users, o # q PROVE D[o] = C[o]
      <3>1. o[1] \in LpTokens
        OBVIOUS
      <3>2. Claim(n, m, o, t) = Claim(p, k, o, t)
        BY <1>3, <1>4, <2>3, <3>1 DEF Claim
      <3>3. QED
        BY <2>2, <3>2
    <2>4. D[q] = SCALE * new.pending_rewards[t]
      <3> DEFINE b == new.bond_share
                 i == x.reward_indexes[t]
      <3>1. b \in Nat /\ i \in Nat
        BY <1>c DEF UserInfo, PoolInfo, Indexes
      <3>2. D[q] = SCALE * new.pending_rewards[t] + b * (i - i)
        <4>1. /\ m[q] = new /\ n[q[1]] = x /\ new.reward_indexes = x.reward_indexes
              /\ D[q] = Claim(n, m, q, t)
          BY <1>c, <1>2, <1>3, <1>4, <2>2
        <4> HIDE DEF D
        <4>2. QED
          BY <4>1 DEF Claim
      <3>3. SCALE * new.pending_rewards[t] \in Nat
        <4>1. new.pending_rewards[t] \in Nat
          BY <1>c DEF UserInfo, Indexes
        <4>2. QED
          BY <4>1, DecimalAssumption
      <3> HIDE DEF b, i
      <3>4. b * (i - i) = 0
        BY <3>1
      <3>5. QED
        BY <3>2, <3>3, <3>4
    <2> HIDE DEF C, D
    <2>5. Total(D) = Total(C) - C[q] + D[q]
      <3>1. PICK Q : Q = LpTokens \X Users
        OBVIOUS
      <3>2. /\ IsFiniteSet(Q) /\ C \in [Q -> Nat] /\ D \in [Q -> Nat] /\ q \in Q
            /\ \A o \in Q : o # q => D[o] = C[o]
        BY <1>2, <2>1, <2>3, <3>1, Finite
      <3>3. QED
        BY <3>2, TotalReplaced
    <2> DEFINE A == Total(C)
               B == Total(D)
               y == SCALE * (r[t].fee + r[t].staker_income)
               o == SCALE * r[t].reconciled_amount
               z == SCALE * w[t].reconciled_amount
    <2>6. A + y <= o
      BY <1>1 DEF Backed, C
    <2>7. /\ D[q] + o <= C[q] + z
          /\ w[t].fee = r[t].fee /\ w[t].staker_income = r[t].staker_income
      BY <1>c, <1>2, <2>2, <2>4
    <2>8. /\ y \in Nat /\ o \in Nat /\ z \in Nat /\ C[q] \in Nat /\ D[q] \in Nat
      <3>1. /\ r[t].fee \in Nat /\ r[t].staker_income \in Nat /\ r[t].reconciled_amount \in Nat
            /\ w[t].reconciled_amount \in Nat
        BY <1>c, <1>1 DEF RewardInfo
      <3>2. QED
        BY <1>2, <2>1, <3>1, DecimalAssumption
    <2>9. B + y <= z
      <3> HIDE DEF A, B, y, o, z
      <3>1. A \in Nat /\ B \in Nat /\ B = A - C[q] + D[q]
        BY <2>1, <2>5 DEF A, B
      <3>2. QED
        BY <2>6, <2>7, <2>8, <3>1
    <2>10. QED
      BY <2>7, <2>9 DEF Backed, D
  <1>8. QED
    BY <1>0, <1>c, <1>1, <1>3, <1>4, <1>5, <1>6, <1>7 DEF Accounts

-----------------------------------------------------------------------------
(* The generator's record *)

\* What a call about a deposit leaves: it is paid up, and nothing is taken
\* from the contract.
LEMMA SettleLeaves ==
    ASSUME held \in Indexes, emitted \in [LpTokens -> Indexes],
           deposits \in [LpTokens -> Deposits],
           \A l \in LpTokens : Recorded(deposits, emitted, l),
           NEW lp \in LpTokens, NEW amount \in Nat, Settle(lp, amount)
    PROVE  /\ deposits' \in [LpTokens -> Deposits]
           /\ deposits'[lp].amount = amount
           /\ \A l \in LpTokens \ {lp} : deposits'[l] = deposits[l]
           /\ \A l \in LpTokens : Recorded(deposits', emitted, l)
           /\ Current(deposits', emitted, lp)
           /\ held' \in Indexes /\ \A t \in Tokens : held[t] <= held'[t]
  <1>1. PICK virtual \in VirtualAmounts(amount) :
          deposits' = [deposits EXCEPT ![lp] =
              IF amount = 0 THEN NoDeposit
              ELSE [amount |-> amount, virtual_amount |-> virtual,
                    reward_user_index |-> emitted[lp][ASTRO],
                    reward_debt_proxy |-> [t \in ProxyTokens |-> emitted[lp][t] * amount]]]
    BY DEF Settle
  <1>2. virtual \in Nat
    BY DEF VirtualAmounts
  <1>3. ASTRO \in Tokens /\ \A t \in ProxyTokens : t \in Tokens /\ t # ASTRO
    BY BondAssumption DEF Tokens
  <1>4. emitted[lp] \in [Tokens -> Nat]
    BY DEF Indexes
  <1>5. \A t \in ProxyTokens : emitted[lp][t] \in Nat
    BY <1>3, <1>4
  <1> DEFINE x == deposits'[lp]
  <1>6. x = IF amount = 0 THEN NoDeposit
              ELSE [amount |-> amount, virtual_amount |-> virtual,
                    reward_user_index |-> emitted[lp][ASTRO],
                    reward_debt_proxy |-> [t \in ProxyTokens |-> emitted[lp][t] * amount]]
    BY <1>1
  <1>7. /\ x \in Deposits /\ x.amount = amount
        /\ x.amount > 0 => x.reward_user_index = emitted[lp][ASTRO]
        /\ x.reward_user_index <= emitted[lp][ASTRO]
        /\ \A t \in ProxyTokens : x.reward_debt_proxy[t] = emitted[lp][t] * x.amount
        /\ x.amount = 0 => x = NoDeposit
    <2> HIDE DEF x
    <2>1. emitted[lp][ASTRO] \in Nat
      BY <1>3, <1>4
    <2>2. CASE amount = 0
      <3>1. x = NoDeposit
        BY <1>6, <2>2
      <3>2. /\ x.amount = 0 /\ x.reward_user_index = 0 /\ x.reward_debt_proxy = NoDebt
            /\ x.virtual_amount = 0 /\ NoDebt \in [ProxyTokens -> Nat]
        BY <3>1 DEF NoDeposit, NoDebt
      <3>3. NoDeposit \in Deposits
        BY <3>2 DEF NoDeposit, Deposits
      <3>4. \A t \in ProxyTokens : x.reward_debt_proxy[t] = emitted[lp][t] * x.amount
        BY <1>5, <3>2 DEF NoDebt
      <3>5. QED
        BY <2>1, <2>2, <3>1, <3>2, <3>3, <3>4
    <2>3. CASE amount # 0
      <3> DEFINE debt == [t \in ProxyTokens |-> emitted[lp][t] * amount]
      <3>1. debt \in [ProxyTokens -> Nat] /\ \A t \in ProxyTokens : debt[t] = emitted[lp][t] * amount
        BY <1>5
      <3>2. x = [amount |-> amount, virtual_amount |-> virtual,
                 reward_user_index |-> emitted[lp][ASTRO], reward_debt_proxy |-> debt]
        BY <1>6, <2>3
      <3> HIDE DEF debt
      <3>3. x \in Deposits
        BY <1>2, <2>1, <3>1, <3>2 DEF Deposits
      <3>4. QED
        BY <2>1, <2>3, <3>1, <3>2, <3>3
    <2>4. QED
      BY <2>2, <2>3
  <1>8. deposits' = [deposits EXCEPT ![lp] = x]
    BY <1>1
  <1> HIDE DEF x
  <1>9. /\ deposits' \in [LpTokens -> Deposits] /\ deposits'[lp] = x
        /\ \A l \in LpTokens \ {lp} : deposits'[l] = deposits[l]
    BY <1>7, <1>8
  <1>10. ASSUME NEW l \in LpTokens PROVE Recorded(deposits', emitted, l)
    <2>1. CASE l # lp
      <3>1. Recorded(deposits, emitted, l) /\ deposits'[l] = deposits[l]
        BY <1>9, <2>1
      <3>2. QED
        BY <3>1 DEF Recorded
    <2>2. CASE l = lp
      <3>1. \A t \in ProxyTokens : x.reward_debt_proxy[t] <= emitted[lp][t] * x.amount
        <4>1. ASSUME NEW t \in ProxyTokens
              PROVE  x.reward_debt_proxy[t] <= emitted[lp][t] * x.amount
          <5>1. x.reward_debt_proxy[t] = emitted[lp][t] * x.amount
            BY <1>7
          <5>2. x.reward_debt_proxy[t] \in Nat
            BY <1>7 DEF Deposits
          <5>3. QED
            BY <5>1, <5>2
        <4>2. QED
          BY <4>1
      <3>2. QED
        BY <1>7, <1>9, <2>2, <3>1 DEF Recorded
    <2>3. QED
      BY <2>1, <2>2
  <1>11. Current(deposits', emitted, lp)
    BY <1>7, <1>9 DEF Current
  <1>12. ASSUME NEW t \in Tokens PROVE Owed(lp)[t] \in Nat
    <2> DEFINE e == emitted[lp][t]
               d == deposits[lp]
    <2>1. e \in Nat /\ d \in Deposits /\ Recorded(deposits, emitted, lp)
      BY <1>4
    <2>2. d.amount \in Nat /\ d.virtual_amount \in Nat /\ d.reward_user_index \in Nat
      BY <2>1 DEF Deposits
    <2>3. CASE t = ASTRO
      <3>1. d.reward_user_index <= e
        BY <2>1, <2>3 DEF Recorded
      <3>2. Owed(lp)[t] = (e - d.reward_user_index) * d.virtual_amount
        BY <2>3 DEF Owed
      <3> HIDE DEF e, d
      <3>3. e - d.reward_user_index \in Nat
        BY <2>1, <2>2, <3>1
      <3>4. QED
        BY <2>2, <3>2, <3>3
    <2>4. CASE t # ASTRO
      <3>1. t \in ProxyTokens
        BY <2>4 DEF Tokens
      <3>2. d.reward_debt_proxy[t] <= e * d.amount /\ d.reward_debt_proxy[t] \in Nat
        BY <2>1, <3>1 DEF Recorded, Deposits
      <3>3. Owed(lp)[t] = e * d.amount - d.reward_debt_proxy[t]
        BY <2>4 DEF Owed
      <3> HIDE DEF e, d
      <3>4. e * d.amount \in Nat
        BY <2>1, <2>2
      <3>5. QED
        BY <3>2, <3>3, <3>4
    <2>5. QED
      BY <2>3, <2>4
  <1>13. held' = [t \in Tokens |-> held[t] + Owed(lp)[t]]
    BY DEF Settle
  <1>14. \A t \in Tokens : held[t] \in Nat
    BY DEF Indexes
  <1>15. held' \in [Tokens -> Nat] /\ \A t \in Tokens : held[t] <= held'[t]
    BY <1>12, <1>13, <1>14
  <1>16. QED
    BY <1>7, <1>9, <1>10, <1>11, <1>15 DEF Indexes

-----------------------------------------------------------------------------
(* The queue *)

\* What is left once the first message has been executed.
LEMMA TailOf ==
    ASSUME NEW q \in Seq(Message), q # << >>
    PROVE  /\ Len(q) \in Nat \ {0} /\ Head(q) = q[1] /\ q[1] \in Message
           /\ Tail(q) \in Seq(Message) /\ Len(Tail(q)) = Len(q) - 1
           /\ \A i \in 1 .. Len(q) - 1 : Tail(q)[i] = q[i + 1]
           /\ Tail(q) # << >> => Len(q) > 1 /\ Head(Tail(q)) = q[2]
           /\ Len(q) = 1 => Tail(q) = << >>
  <1>1. Len(q) \in Nat \ {0}
    BY EmptySeq, LenProperties
  <1>2. Head(q) = q[1] /\ q[1] \in Message
    BY <1>1, HeadTailProperties, ElementOfSeq
  <1>3. /\ Tail(q) \in Seq(Message) /\ Len(Tail(q)) = Len(q) - 1
        /\ \A i \in 1 .. Len(q) - 1 : Tail(q)[i] = q[i + 1]
    BY HeadTailProperties
  <1>4. ASSUME Tail(q) # << >> PROVE Len(q) > 1 /\ Head(Tail(q)) = q[2]
    <2>1. Len(Tail(q)) \in Nat \ {0}
      BY <1>3, <1>4, EmptySeq, LenProperties
    <2>2. Len(q) > 1
      BY <1>1, <1>3, <2>1
    <2>3. Head(Tail(q)) = Tail(q)[1]
      BY <1>3, <1>4, HeadTailProperties
    <2>4. 1 \in 1 .. Len(q) - 1
      BY <1>1, <2>2
    <2>5. Tail(q)[1] = q[1 + 1]
      BY <1>3, <2>4
    <2>6. QED
      BY <2>2, <2>3, <2>5
  <1>5. ASSUME Len(q) = 1 PROVE Tail(q) = << >>
    <2>1. Len(Tail(q)) = 0
      BY <1>3, <1>5
    <2>2. QED
      BY <1>3, <2>1, EmptySeq
  <1>6. QED
    BY <1>1, <1>2, <1>3, <1>4, <1>5

\* A well-formed rest of a call.
Listed(q) == (\A i \in 1 .. Len(q) : Proper(q[i])) /\ Paired(q) /\ ChangesLast(q)

LEMMA ListedTail ==
    ASSUME NEW q \in Seq(Message), q # << >>, Listed(q)
    PROVE  Listed(Tail(q))
  <1> DEFINE t == Tail(q)
             n == Len(q)
  <1>1. /\ n \in Nat \ {0} /\ t \in Seq(Message) /\ Len(t) = n - 1
        /\ \A i \in 1 .. n - 1 : t[i] = q[i + 1]
    BY TailOf
  <1>2. \A i \in 1 .. n - 1 : i + 1 \in 1 .. n
    BY <1>1
  <1>3. /\ \A i \in 1 .. n : Proper(q[i])
        /\ \A i \in 2 .. n : q[i].type = "AfterBondClaimed" =>
              q[i - 1].type = "GeneratorClaim" /\ q[i - 1].lp = q[i].lp
        /\ \A i \in 1 .. n : q[i].type \in ChangeTypes =>
              /\ i = n
              /\ i > 1 => q[i - 1].type = "AfterBondClaimed" /\ q[i - 1].lp = q[i].lp
    BY DEF Listed, Paired, ChangesLast
  <1> HIDE DEF t, n
  <1>4. \A i \in 1 .. n - 1 : Proper(t[i])
    BY <1>1, <1>2, <1>3
  <1>5. ASSUME NEW i \in 2 .. n - 1
        PROVE  t[i].type = "AfterBondClaimed" =>
                  t[i - 1].type = "GeneratorClaim" /\ t[i - 1].lp = t[i].lp
    <2>1. i \in 1 .. n - 1 /\ i - 1 \in 1 .. n - 1 /\ i + 1 \in 2 .. n /\ (i - 1) + 1 = (i + 1) - 1
      BY <1>1
    <2>2. t[i] = q[i + 1] /\ t[i - 1] = q[(i + 1) - 1]
      BY <1>1, <2>1
    <2>3. QED
      BY <1>3, <2>1, <2>2
  <1>6. ASSUME NEW i \in 1 .. n - 1, t[i].type \in ChangeTypes
        PROVE  /\ i = n - 1
               /\ i > 1 => t[i - 1].type = "AfterBondClaimed" /\ t[i - 1].lp = t[i].lp
    <2>1. i + 1 \in 1 .. n /\ i + 1 > 1 /\ t[i] = q[i + 1]
      BY <1>1, <1>2
    <2>2. /\ i + 1 = n
          /\ q[(i + 1) - 1].type = "AfterBondClaimed" /\ q[(i + 1) - 1].lp = q[i + 1].lp
      BY <1>3, <1>6, <2>1
    <2>3. ASSUME i > 1 PROVE t[i - 1] = q[(i + 1) - 1]
      <3>1. i - 1 \in 1 .. n - 1 /\ (i - 1) + 1 = (i + 1) - 1
        BY <1>1, <2>3
      <3>2. QED
        BY <1>1, <3>1
    <2>4. i = n - 1
      BY <1>1, <2>2
    <2>5. QED
      BY <2>1, <2>2, <2>3, <2>4
  <1>7. QED
    BY <1>1, <1>4, <1>5, <1>6 DEF Listed, Paired, ChangesLast, t

\* The message that is next tells how far the transaction is.
LEMMA StageOf ==
    ASSUME IInv
    PROVE  /\ queue = << >> => Calm
           /\ queue # << >> => Undone
           /\ queue # << >> =>
                /\ Head(queue) = queue[1] /\ Head(queue) \in Message
                /\ Head(queue).type \in ClaimTypes \cup ChangeTypes => Calm
                /\ Head(queue).type \in {"GeneratorDeposit", "GeneratorWithdraw"} => Changing
                /\ Head(queue).type = "AfterBondChanged" => Changed
  <1>1. queue \in Seq(Message)
    BY DEF IInv, Sound
  <1>2. CASE queue = << >>
    <2>1. Len(queue) = 0
      BY <1>2
    <2>2. QED
      BY <1>2, <2>1 DEF IInv, Changing, Changed
  <1>3. CASE queue # << >>
    <2>1. Head(queue) = queue[1] /\ Head(queue) \in Message /\ 1 \in 1 .. Len(queue)
      BY <1>1, <1>3, TailOf
    <2>2. Calm => Head(queue).type \in ClaimTypes \cup ChangeTypes
      BY <2>1 DEF Calm, Proper
    <2>3. QED
      BY <1>3, <2>1, <2>2 DEF IInv, Changing, Changed, ClaimTypes, ChangeTypes
  <1>4. QED
    BY <1>2, <1>3

\* What comes after the next message.
LEMMA NextInList ==
    ASSUME NEW q \in Seq(Message), q # << >>, Listed(q), Tail(q) # << >>
    PROVE  /\ Head(Tail(q)).type = "AfterBondClaimed" =>
                Head(q).type = "GeneratorClaim" /\ Head(q).lp = Head(Tail(q)).lp
           /\ Head(Tail(q)).type \in ChangeTypes =>
                Head(q).type = "AfterBondClaimed" /\ Head(q).lp = Head(Tail(q)).lp
  <1>1. Len(q) \in Nat /\ Len(q) > 1 /\ Head(q) = q[1] /\ Head(Tail(q)) = q[2]
    BY TailOf
  <1>2. 2 \in 2 .. Len(q) /\ 2 \in 1 .. Len(q) /\ 2 - 1 = 1 /\ 2 > 1
    BY <1>1
  <1>3. QED
    BY <1>1, <1>2 DEF Listed, Paired, ChangesLast

LEMMA ChangeIsLast ==
    ASSUME NEW q \in Seq(Message), q # << >>, Listed(q), Head(q).type \in ChangeTypes
    PROVE  Len(q) = 1 /\ Tail(q) = << >> /\ Proper(Head(q))
  <1>1. Len(q) \in Nat \ {0} /\ Head(q) = q[1]
    BY TailOf
  <1>2. 1 \in 1 .. Len(q)
    BY <1>1
  <1>3. Len(q) = 1 /\ Proper(Head(q))
    BY <1>1, <1>2 DEF Listed, ChangesLast
  <1>4. QED
    BY <1>3, TailOf

\* One message of the claims has been executed.
LEMMA CalmGoesOn ==
    ASSUME queue \in Seq(Message), queue # << >>, Calm, NEW m, m = Head(queue),
           queue' = Tail(queue),
           \A l \in LpTokens : Rested(pools', deposits', emitted', height', l),
           \A l \in LpTokens : deposits'[l].amount = deposits[l].amount,
           m.type = "GeneratorClaim" => Current(deposits', emitted', m.lp),
           m.type = "AfterBondClaimed" => Ready(pools', deposits', emitted', m.lp)
    PROVE  Calm'
  <1>1. PICK q : q = queue
    OBVIOUS
  <1>2. PICK t : t = Tail(q)
    OBVIOUS
  <1>3. q \in Seq(Message) /\ q # << >> /\ Listed(q) /\ m = Head(q) /\ queue' = t
    BY <1>1, <1>2 DEF Calm, Listed
  <1>4. Listed(t) /\ t \in Seq(Message) /\ Len(t) = Len(q) - 1 /\ Len(q) \in Nat \ {0}
        /\ \A i \in 1 .. Len(q) - 1 : t[i] = q[i + 1]
    BY <1>2, <1>3, ListedTail, TailOf
  <1>5. \A i \in 1 .. Len(t) : t[i].type = "Withdraw" => deposits'[t[i].lp].amount > 0
    <2>1. ASSUME NEW i \in 1 .. Len(t), t[i].type = "Withdraw"
          PROVE  deposits'[t[i].lp].amount > 0
      <3>1. i + 1 \in 1 .. Len(q) /\ t[i] = q[i + 1] /\ q[i + 1] = queue[i + 1]
        BY <1>1, <1>4
      <3>2. deposits[queue[i + 1].lp].amount > 0
        BY <1>1, <2>1, <3>1 DEF Calm
      <3>3. t[i].lp \in LpTokens
        BY <1>4 DEF Listed, Proper, Message
      <3>4. QED
        BY <3>1, <3>2, <3>3
    <2>2. QED
      BY <2>1
  <1>6. ASSUME t # << >>, Head(t).type = "AfterBondClaimed"
        PROVE  Current(deposits', emitted', Head(t).lp)
    BY <1>2, <1>3, <1>6, NextInList
  <1>7. ASSUME t # << >>, Head(t).type \in ChangeTypes
        PROVE  Ready(pools', deposits', emitted', Head(t).lp)
    BY <1>2, <1>3, <1>7, NextInList
  <1>8. QED
    BY <1>3, <1>4, <1>5, <1>6, <1>7 DEF Calm, Listed, Executes, ChangeTypes

\* What a failing message would bring back is not touched within a
\* transaction.
LEMMA UndoneStays ==
    ASSUME Undone, undo' = undo, UNCHANGED <<emitted, height>>
    PROVE  Undone'
  BY DEF Undone

-----------------------------------------------------------------------------
(* The messages *)

LEMMA GeneratorClaimKeeps ==
    ASSUME IInv, GeneratorClaim
    PROVE  IInv'
  <1>1. PICK m : m = Head(queue)
    OBVIOUS
  <1>2. PICK lp : lp = m.lp
    OBVIOUS
  <1>3. /\ queue # << >> /\ m.type = "GeneratorClaim"
        /\ Settle(lp, deposits[lp].amount)
        /\ queue' = Tail(queue)
        /\ queue' # << >> => undo' = undo
        /\ UNCHANGED <<pools, users, rewards, boost_fee, staker_rate, height, emitted>>
    BY <1>1, <1>2 DEF GeneratorClaim, Executes, Proceed, bond
  <1>4. /\ Calm /\ Undone /\ m \in Message /\ lp \in LpTokens
        /\ queue \in Seq(Message)
    <2>1. Head(queue).type \in ClaimTypes
      BY <1>1, <1>3 DEF ClaimTypes
    <2>2. Calm /\ Undone /\ m \in Message
      BY <1>1, <1>3, <2>1, StageOf
    <2>3. QED
      BY <1>2, <2>2 DEF Message, IInv, Sound
  <1>5. /\ held \in Indexes /\ emitted \in [LpTokens -> Indexes]
        /\ deposits \in [LpTokens -> Deposits]
        /\ \A l \in LpTokens : Recorded(deposits, emitted, l)
    BY DEF IInv, Sound
  <1>6. PICK a : a = deposits[lp].amount
    OBVIOUS
  <1>7. a \in Nat
    BY <1>4, <1>5, <1>6 DEF Deposits
  <1>8. /\ deposits' \in [LpTokens -> Deposits]
        /\ deposits'[lp].amount = a
        /\ \A l \in LpTokens \ {lp} : deposits'[l] = deposits[l]
        /\ \A l \in LpTokens : Recorded(deposits', emitted, l)
        /\ Current(deposits', emitted, lp)
        /\ held' \in Indexes
    BY <1>3, <1>4, <1>5, <1>6, <1>7, SettleLeaves
  <1>9. Sound'
    <2>1. Tail(queue) \in Seq(Message)
      BY <1>3, <1>4, TailOf
    <2>2. QED
      BY <1>3, <1>8, <2>1 DEF IInv, Sound
  <1>10. ASSUME NEW l \in LpTokens
         PROVE  Rested(pools', deposits', emitted', height', l)
    <2>1. Rested(pools, deposits, emitted, height, l)
      BY <1>4 DEF Calm
    <2>2. CASE l # lp
      <3>1. deposits'[l] = deposits[l]
        BY <1>8, <2>2
      <3>2. QED
        BY <1>3, <2>1, <3>1 DEF Rested, Current
    <2>3. CASE l = lp
      BY <1>3, <1>6, <1>8, <2>1, <2>3 DEF Rested, Current
    <2>4. QED
      BY <2>2, <2>3
  <1>11. \A l \in LpTokens : deposits'[l].amount = deposits[l].amount
    BY <1>6, <1>8
  <1>12. m.type # "AfterBondClaimed" /\ Current(deposits', emitted', lp)
    BY <1>3, <1>8
  <1>13. Calm'
    BY <1>1, <1>2, <1>3, <1>4, <1>10, <1>11, <1>12, CalmGoesOn
  <1>14. queue' # << >> => Undone'
    BY <1>3, <1>4, UndoneStays
  <1>15. QED
    BY <1>9, <1>13, <1>14 DEF IInv

LEMMA AfterBondClaimedKeeps ==
    ASSUME IInv, AfterBondClaimed
    PROVE  IInv'
  <1>1. PICK m : m = Head(queue)
    OBVIOUS
  <1>2. PICK lp : lp = m.lp
    OBVIOUS
  <1>3. PICK d : d = deposits[lp]
    OBVIOUS
  <1>4. PICK net : net = Claimed(m)
    OBVIOUS
  <1>5. /\ queue # << >> /\ m.type = "AfterBondClaimed"
        /\ d.amount > 0
        /\ \A t \in Tokens : m.prev[t] <= held[t]
        /\ Creditable(pools[lp], d, net)
        /\ pools' = [pools EXCEPT ![lp] =
                        [Synced(pools[lp], Credit(pools[lp], d, net), d)
                            EXCEPT !.last_reconcile = height]]
        /\ rewards' = Book(rewards, d, net)
        /\ queue' = Tail(queue)
        /\ queue' # << >> => undo' = undo
        /\ UNCHANGED <<users, boost_fee, staker_rate, height, held, deposits, emitted>>
    BY <1>1, <1>2, <1>3, <1>4 DEF AfterBondClaimed, Executes, Proceed
  <1>6. /\ Calm /\ Undone /\ m \in Message /\ lp \in LpTokens
        /\ queue \in Seq(Message)
    <2>1. Head(queue).type \in ClaimTypes
      BY <1>1, <1>5 DEF ClaimTypes
    <2>2. Calm /\ Undone /\ m \in Message
      BY <1>1, <1>5, <2>1, StageOf
    <2>3. QED
      BY <1>2, <2>2 DEF Message, IInv, Sound
  <1>7. /\ Accounts(pools, users, rewards) /\ pools[lp] \in PoolInfo /\ d \in Deposits
        /\ held \in Indexes /\ height \in Nat
        /\ boost_fee \in 0 .. SCALE /\ staker_rate \in 0 .. SCALE
    BY <1>3, <1>6 DEF IInv, Sound, Accounts
  <1>8. net \in Indexes
    <2>1. m.prev \in Indexes
      BY <1>6 DEF Message
    <2>2. \A t \in Tokens : held[t] \in Nat /\ m.prev[t] \in Nat
      BY <1>7, <2>1 DEF Indexes
    <2>3. net = [t \in Tokens |-> held[t] - m.prev[t]]
      BY <1>4 DEF Claimed
    <2>4. \A t \in Tokens : held[t] - m.prev[t] \in Nat
      BY <1>5, <2>2
    <2>5. QED
      BY <2>3, <2>4 DEF Indexes
  <1>9. [Synced(pools[lp], Credit(pools[lp], d, net), d) EXCEPT !.last_reconcile = height] =
          [pools[lp] EXCEPT !.reward_indexes = Credit(pools[lp], d, net),
                            !.prev_reward_user_index = d.reward_user_index,
                            !.prev_reward_debt_proxy = d.reward_debt_proxy,
                            !.last_reconcile = height]
    BY <1>7 DEF Synced, PoolInfo
  <1>10. d.reward_user_index \in Nat /\ d.reward_debt_proxy \in [ProxyTokens -> Nat]
    BY <1>7 DEF Deposits
  <1>11. Accounts(pools', users, rewards')
    <2>1. PICK n : n = pools'
      OBVIOUS
    <2>2. n = [pools EXCEPT ![lp] =
                 [pools[lp] EXCEPT !.reward_indexes = Credit(pools[lp], d, net),
                                   !.prev_reward_user_index = d.reward_user_index,
                                   !.prev_reward_debt_proxy = d.reward_debt_proxy,
                                   !.last_reconcile = height]]
      BY <1>5, <1>9, <2>1
    <2>3. Accounts(n, users, Book(rewards, d, net))
      BY <1>5, <1>6, <1>7, <1>8, <1>10, <2>2, CreditKeeps
    <2>4. QED
      BY <1>5, <2>1, <2>3
  <1>12. Sound'
    <2>1. Tail(queue) \in Seq(Message)
      BY <1>5, <1>6, TailOf
    <2>2. Accounts(pools', users', rewards')
      BY <1>5, <1>11
    <2>3. QED
      BY <1>5, <2>1, <2>2 DEF IInv, Sound
  <1>13. /\ pools'[lp].prev_reward_user_index = d.reward_user_index
         /\ pools'[lp].last_reconcile = height
         /\ \A l \in LpTokens \ {lp} : pools'[l] = pools[l]
    <2>1. pools \in [LpTokens -> PoolInfo]
      BY <1>7 DEF Accounts
    <2>2. pools'[lp] = [pools[lp] EXCEPT !.reward_indexes = Credit(pools[lp], d, net),
                            !.prev_reward_user_index = d.reward_user_index,
                            !.prev_reward_debt_proxy = d.reward_debt_proxy,
                            !.last_reconcile = height]
      BY <1>5, <1>6, <1>9, <2>1
    <2>3. \A l \in LpTokens \ {lp} : pools'[l] = pools[l]
      BY <1>5, <2>1
    <2>4. QED
      BY <1>7, <2>2, <2>3 DEF PoolInfo
  <1>14. Current(deposits', emitted', lp)
    <2>1. Current(deposits, emitted, lp)
      BY <1>1, <1>2, <1>5, <1>6 DEF Calm, Executes
    <2>2. QED
      BY <1>5, <2>1
  <1>15. ASSUME NEW l \in LpTokens
         PROVE  Rested(pools', deposits', emitted', height', l)
    <2>1. Rested(pools, deposits, emitted, height, l)
      BY <1>6 DEF Calm
    <2>2. CASE l # lp
      BY <1>5, <1>13, <2>1, <2>2 DEF Rested
    <2>3. CASE l = lp
      BY <1>3, <1>5, <1>7, <1>13, <1>14, <2>3 DEF Rested
    <2>4. QED
      BY <2>2, <2>3
  <1>16. /\ \A l \in LpTokens : deposits'[l].amount = deposits[l].amount
         /\ m.type # "GeneratorClaim"
         /\ Ready(pools', deposits', emitted', m.lp)
    BY <1>2, <1>3, <1>5, <1>13, <1>14 DEF Ready
  <1>17. Calm'
    BY <1>1, <1>5, <1>6, <1>15, <1>16, CalmGoesOn
  <1>18. queue' # << >> => Undone'
    BY <1>5, <1>6, UndoneStays
  <1>19. QED
    BY <1>12, <1>17, <1>18 DEF IInv

LEMMA CallbackClaimRewardsKeeps ==
    ASSUME IInv, CallbackClaimRewards
    PROVE  IInv'
  <1>1. PICK m : m = Head(queue)
    OBVIOUS
  <1>2. PICK lp : lp = m.lp
    OBVIOUS
  <1>3. PICK q : q = <<lp, m.user>>
    OBVIOUS
  <1>4. PICK amount : amount = Earned(pools[lp], users[q])
    OBVIOUS
  <1>5. /\ queue # << >> /\ m.type = "ClaimRewards" /\ users[q].exists
        /\ \A t \in Tokens : amount[t] <= rewards[t].reconciled_amount /\ amount[t] <= held[t]
        /\ rewards' = [t \in Tokens |->
                          [rewards[t] EXCEPT !.reconciled_amount = @ - amount[t]]]
        /\ users' = [users EXCEPT ![q] = AfterClaim(users[q], pools[lp])]
        /\ held' = [t \in Tokens |-> held[t] - amount[t]]
        /\ queue' = Tail(queue)
        /\ queue' # << >> => undo' = undo
        /\ UNCHANGED <<pools, boost_fee, staker_rate, height, deposits, emitted>>
    BY <1>1, <1>2, <1>3, <1>4 DEF CallbackClaimRewards, Executes, Proceed
  <1>6. /\ Calm /\ Undone /\ m \in Message /\ lp \in LpTokens /\ m.user \in Users
        /\ queue \in Seq(Message)
    <2>1. Head(queue).type \in ClaimTypes
      BY <1>1, <1>5 DEF ClaimTypes
    <2>2. Calm /\ Undone /\ m \in Message /\ m = queue[1]
      BY <1>1, <1>5, <2>1, StageOf
    <2>3. queue \in Seq(Message) /\ lp \in LpTokens
      BY <1>2, <2>2 DEF Message, IInv, Sound
    <2>4. Len(queue) \in Nat \ {0}
      BY <1>5, <2>3, TailOf
    <2>5. m.user \in Users
      BY <1>5, <2>2, <2>4 DEF Calm, Proper
    <2>6. QED
      BY <2>2, <2>3, <2>5
  <1>7. /\ Accounts(pools, users, rewards) /\ pools \in [LpTokens -> PoolInfo]
        /\ users \in [LpTokens \X Users -> UserInfo] /\ rewards \in [Tokens -> RewardInfo]
        /\ Known(pools, users) /\ held \in Indexes
    BY DEF IInv, Sound, Accounts
  <1>8. q \in LpTokens \X Users /\ q[1] = lp
    BY <1>3, <1>6
  <1>9. \A t \in Tokens : /\ amount[t] \in Nat
                          /\ SCALE * amount[t] <= Claim(pools, users, q, t)
                          /\ Claim(pools, users, q, t) \in Nat
    BY <1>4, <1>7, <1>8, EarnedIsClaimed
  <1>10. /\ pools[lp] \in PoolInfo /\ users[q] \in UserInfo
         /\ pools[lp].reward_indexes \in Indexes
    BY <1>6, <1>7, <1>8 DEF PoolInfo
  <1>11. PICK new : new = AfterClaim(users[q], pools[lp])
    OBVIOUS
  <1>12. /\ new \in UserInfo /\ new.exists
         /\ new.reward_indexes = pools[lp].reward_indexes
         /\ new.bond_share = users[q].bond_share
         /\ \A t \in Tokens : new.pending_rewards[t] = 0
    <2>1. NoTokens \in Indexes /\ \A t \in Tokens : NoTokens[t] = 0
      BY DEF NoTokens, Indexes
    <2>2. /\ new.pending_rewards = NoTokens /\ new.reward_indexes = pools[lp].reward_indexes
          /\ new.bond_share = users[q].bond_share /\ new.exists = users[q].exists
          /\ new \in UserInfo
      BY <1>10, <1>11, <2>1 DEF AfterClaim, UserInfo
    <2>3. QED
      BY <1>5, <2>1, <2>2
  <1>13. \A t \in Tokens : /\ rewards[t] \in RewardInfo /\ held[t] \in Nat
                           /\ rewards[t].reconciled_amount \in Nat
    BY <1>7 DEF RewardInfo, Indexes
  <1>14. PICK w : w = rewards'
    OBVIOUS
  <1>15. ASSUME NEW t \in Tokens
         PROVE  /\ w[t] \in RewardInfo
                /\ w[t].fee = rewards[t].fee /\ w[t].staker_income = rewards[t].staker_income
                /\ w[t].reconciled_amount = rewards[t].reconciled_amount - amount[t]
    <2>1. w[t] = [rewards[t] EXCEPT !.reconciled_amount = @ - amount[t]]
      BY <1>5, <1>14
    <2>2. rewards[t].reconciled_amount - amount[t] \in Nat
      BY <1>5, <1>9, <1>13
    <2>3. QED
      BY <1>13, <2>1, <2>2 DEF RewardInfo
  <1>16. w \in [Tokens -> RewardInfo]
    <2>1. w = [t \in Tokens |-> [rewards[t] EXCEPT !.reconciled_amount = @ - amount[t]]]
      BY <1>5, <1>14
    <2>2. w = [t \in Tokens |-> w[t]]
      BY <2>1
    <2>3. QED
      BY <1>15, <2>2
  <1>17. ASSUME NEW t \in Tokens
         PROVE  SCALE * new.pending_rewards[t] + SCALE * rewards[t].reconciled_amount
                    <= Claim(pools, users, q, t) + SCALE * w[t].reconciled_amount
    <2> DEFINE a == amount[t]
               o == rewards[t].reconciled_amount
               c == Claim(pools, users, q, t)
    <2>1. a \in Nat /\ o \in Nat /\ c \in Nat /\ a <= o /\ SCALE * a <= c /\ SCALE \in Nat
      BY <1>5, <1>9, <1>13, DecimalAssumption
    <2>2. w[t].reconciled_amount = o - a /\ new.pending_rewards[t] = 0
      BY <1>12, <1>15
    <2> HIDE DEF a, o, c
    <2>3. SCALE * 0 + SCALE * o <= c + SCALE * (o - a)
      <3>1. SCALE * (o - a) = SCALE * o - SCALE * a /\ SCALE * 0 = 0
            /\ SCALE * o \in Nat /\ SCALE * a \in Nat
        BY <2>1
      <3>2. QED
        BY <2>1, <3>1
    <2>4. QED
      BY <2>2, <2>3 DEF o, c
  <1>18. Accounts(pools', users', rewards')
    <2>1. PICK x : x = pools[lp]
      OBVIOUS
    <2>2. /\ x \in PoolInfo /\ x.reward_indexes = pools[lp].reward_indexes
          /\ x.total_bond_share = pools[lp].total_bond_share - users[q].bond_share
                                    + new.bond_share
      <3>1. pools[lp].total_bond_share \in Nat /\ users[q].bond_share \in Nat
        BY <1>10 DEF PoolInfo, UserInfo
      <3>2. QED
        BY <1>10, <1>12, <2>1, <3>1
    <2>3. PICK k : k = users'
      OBVIOUS
    <2>4. k = [users EXCEPT ![q] = new]
      BY <1>5, <1>11, <2>3
    <2>5. PICK n : n = pools
      OBVIOUS
    <2>6. n = [pools EXCEPT ![lp] = x]
      BY <1>7, <2>1, <2>5
    <2>7. \A t \in Tokens :
            /\ w[t].fee = rewards[t].fee /\ w[t].staker_income = rewards[t].staker_income
            /\ SCALE * new.pending_rewards[t] + SCALE * rewards[t].reconciled_amount
                    <= Claim(pools, users, q, t) + SCALE * w[t].reconciled_amount
      BY <1>15, <1>17
    <2>8. Accounts(n, k, w)
      <3>1. PICK u \in Users : q = <<lp, u>>
        BY <1>3, <1>6
      <3>2. Changes(pools, users, rewards, lp, u, new, x, w)
        BY <1>12, <1>16, <2>2, <2>7, <3>1 DEF Changes
      <3>3. Accounts([pools EXCEPT ![lp] = x], [users EXCEPT ![<<lp, u>>] = new], w)
        BY <1>6, <1>7, <3>2, UserChanges
      <3>4. QED
        BY <2>4, <2>6, <3>1, <3>3
    <2>9. QED
      BY <1>5, <1>14, <2>3, <2>5, <2>8
  <1>19. held' \in Indexes
    <2>1. \A t \in Tokens : held[t] - amount[t] \in Nat
      BY <1>5, <1>9, <1>13
    <2>2. QED
      BY <1>5, <2>1 DEF Indexes
  <1>20. Sound'
    <2>1. Tail(queue) \in Seq(Message)
      BY <1>5, <1>6, TailOf
    <2>2. QED
      BY <1>5, <1>18, <1>19, <2>1 DEF IInv, Sound
  <1>21. \A l \in LpTokens : Rested(pools', deposits', emitted', height', l)
    BY <1>5, <1>6 DEF Calm
  <1>22. Calm'
    <2>1. /\ m.type # "GeneratorClaim" /\ m.type # "AfterBondClaimed"
          /\ \A l \in LpTokens : deposits'[l].amount = deposits[l].amount
      BY <1>5
    <2>2. QED
      BY <1>1, <1>5, <1>6, <1>21, <2>1, CalmGoesOn
  <1>23. queue' # << >> => Undone'
    BY <1>5, <1>6, UndoneStays
  <1>24. QED
    BY <1>20, <1>22, <1>23 DEF IInv

\* A record whose share is that of the user u, which is level with the pool,
\* and in which no more is pending than the user could claim.
Level(new, p, k, lp, u) ==
    /\ new \in UserInfo /\ new.exists = TRUE
    /\ new.bond_share = k[<<lp, u>>].bond_share
    /\ new.reward_indexes = p[lp].reward_indexes
    /\ \A t \in Tokens : /\ new.pending_rewards[t] \in Nat
                         /\ SCALE * new.pending_rewards[t] <= Claim(p, k, <<lp, u>>, t)

\* (reconcile_to_user_info) So is the record of a user who was reconciled.
LEMMA ReconciledUser ==
    ASSUME NEW p \in [LpTokens -> PoolInfo], NEW k \in [LpTokens \X Users -> UserInfo],
           Known(p, k), NEW lp \in LpTokens, NEW u \in Users
    PROVE  Level(ReconcileToUserInfo(p[lp], UserOf(p[lp], k[<<lp, u>>])), p, k, lp, u)
  <1>0. PICK new : new = ReconcileToUserInfo(p[lp], UserOf(p[lp], k[<<lp, u>>]))
    OBVIOUS
  <1>1. PICK q \in LpTokens \X Users : q = <<lp, u>> /\ q[1] = lp
    <2>1. <<lp, u>> \in LpTokens \X Users /\ <<lp, u>>[1] = lp
      OBVIOUS
    <2>2. QED
      BY <2>1
  <1>2. k[q] \in UserInfo /\ p[lp] \in PoolInfo
    BY <1>1
  <1>3. p[lp].reward_indexes \in Indexes /\ \A t \in Tokens : p[lp].reward_indexes[t] \in Nat
    BY <1>2 DEF PoolInfo, Indexes
  <1>4. CASE k[q].exists
    <2>1. new = ReconcileToUserInfo(p[lp], k[q])
      BY <1>0, <1>1, <1>4 DEF UserOf
    <2>2. \A t \in Tokens : /\ Earned(p[lp], k[q])[t] \in Nat
                            /\ SCALE * Earned(p[lp], k[q])[t] <= Claim(p, k, q, t)
      BY <1>1, EarnedIsClaimed
    <2> DEFINE e == Earned(p[lp], k[q])
    <2>3. e = [t \in Tokens |-> e[t]]
      BY DEF Earned
    <2>4. e \in Indexes
      <3> HIDE DEF e
      <3>1. \A t \in Tokens : e[t] \in Nat
        BY <2>2 DEF e
      <3>2. QED
        BY <2>3, <3>1 DEF Indexes
    <2>5. new = [k[q] EXCEPT !.pending_rewards = e, !.reward_indexes = p[lp].reward_indexes]
      BY <2>1 DEF ReconcileToUserInfo
    <2> HIDE DEF e
    <2>6. /\ new \in UserInfo /\ new.exists = k[q].exists /\ new.bond_share = k[q].bond_share
          /\ new.reward_indexes = p[lp].reward_indexes /\ new.pending_rewards = e
      BY <1>2, <1>3, <2>4, <2>5 DEF UserInfo
    <2>7. QED
      BY <1>0, <1>1, <1>4, <2>2, <2>6 DEF e, Level
  <1>5. CASE ~k[q].exists
    <2>1. k[q] = NoUser
      BY <1>5 DEF Known
    <2>2. PICK old : old = UserOf(p[lp], k[q])
      OBVIOUS
    <2>3. old = [NoUser EXCEPT !.exists = TRUE, !.reward_indexes = p[lp].reward_indexes]
      BY <1>5, <2>2 DEF UserOf
    <2>4. /\ old.exists = TRUE /\ old.bond_share = 0 /\ k[q].bond_share = 0
          /\ old.reward_indexes = p[lp].reward_indexes
          /\ old.pending_rewards = NoTokens /\ k[q].pending_rewards = NoTokens
          /\ k[q].reward_indexes = NoTokens
          /\ old \in UserInfo
      <3>1. NoTokens \in Indexes
        BY DEF NoTokens, Indexes
      <3>2. k[q] = [exists |-> FALSE, bond_share |-> 0, reward_indexes |-> NoTokens,
                    pending_rewards |-> NoTokens]
        BY <2>1 DEF NoUser
      <3>3. old = [exists |-> TRUE, bond_share |-> 0,
                   reward_indexes |-> p[lp].reward_indexes, pending_rewards |-> NoTokens]
        BY <2>3 DEF NoUser
      <3>4. QED
        BY <1>3, <3>1, <3>2, <3>3 DEF UserInfo
    <2> DEFINE e == Earned(p[lp], old)
    <2>5. ASSUME NEW t \in Tokens PROVE e[t] = 0
      <3> DEFINE i == p[lp].reward_indexes[t]
      <3>1. i \in Nat
        BY <1>3
      <3>2. e[t] = 0 + TimesDecimal(0, i - i)
        BY <2>4 DEF Earned, NoTokens
      <3> HIDE DEF i, e
      <3>3. TimesDecimal(0, i - i) = 0
        <4>1. i - i \in Nat /\ 0 * (i - i) = 0
          BY <3>1
        <4>2. 0 \div SCALE = 0
          BY DecimalAssumption
        <4>3. QED
          BY <4>1, <4>2 DEF TimesDecimal
      <3>4. QED
        BY <3>2, <3>3
    <2>6. e = [t \in Tokens |-> e[t]]
      BY DEF Earned
    <2>7. new = [old EXCEPT !.pending_rewards = e, !.reward_indexes = p[lp].reward_indexes]
      BY <1>0, <1>1, <2>2 DEF ReconcileToUserInfo
    <2> HIDE DEF e
    <2>8. e \in Indexes
      BY <2>5, <2>6 DEF Indexes
    <2>9. /\ new \in UserInfo /\ new.exists = TRUE /\ new.bond_share = k[q].bond_share
          /\ new.reward_indexes = p[lp].reward_indexes /\ new.pending_rewards = e
      BY <1>3, <2>4, <2>7, <2>8 DEF UserInfo
    <2>10. ASSUME NEW t \in Tokens PROVE SCALE * 0 <= Claim(p, k, q, t)
      <3>1. Claim(p, k, q, t) \in Nat
        BY EarnedIsClaimed
      <3>2. SCALE * 0 = 0
        BY DecimalAssumption
      <3>3. QED
        BY <3>1, <3>2
    <2>11. QED
      BY <1>0, <1>1, <2>5, <2>9, <2>10 DEF Level
  <1>6. QED
    BY <1>4, <1>5

\* A user's share changes, and nothing is paid.
LEMMA ShareChanges ==
    ASSUME NEW p, NEW k, NEW r, Accounts(p, k, r), NEW lp \in LpTokens, NEW u \in Users,
           NEW old, old = ReconcileToUserInfo(p[lp], UserOf(p[lp], k[<<lp, u>>])),
           NEW bonded \in Nat, NEW total \in Nat,
           total = p[lp].total_bond_share - k[<<lp, u>>].bond_share + bonded,
           NEW exists \in BOOLEAN
    PROVE  Accounts([p EXCEPT ![lp].exists = exists, ![lp].total_bond_share = total],
                    [k EXCEPT ![<<lp, u>>] = [old EXCEPT !.bond_share = bonded]], r)
  <1>1. /\ p \in [LpTokens -> PoolInfo] /\ k \in [LpTokens \X Users -> UserInfo]
        /\ r \in [Tokens -> RewardInfo] /\ Known(p, k)
    BY DEF Accounts
  <1>2. p[lp] \in PoolInfo
    BY <1>1
  <1>3. /\ old \in UserInfo /\ old.exists = TRUE /\ old.reward_indexes = p[lp].reward_indexes
        /\ \A t \in Tokens :
              /\ old.pending_rewards[t] \in Nat
              /\ SCALE * old.pending_rewards[t] <= Claim(p, k, <<lp, u>>, t)
    BY <1>1, ReconciledUser DEF Level
  <1>4. PICK new : new = [old EXCEPT !.bond_share = bonded]
    OBVIOUS
  <1>5. /\ new \in UserInfo /\ new.exists = TRUE /\ new.reward_indexes = p[lp].reward_indexes
        /\ new.bond_share = bonded /\ new.pending_rewards = old.pending_rewards
    BY <1>3, <1>4 DEF UserInfo
  <1>6. PICK x : x = [p[lp] EXCEPT !.exists = exists, !.total_bond_share = total]
    OBVIOUS
  <1>7. /\ x \in PoolInfo /\ x.reward_indexes = p[lp].reward_indexes
        /\ x.total_bond_share = total
    BY <1>2, <1>6 DEF PoolInfo
  <1>8. ASSUME NEW t \in Tokens
        PROVE  /\ r[t].fee = r[t].fee /\ r[t].staker_income = r[t].staker_income
               /\ SCALE * new.pending_rewards[t] + SCALE * r[t].reconciled_amount
                     <= Claim(p, k, <<lp, u>>, t) + SCALE * r[t].reconciled_amount
    <2> DEFINE c == Claim(p, k, <<lp, u>>, t)
               y == SCALE * r[t].reconciled_amount
               z == SCALE * old.pending_rewards[t]
    <2>1. c \in Nat
      BY <1>1, EarnedIsClaimed
    <2>2. y \in Nat /\ z \in Nat
      <3>1. r[t].reconciled_amount \in Nat
        BY <1>1 DEF RewardInfo
      <3>2. QED
        BY <1>3, <3>1, DecimalAssumption
    <2>3. z <= c
      BY <1>3
    <2>4. SCALE * new.pending_rewards[t] = z
      BY <1>5
    <2> HIDE DEF c, y, z
    <2>5. z + y <= c + y
      BY <2>1, <2>2, <2>3
    <2>6. QED
      BY <2>4, <2>5 DEF c, y
  <1>9. Changes(p, k, r, lp, u, new, x, r)
    BY <1>1, <1>5, <1>7, <1>8 DEF Changes
  <1>10. Accounts([p EXCEPT ![lp] = x], [k EXCEPT ![<<lp, u>>] = new], r)
    BY <1>9, UserChanges
  <1>11. [p EXCEPT ![lp].exists = exists, ![lp].total_bond_share = total] = [p EXCEPT ![lp] = x]
    <2>1. PICK n : n = [p EXCEPT ![lp].exists = exists, ![lp].total_bond_share = total]
      OBVIOUS
    <2>2. n[lp] = x /\ DOMAIN n = LpTokens /\ \A l \in LpTokens \ {lp} : n[l] = p[l]
      BY <1>1, <1>2, <1>6, <2>1 DEF PoolInfo
    <2>3. n = [l \in LpTokens |-> n[l]]
      BY <1>1, <2>1
    <2>4. n = [p EXCEPT ![lp] = x]
      BY <1>1, <2>2, <2>3
    <2>5. QED
      BY <2>1, <2>4
  <1>12. QED
    BY <1>4, <1>10, <1>11

\* (calc_bond_share) The shares of a deposit are a number, and to withdraw
\* all of it takes all of the shares.
LEMMA SharesOf ==
    ASSUME NEW pool \in PoolInfo, NEW lp \in Nat, NEW amount \in Nat
    PROVE  /\ MintShare(pool, lp, amount) \in Nat
           /\ BurnShare(pool, lp, amount) \in Nat
           /\ amount > 0 /\ amount = lp /\ BurnShare(pool, lp, amount) <= pool.total_bond_share
                => BurnShare(pool, lp, amount) = pool.total_bond_share
  <1> DEFINE b == pool.total_bond_share
  <1>1. b \in Nat
    BY DEF PoolInfo
  <1>2. CASE b = 0 \/ lp = 0
    <2>1. MintShare(pool, lp, amount) = amount /\ BurnShare(pool, lp, amount) = amount
      BY <1>2 DEF MintShare, BurnShare
    <2>2. QED
      BY <1>1, <1>2, <2>1
  <1>3. CASE b # 0 /\ lp # 0
    <2>1. /\ MintShare(pool, lp, amount) = MulRatio(amount, b, lp)
          /\ BurnShare(pool, lp, amount) = MulRatioCeil(amount, b, lp)
      BY <1>3 DEF MintShare, BurnShare
    <2>2. lp \in Nat \ {0}
      BY <1>3
    <2>3. MulRatio(amount, b, lp) \in Nat /\ MulRatioCeil(amount, b, lp) \in Nat
      BY <1>1, <2>2, MulRatioBounds, MulRatioCeilBounds
    <2>4. ASSUME amount = lp PROVE b <= MulRatioCeil(amount, b, lp)
      <3>1. amount * b <= lp * MulRatioCeil(amount, b, lp)
        BY <1>1, <2>2, MulRatioCeilBounds
      <3> DEFINE c == MulRatioCeil(amount, b, lp)
      <3>2. c \in Nat /\ lp * b <= lp * c
        BY <2>3, <2>4, <3>1
      <3> HIDE DEF b, c
      <3>3. b * lp <= c * lp
        BY <1>1, <3>2
      <3>4. QED
        BY <1>1, <2>2, <3>2, <3>3, TimesCancel DEF c
    <2>5. QED
      BY <1>1, <2>1, <2>3, <2>4
  <1>4. QED
    BY <1>1, <1>2, <1>3

\* The two messages that follow a change of shares.
ChangeMessages(type, m) ==
    <<Call(type, m.lp, m.user, m.amount), Call("AfterBondChanged", m.lp, NoOne, 0)>>

LEMMA ChangeMessagesAre ==
    ASSUME NEW m \in Message, NEW type, type = "GeneratorDeposit" \/ type = "GeneratorWithdraw", NEW q,
           q = ChangeMessages(type, m)
    PROVE  /\ q \in Seq(Message) /\ Len(q) = 2 /\ q \o << >> = q
           /\ q[1].type = type /\ q[1].lp = m.lp /\ q[1].amount = m.amount
           /\ q[2].type = "AfterBondChanged" /\ q[2].lp = m.lp
  <1>1. PICK a, b : a = Call(type, m.lp, m.user, m.amount)
                     /\ b = Call("AfterBondChanged", m.lp, NoOne, 0)
    OBVIOUS
  <1>2. /\ NoMessage.lp \in LpTokens /\ NoTokens \in Indexes
    BY BondAssumption DEF NoMessage, NoTokens, Indexes
  <1>3. /\ m.lp \in LpTokens /\ m.user \in Users \cup {NoOne} /\ m.amount \in Nat
    BY DEF Message
  <1>4. a = [type |-> type, lp |-> m.lp, user |-> m.user, amount |-> m.amount, prev |-> NoTokens]
    BY <1>1 DEF Call, NoMessage
  <1>5. b = [type |-> "AfterBondChanged", lp |-> m.lp, user |-> NoOne, amount |-> 0,
             prev |-> NoTokens]
    BY <1>1 DEF Call, NoMessage
  <1>6. a \in Message /\ b \in Message
    BY <1>2, <1>3, <1>4, <1>5 DEF Message, Messages
  <1>7. q = <<a, b>>
    BY <1>1 DEF ChangeMessages
  <1>8. q \in Seq(Message) /\ Len(q) = 2 /\ q[1] = a /\ q[2] = b
    BY <1>6, <1>7
  <1>9. q \o << >> = q
    BY <1>8
  <1>10. QED
    BY <1>4, <1>5, <1>8, <1>9

\* The shares of the next message's pool have changed as it says.
LEMMA ChangeBegins ==
    ASSUME IInv, queue # << >>, NEW m, m = Head(queue), m.type \in ChangeTypes,
           NEW type, type = "GeneratorDeposit" \/ type = "GeneratorWithdraw",
           queue' = ChangeMessages(type, m) \o Tail(queue), undo' = undo,
           UNCHANGED <<rewards, boost_fee, staker_rate, height, held, deposits, emitted>>,
           Accounts(pools', users', rewards),
           \A l \in LpTokens \ {m.lp} : pools'[l] = pools[l],
           pools'[m.lp].last_reconcile = pools[m.lp].last_reconcile,
           type = "GeneratorDeposit" => m.amount > 0,
           type = "GeneratorWithdraw" /\ m.amount = deposits[m.lp].amount
              => pools'[m.lp].total_bond_share = 0,
           type = "GeneratorWithdraw" => deposits[m.lp].amount > 0
    PROVE  IInv'
  <1>1. Calm /\ Undone /\ m \in Message /\ queue \in Seq(Message) /\ Listed(queue)
    <2>1. Calm /\ Undone /\ m \in Message
      BY StageOf
    <2>2. QED
      BY <2>1 DEF Calm, Listed, IInv, Sound
  <1>2. Tail(queue) = << >>
    BY <1>1, ChangeIsLast
  <1>3. PICK q : q = ChangeMessages(type, m)
    OBVIOUS
  <1>4. /\ q \in Seq(Message) /\ Len(q) = 2 /\ q \o << >> = q
        /\ q[1].type = type /\ q[1].lp = m.lp /\ q[1].amount = m.amount
        /\ q[2].type = "AfterBondChanged" /\ q[2].lp = m.lp
    <2>1. m \in Message
      BY <1>1
    <2>2. QED
      BY <1>3, <2>1, ChangeMessagesAre
  <1>5. queue' = q
    BY <1>2, <1>3, <1>4
  <1>6. Sound'
    BY <1>4, <1>5 DEF IInv, Sound
  <1>7. m.lp \in LpTokens
    BY <1>1 DEF Message
  <1>8. \A l \in LpTokens : Rested(pools, deposits, emitted, height, l)
    BY <1>1 DEF Calm
  <1>9. \A l \in LpTokens \ {m.lp} : Rested(pools', deposits', emitted', height', l)
    BY <1>8 DEF Rested
  <1>10. pools'[m.lp].last_reconcile <= height
    BY <1>7, <1>8 DEF Rested
  <1>11. Changing'
    BY <1>4, <1>5, <1>9, <1>10 DEF Changing
  <1>12. Undone'
    BY <1>1, UndoneStays
  <1>13. QED
    BY <1>6, <1>11, <1>12 DEF IInv

LEMMA CallbackDepositKeeps ==
    ASSUME IInv, CallbackDeposit
    PROVE  IInv'
  <1>1. PICK m : m = Head(queue)
    OBVIOUS
  <1>2. PICK lp, u : lp = m.lp /\ u = m.user
    OBVIOUS
  <1>3. PICK user : user = ReconcileToUserInfo(pools[lp], UserOf(pools[lp], users[<<lp, u>>]))
    OBVIOUS
  <1>4. PICK share : share = MintShare(pools[lp], deposits[lp].amount, m.amount)
    OBVIOUS
  <1>5. /\ queue # << >> /\ m.type = "Deposit"
        /\ users' = [users EXCEPT ![<<lp, u>>] =
                        [user EXCEPT !.bond_share = user.bond_share + share]]
        /\ pools' = [pools EXCEPT ![lp].exists = TRUE,
                                  ![lp].total_bond_share = pools[lp].total_bond_share + share]
        /\ queue' = ChangeMessages("GeneratorDeposit", m) \o Tail(queue)
        /\ undo' = IF queue' = << >> THEN NoState ELSE undo
        /\ UNCHANGED <<rewards, boost_fee, staker_rate, height, held, deposits, emitted>>
    BY <1>1, <1>2, <1>3, <1>4 DEF CallbackDeposit, Executes, Proceed, ChangeMessages
  <1>6. /\ Calm /\ m \in Message /\ queue \in Seq(Message) /\ Listed(queue)
        /\ m.type \in ChangeTypes
    <2>1. m.type \in ChangeTypes
      BY <1>5 DEF ChangeTypes
    <2>2. Calm /\ m \in Message
      BY <1>1, <1>5, <2>1, StageOf
    <2>3. QED
      BY <2>1, <2>2 DEF Calm, Listed, IInv, Sound
  <1>7. Tail(queue) = << >> /\ Proper(m)
    BY <1>1, <1>5, <1>6, ChangeIsLast
  <1>8. lp \in LpTokens /\ u \in Users /\ m.amount \in Nat /\ m.amount > 0
    BY <1>2, <1>5, <1>7 DEF Proper, Message, ChangeTypes
  <1>9. /\ Accounts(pools, users, rewards) /\ pools \in [LpTokens -> PoolInfo]
        /\ users \in [LpTokens \X Users -> UserInfo] /\ Known(pools, users)
        /\ deposits[lp] \in Deposits
    BY <1>8 DEF IInv, Sound, Accounts
  <1>10. pools[lp] \in PoolInfo /\ deposits[lp].amount \in Nat
    BY <1>8, <1>9 DEF Deposits
  <1>11. share \in Nat
    BY <1>4, <1>8, <1>10, SharesOf
  <1>12. user.bond_share = users[<<lp, u>>].bond_share /\ user.bond_share \in Nat
    <2>1. Level(user, pools, users, lp, u)
      BY <1>3, <1>8, <1>9, ReconciledUser
    <2>2. QED
      BY <2>1 DEF Level, UserInfo
  <1>13. PICK b, t : b = user.bond_share + share /\ t = pools[lp].total_bond_share + share
    OBVIOUS
  <1>14. /\ b \in Nat /\ t \in Nat
         /\ t = pools[lp].total_bond_share - users[<<lp, u>>].bond_share + b
    <2>1. pools[lp].total_bond_share \in Nat
      BY <1>10 DEF PoolInfo
    <2>2. QED
      BY <1>11, <1>12, <1>13, <2>1
  <1>15. Accounts(pools', users', rewards)
    <2>1. Accounts([pools EXCEPT ![lp].exists = TRUE, ![lp].total_bond_share = t],
                   [users EXCEPT ![<<lp, u>>] = [user EXCEPT !.bond_share = b]], rewards)
      BY <1>3, <1>8, <1>9, <1>14, ShareChanges
    <2>2. QED
      BY <1>5, <1>13, <2>1
  <1>16. /\ \A l \in LpTokens \ {lp} : pools'[l] = pools[l]
         /\ pools'[lp].last_reconcile = pools[lp].last_reconcile
    BY <1>5, <1>8, <1>9, <1>10 DEF PoolInfo
  <1>17. undo' = undo
    <2>1. PICK q : q = ChangeMessages("GeneratorDeposit", m)
      OBVIOUS
    <2>2. Len(q) = 2 /\ q \o << >> = q /\ q # << >>
      BY <1>6, <2>1, ChangeMessagesAre
    <2>3. QED
      BY <1>5, <1>7, <2>1, <2>2
  <1>18. QED
    BY <1>1, <1>2, <1>5, <1>6, <1>8, <1>15, <1>16, <1>17, ChangeBegins

LEMMA CallbackWithdrawKeeps ==
    ASSUME IInv, CallbackWithdraw
    PROVE  IInv'
  <1>1. PICK m : m = Head(queue)
    OBVIOUS
  <1>2. PICK lp, u : lp = m.lp /\ u = m.user
    OBVIOUS
  <1>3. PICK user : user = ReconcileToUserInfo(pools[lp], users[<<lp, u>>])
    OBVIOUS
  <1>4. PICK share : share = BurnShare(pools[lp], deposits[lp].amount, m.amount)
    OBVIOUS
  <1>5. /\ queue # << >> /\ m.type = "Withdraw"
        /\ pools[lp].exists /\ user.exists /\ Burnable(pools[lp], user, share)
        /\ users' = [users EXCEPT ![<<lp, u>>] =
                        [user EXCEPT !.bond_share = user.bond_share - share]]
        /\ pools' = [pools EXCEPT ![lp].total_bond_share = pools[lp].total_bond_share - share]
        /\ queue' = ChangeMessages("GeneratorWithdraw", m) \o Tail(queue)
        /\ undo' = IF queue' = << >> THEN NoState ELSE undo
        /\ UNCHANGED <<rewards, boost_fee, staker_rate, height, held, deposits, emitted>>
    BY <1>1, <1>2, <1>3, <1>4 DEF CallbackWithdraw, Executes, Proceed, ChangeMessages
  <1>6. /\ Calm /\ m \in Message /\ queue \in Seq(Message) /\ Listed(queue)
        /\ m.type \in ChangeTypes
    <2>1. m.type \in ChangeTypes
      BY <1>5 DEF ChangeTypes
    <2>2. Calm /\ m \in Message
      BY <1>1, <1>5, <2>1, StageOf
    <2>3. QED
      BY <2>1, <2>2 DEF Calm, Listed, IInv, Sound
  <1>7. Tail(queue) = << >> /\ Proper(m)
    BY <1>1, <1>5, <1>6, ChangeIsLast
  <1>8. lp \in LpTokens /\ u \in Users /\ m.amount \in Nat
    BY <1>2, <1>5, <1>7 DEF Proper, Message, ChangeTypes
  <1>9. /\ Accounts(pools, users, rewards) /\ pools \in [LpTokens -> PoolInfo]
        /\ users \in [LpTokens \X Users -> UserInfo] /\ Known(pools, users)
        /\ deposits[lp] \in Deposits
    BY <1>8 DEF IInv, Sound, Accounts
  <1>10. pools[lp] \in PoolInfo /\ deposits[lp].amount \in Nat /\ deposits[lp].amount > 0
    <2>1. pools[lp] \in PoolInfo /\ deposits[lp].amount \in Nat
      BY <1>8, <1>9 DEF Deposits
    <2>2. Len(queue) \in Nat \ {0} /\ m = queue[1]
      BY <1>1, <1>5, <1>6, TailOf
    <2>3. deposits[lp].amount > 0
      <3>1. \A i \in 1 .. Len(queue) :
                queue[i].type = "Withdraw" => deposits[queue[i].lp].amount > 0
        BY <1>6 DEF Calm
      <3>2. 1 \in 1 .. Len(queue)
        BY <2>2
      <3>3. QED
        BY <1>2, <1>5, <2>2, <3>1, <3>2
    <2>4. QED
      BY <2>1, <2>3
  <1>11. share \in Nat
    BY <1>4, <1>8, <1>10, SharesOf
  <1>12. user = ReconcileToUserInfo(pools[lp], UserOf(pools[lp], users[<<lp, u>>]))
    <2>1. users[<<lp, u>>].exists
      <3>1. users[<<lp, u>>] \in UserInfo
        BY <1>8, <1>9
      <3>2. user.exists = users[<<lp, u>>].exists
        BY <1>3, <3>1 DEF ReconcileToUserInfo, UserInfo
      <3>3. QED
        BY <1>5, <3>2
    <2>2. QED
      BY <1>3, <2>1 DEF UserOf
  <1>13. user.bond_share = users[<<lp, u>>].bond_share /\ user.bond_share \in Nat
    <2>1. Level(user, pools, users, lp, u)
      BY <1>8, <1>9, <1>12, ReconciledUser
    <2>2. QED
      BY <2>1 DEF Level, UserInfo
  <1>14. PICK b, t : b = user.bond_share - share /\ t = pools[lp].total_bond_share - share
    OBVIOUS
  <1>15. /\ b \in Nat /\ t \in Nat /\ share <= pools[lp].total_bond_share
         /\ t = pools[lp].total_bond_share - users[<<lp, u>>].bond_share + b
    <2>1. pools[lp].total_bond_share \in Nat
      BY <1>10 DEF PoolInfo
    <2>2. QED
      BY <1>5, <1>11, <1>13, <1>14, <2>1 DEF Burnable
  <1>16. pools' = [pools EXCEPT ![lp].exists = TRUE, ![lp].total_bond_share = t]
    <2>1. [pools[lp] EXCEPT !.total_bond_share = t] =
             [pools[lp] EXCEPT !.exists = TRUE, !.total_bond_share = t]
      BY <1>5, <1>10 DEF PoolInfo
    <2>2. PICK n : n = [pools EXCEPT ![lp].exists = TRUE, ![lp].total_bond_share = t]
      OBVIOUS
    <2>3. /\ n[lp] = [pools[lp] EXCEPT !.exists = TRUE, !.total_bond_share = t]
          /\ \A l \in LpTokens \ {lp} : n[l] = pools[l]
          /\ n = [l \in LpTokens |-> n[l]]
      BY <1>8, <1>9, <2>2
    <2>4. /\ pools'[lp] = [pools[lp] EXCEPT !.total_bond_share = t]
          /\ \A l \in LpTokens \ {lp} : pools'[l] = pools[l]
          /\ pools' = [l \in LpTokens |-> pools'[l]]
      BY <1>5, <1>8, <1>9, <1>14
    <2>5. \A l \in LpTokens : n[l] = pools'[l]
      BY <2>1, <2>3, <2>4
    <2>6. n = pools'
      BY <2>3, <2>4, <2>5
    <2>7. QED
      BY <2>2, <2>6
  <1>17. Accounts(pools', users', rewards)
    <2>1. Accounts([pools EXCEPT ![lp].exists = TRUE, ![lp].total_bond_share = t],
                   [users EXCEPT ![<<lp, u>>] = [user EXCEPT !.bond_share = b]], rewards)
      BY <1>8, <1>9, <1>12, <1>15, ShareChanges
    <2>2. QED
      BY <1>5, <1>14, <1>16, <2>1
  <1>18. /\ \A l \in LpTokens \ {lp} : pools'[l] = pools[l]
         /\ pools'[lp].last_reconcile = pools[lp].last_reconcile
         /\ pools'[lp].total_bond_share = t
    BY <1>5, <1>8, <1>9, <1>10, <1>14 DEF PoolInfo
  <1>19. m.amount = deposits[lp].amount => t = 0
    <2>1. ASSUME m.amount = deposits[lp].amount PROVE share = pools[lp].total_bond_share
      BY <1>4, <1>8, <1>10, <1>15, <2>1, SharesOf
    <2>2. pools[lp].total_bond_share \in Nat
      BY <1>10 DEF PoolInfo
    <2>3. QED
      BY <1>14, <2>1, <2>2
  <1>20. undo' = undo
    <2>1. PICK q : q = ChangeMessages("GeneratorWithdraw", m)
      OBVIOUS
    <2>2. Len(q) = 2 /\ q \o << >> = q /\ q # << >>
      BY <1>6, <2>1, ChangeMessagesAre
    <2>3. QED
      BY <1>5, <1>7, <2>1, <2>2
  <1>21. QED
    BY <1>1, <1>2, <1>5, <1>6, <1>10, <1>17, <1>18, <1>19, <1>20, ChangeBegins

\* The deposit of the pool whose shares changed has changed.
LEMMA DepositChanges ==
    ASSUME IInv, queue # << >>, NEW m, m = Head(queue),
           m.type = "GeneratorDeposit" \/ m.type = "GeneratorWithdraw",
           NEW amount \in Nat, Settle(m.lp, amount),
           m.type = "GeneratorDeposit" => amount > 0,
           m.type = "GeneratorWithdraw" /\ amount = 0 => m.amount = deposits[m.lp].amount,
           queue' = Tail(queue), queue' # << >> => undo' = undo,
           UNCHANGED <<pools, users, rewards, boost_fee, staker_rate, height, emitted>>
    PROVE  IInv'
  <1>1. Changing /\ Undone /\ m = queue[1] /\ m \in Message
    BY StageOf
  <1>2. PICK lp : lp = m.lp
    OBVIOUS
  <1>3. /\ lp \in LpTokens /\ queue \in Seq(Message)
        /\ held \in Indexes /\ emitted \in [LpTokens -> Indexes]
        /\ deposits \in [LpTokens -> Deposits]
        /\ \A l \in LpTokens : Recorded(deposits, emitted, l)
        /\ pools \in [LpTokens -> PoolInfo]
    BY <1>1, <1>2 DEF Message, IInv, Sound, Accounts
  <1>4. Settle(lp, amount)
    BY <1>2
  <1>5. /\ deposits' \in [LpTokens -> Deposits]
        /\ deposits'[lp].amount = amount
        /\ \A l \in LpTokens \ {lp} : deposits'[l] = deposits[l]
        /\ \A l \in LpTokens : Recorded(deposits', emitted, l)
        /\ Current(deposits', emitted, lp)
        /\ held' \in Indexes
    BY <1>3, <1>4, SettleLeaves
  <1>6. Len(queue) = 2 /\ queue[2].type = "AfterBondChanged" /\ queue[2].lp = lp
    BY <1>1, <1>2 DEF Changing
  <1>7. Tail(queue) \in Seq(Message) /\ Len(Tail(queue)) = 1 /\ Tail(queue)[1] = queue[2]
    <2>1. 1 \in 1 .. Len(queue) - 1
      BY <1>6
    <2>2. PICK t : t = Tail(queue)
      OBVIOUS
    <2>3. t[1] = queue[1 + 1]
      BY <1>3, <2>1, <2>2, TailOf
    <2>4. t \in Seq(Message) /\ Len(t) = Len(queue) - 1
      BY <1>3, <2>2, TailOf
    <2>5. t \in Seq(Message) /\ Len(t) = 1 /\ t[1] = queue[2]
      BY <1>6, <2>3, <2>4
    <2>6. QED
      BY <2>2, <2>5
  <1>8. Sound'
    BY <1>5, <1>7 DEF IInv, Sound
  <1>9. ASSUME NEW l \in LpTokens \ {lp}
        PROVE  Rested(pools', deposits', emitted', height', l)
    <2>1. Rested(pools, deposits, emitted, height, l)
      BY <1>1, <1>2, <1>9 DEF Changing
    <2>2. deposits'[l] = deposits[l]
      BY <1>5, <1>9
    <2>3. QED
      BY <2>1, <2>2 DEF Rested, Current
  <1>10. pools[lp].last_reconcile <= height
    BY <1>1, <1>2 DEF Changing
  <1>11. ASSUME pools[lp].total_bond_share > 0 PROVE deposits'[lp].amount > 0
    <2>1. pools[lp].total_bond_share # 0
      BY <1>11
    <2>2. ~(m.type = "GeneratorWithdraw" /\ m.amount = deposits[lp].amount)
      BY <1>1, <1>2, <2>1 DEF Changing
    <2>3. m.type = "GeneratorWithdraw" => amount # 0
      BY <1>2, <2>2
    <2>4. QED
      BY <1>5, <2>3
  <1>12. Changed'
    BY <1>5, <1>6, <1>7, <1>9, <1>10, <1>11 DEF Changed
  <1>13. queue' # << >> => Undone'
    BY <1>1, UndoneStays
  <1>14. QED
    BY <1>8, <1>12, <1>13 DEF IInv

LEMMA GeneratorDepositKeeps ==
    ASSUME IInv, GeneratorDeposit
    PROVE  IInv'
  <1>1. PICK m : m = Head(queue)
    OBVIOUS
  <1>2. PICK amount : amount = deposits[m.lp].amount + m.amount
    OBVIOUS
  <1>3. /\ queue # << >> /\ m.type = "GeneratorDeposit"
        /\ Settle(m.lp, amount)
        /\ queue' = Tail(queue)
        /\ queue' # << >> => undo' = undo
        /\ UNCHANGED <<pools, users, rewards, boost_fee, staker_rate, height, emitted>>
    BY <1>1, <1>2 DEF GeneratorDeposit, Executes, Proceed, bond
  <1>4. Changing /\ m = queue[1] /\ m \in Message
    BY <1>1, <1>3, StageOf
  <1>5. m.amount \in Nat /\ m.amount > 0
    BY <1>3, <1>4 DEF Changing, Message
  <1>6. deposits[m.lp].amount \in Nat
    BY <1>4 DEF IInv, Sound, Deposits, Message
  <1>7. amount \in Nat /\ amount > 0
    BY <1>2, <1>5, <1>6
  <1>8. QED
    BY <1>1, <1>3, <1>7, DepositChanges

LEMMA GeneratorWithdrawKeeps ==
    ASSUME IInv, GeneratorWithdraw
    PROVE  IInv'
  <1>1. PICK m : m = Head(queue)
    OBVIOUS
  <1>2. PICK amount : amount = deposits[m.lp].amount - m.amount
    OBVIOUS
  <1>3. /\ queue # << >> /\ m.type = "GeneratorWithdraw"
        /\ m.amount \in 1 .. deposits[m.lp].amount
        /\ Settle(m.lp, amount)
        /\ queue' = Tail(queue)
        /\ queue' # << >> => undo' = undo
        /\ UNCHANGED <<pools, users, rewards, boost_fee, staker_rate, height, emitted>>
    BY <1>1, <1>2 DEF GeneratorWithdraw, Executes, Proceed, bond
  <1>4. m \in Message
    BY <1>1, <1>3, StageOf
  <1>5. deposits[m.lp].amount \in Nat
    BY <1>4 DEF IInv, Sound, Deposits, Message
  <1>6. amount \in Nat /\ (amount = 0 => m.amount = deposits[m.lp].amount)
    BY <1>2, <1>3, <1>5
  <1>7. QED
    BY <1>1, <1>3, <1>6, DepositChanges

LEMMA AfterBondChangedKeeps ==
    ASSUME IInv, AfterBondChanged
    PROVE  IInv'
  <1>1. PICK m : m = Head(queue)
    OBVIOUS
  <1>2. PICK lp : lp = m.lp
    OBVIOUS
  <1>3. /\ queue # << >> /\ m.type = "AfterBondChanged"
        /\ IF deposits[lp].amount = 0 THEN UNCHANGED pools
           ELSE pools' = [pools EXCEPT ![lp] =
                            Synced(pools[lp], pools[lp].reward_indexes, deposits[lp])]
        /\ queue' = Tail(queue)
        /\ UNCHANGED <<users, rewards, boost_fee, staker_rate, height, held, deposits, emitted>>
    BY <1>1, <1>2 DEF AfterBondChanged, Executes, Proceed
  <1>4. Changed /\ m = queue[1] /\ m \in Message
    BY <1>1, <1>3, StageOf
  <1>5. /\ lp \in LpTokens /\ queue \in Seq(Message)
        /\ Accounts(pools, users, rewards) /\ pools \in [LpTokens -> PoolInfo]
        /\ deposits[lp] \in Deposits
    BY <1>2, <1>4 DEF Message, IInv, Sound, Accounts
  <1>6. queue' = << >> /\ Len(queue') = 0
    <2>1. Len(queue) = 1
      BY <1>4 DEF Changed
    <2>2. Tail(queue) = << >>
      BY <1>3, <1>5, <2>1, TailOf
    <2>3. QED
      BY <1>3, <2>2
  <1>7. pools[lp] \in PoolInfo
    BY <1>5
  <1>8. /\ pools' \in [LpTokens -> PoolInfo]
        /\ \A l \in LpTokens \ {lp} : pools'[l] = pools[l]
        /\ pools'[lp].reward_indexes = pools[lp].reward_indexes
        /\ pools'[lp].total_bond_share = pools[lp].total_bond_share
        /\ pools'[lp].last_reconcile = pools[lp].last_reconcile
        /\ deposits[lp].amount # 0 =>
              pools'[lp].prev_reward_user_index = deposits[lp].reward_user_index
    <2>1. CASE deposits[lp].amount = 0
      BY <1>3, <1>5, <2>1
    <2>2. CASE deposits[lp].amount # 0
      <3>1. PICK x : x = Synced(pools[lp], pools[lp].reward_indexes, deposits[lp])
        OBVIOUS
      <3>2. /\ x \in PoolInfo /\ x.reward_indexes = pools[lp].reward_indexes
            /\ x.total_bond_share = pools[lp].total_bond_share
            /\ x.last_reconcile = pools[lp].last_reconcile
            /\ x.prev_reward_user_index = deposits[lp].reward_user_index
        BY <1>5, <1>7, <3>1 DEF Synced, PoolInfo, Deposits
      <3>3. pools' = [pools EXCEPT ![lp] = x]
        BY <1>3, <2>2, <3>1
      <3>4. QED
        BY <1>5, <3>2, <3>3
    <2>3. QED
      BY <2>1, <2>2
  <1>9. Accounts(pools', users, rewards)
    <2>1. \A l \in LpTokens : /\ pools'[l].reward_indexes = pools[l].reward_indexes
                              /\ pools'[l].total_bond_share = pools[l].total_bond_share
      BY <1>8
    <2>2. QED
      BY <1>5, <1>8, <2>1, PoolsAlike
  <1>10. Sound'
    <2>1. Tail(queue) \in Seq(Message)
      BY <1>3, <1>5, TailOf
    <2>2. QED
      BY <1>3, <1>9, <2>1 DEF IInv, Sound
  <1>11. ASSUME NEW l \in LpTokens
         PROVE  Rested(pools', deposits', emitted', height', l)
    <2>1. CASE l # lp
      <3>1. Rested(pools, deposits, emitted, height, l)
        BY <1>2, <1>4, <2>1 DEF Changed
      <3>2. pools'[l] = pools[l]
        BY <1>8, <2>1
      <3>3. QED
        BY <1>3, <3>1, <3>2 DEF Rested
    <2>2. CASE l = lp
      <3>1. /\ pools[lp].last_reconcile <= height
            /\ pools[lp].total_bond_share > 0 => deposits[lp].amount > 0
            /\ Current(deposits, emitted, lp)
        BY <1>2, <1>4 DEF Changed
      <3>2. /\ deposits[lp].amount > 0 => deposits[lp].amount # 0
        BY <1>5 DEF Deposits
      <3>3. QED
        BY <1>3, <1>8, <2>2, <3>1, <3>2 DEF Rested
    <2>3. QED
      BY <2>1, <2>2
  <1>12. Calm'
    BY <1>6, <1>11 DEF Calm, Paired, ChangesLast, Executes
  <1>13. QED
    BY <1>6, <1>10, <1>12 DEF IInv

-----------------------------------------------------------------------------
(* The rest of the world *)

\* Between transactions nothing but the state of the pools matters.
LEMMA RestIsCalm ==
    ASSUME queue = << >>, queue' = << >>, Sound',
           \A l \in LpTokens : Rested(pools', deposits', emitted', height', l)
    PROVE  IInv'
  <1>1. Len(queue') = 0
    OBVIOUS
  <1>2. Calm'
    BY <1>1 DEF Calm, Paired, ChangesLast, Executes
  <1>3. QED
    BY <1>2 DEF IInv

\* Someone else makes the generator pay.
LEMMA OthersSettle ==
    ASSUME IInv, queue = << >>, NEW lp \in LpTokens, NEW amount \in Nat, amount > 0,
           Settle(lp, amount), deposits[lp].amount > 0 \/ pools[lp].total_bond_share = 0,
           UNCHANGED <<bond, boost_fee, staker_rate, height, queue, undo, emitted>>
    PROVE  IInv'
  <1>1. /\ Calm /\ held \in Indexes /\ emitted \in [LpTokens -> Indexes]
        /\ deposits \in [LpTokens -> Deposits]
        /\ \A l \in LpTokens : Recorded(deposits, emitted, l)
    BY StageOf DEF IInv, Sound
  <1>2. /\ deposits' \in [LpTokens -> Deposits]
        /\ deposits'[lp].amount = amount
        /\ \A l \in LpTokens \ {lp} : deposits'[l] = deposits[l]
        /\ \A l \in LpTokens : Recorded(deposits', emitted, l)
        /\ Current(deposits', emitted, lp)
        /\ held' \in Indexes
    BY <1>1, SettleLeaves
  <1>3. UNCHANGED <<pools, users, rewards>>
    BY DEF bond
  <1>4. Sound'
    BY <1>2, <1>3 DEF IInv, Sound
  <1>5. ASSUME NEW l \in LpTokens
        PROVE  Rested(pools', deposits', emitted', height', l)
    <2>1. Rested(pools, deposits, emitted, height, l)
      BY <1>1 DEF Calm
    <2>2. CASE l # lp
      <3>1. deposits'[l] = deposits[l]
        BY <1>2, <2>2
      <3>2. QED
        BY <1>3, <2>1, <3>1 DEF Rested, Current
    <2>3. CASE l = lp
      BY <1>2, <1>3, <2>1, <2>3 DEF Rested, Current
    <2>4. QED
      BY <2>2, <2>3
  <1>6. QED
    BY <1>4, <1>5, RestIsCalm

LEMMA CheckpointKeeps ==
    ASSUME IInv, NEW lp \in LpTokens, CheckpointUserBoost(lp)
    PROVE  IInv'
  <1>1. PICK amount : amount = deposits[lp].amount
    OBVIOUS
  <1>2. amount \in Nat
    BY <1>1 DEF IInv, Sound, Deposits
  <1>3. QED
    BY <1>1, <1>2, OthersSettle DEF CheckpointUserBoost

LEMMA DepositForKeeps ==
    ASSUME IInv, NEW lp \in LpTokens, NEW a \in Amounts, DepositFor(lp, a)
    PROVE  IInv'
  <1>1. PICK amount : amount = deposits[lp].amount + a
    OBVIOUS
  <1>2. deposits[lp].amount \in Nat /\ a \in Nat /\ a > 0
    BY BondAssumption DEF IInv, Sound, Deposits, DepositFor
  <1>3. amount \in Nat /\ amount > 0
    BY <1>1, <1>2
  <1>4. Calm /\ pools[lp].total_bond_share \in Nat
    BY StageOf DEF DepositFor, IInv, Sound, Accounts, PoolInfo
  <1>5. pools[lp].total_bond_share > 0 => deposits[lp].amount > 0
    BY <1>4 DEF Calm, Rested
  <1>6. QED
    BY <1>1, <1>3, <1>4, <1>5, OthersSettle DEF DepositFor

LEMMA DonateKeeps ==
    ASSUME IInv, NEW t \in Tokens, Donate(t)
    PROVE  IInv'
  <1>1. /\ queue = << >> /\ queue' = << >> /\ held' = [held EXCEPT ![t] = @ + 1]
        /\ UNCHANGED <<pools, users, rewards, boost_fee, staker_rate, height, deposits, emitted>>
    BY DEF Donate, bond
  <1>2. Calm /\ held \in [Tokens -> Nat]
    BY <1>1, StageOf DEF IInv, Sound, Indexes
  <1>3. held' \in Indexes
    BY <1>1, <1>2 DEF Indexes
  <1>4. Sound'
    BY <1>1, <1>3 DEF IInv, Sound
  <1>5. \A l \in LpTokens : Rested(pools', deposits', emitted', height', l)
    BY <1>1, <1>2 DEF Calm
  <1>6. QED
    BY <1>1, <1>4, <1>5, RestIsCalm

\* In a new block no pool has been claimed for, and the generator owes more.
LEMMA TickKeeps ==
    ASSUME IInv, Tick
    PROVE  IInv'
  <1>1. /\ queue = << >> /\ queue' = << >> /\ height' = height + 1
        /\ UNCHANGED <<pools, users, rewards, boost_fee, staker_rate, held, deposits>>
    BY DEF Tick, bond
  <1>2. /\ Calm /\ height \in Nat /\ emitted \in [LpTokens -> Indexes]
        /\ \A l \in LpTokens : Recorded(deposits, emitted, l)
        /\ pools \in [LpTokens -> PoolInfo]
    BY <1>1, StageOf DEF IInv, Sound, Accounts
  <1>3. PICK more \in [LpTokens -> [Tokens -> {0, 1}]] :
           emitted' = [lp \in LpTokens |-> [t \in Tokens |-> emitted[lp][t] + more[lp][t]]]
    BY DEF Tick
  <1>4. ASSUME NEW l \in LpTokens, NEW t \in Tokens
        PROVE  emitted[l][t] \in Nat /\ emitted'[l][t] \in Nat /\ emitted[l][t] <= emitted'[l][t]
    <2>1. emitted[l][t] \in Nat /\ more[l][t] \in {0, 1}
      BY <1>2 DEF Indexes
    <2>2. emitted'[l][t] = emitted[l][t] + more[l][t]
      BY <1>3
    <2>3. QED
      BY <2>1, <2>2
  <1>5. emitted' \in [LpTokens -> Indexes]
    <2>1. ASSUME NEW l \in LpTokens PROVE emitted'[l] \in Indexes
      <3>1. emitted'[l] = [t \in Tokens |-> emitted[l][t] + more[l][t]]
        BY <1>3
      <3>2. emitted'[l] = [t \in Tokens |-> emitted'[l][t]]
        BY <3>1
      <3>3. QED
        BY <1>4, <3>2 DEF Indexes
    <2>2. QED
      BY <1>3, <2>1
  <1>6. ASSUME NEW l \in LpTokens PROVE Recorded(deposits', emitted', l)
    <2>1. Recorded(deposits, emitted, l) /\ deposits[l] \in Deposits
      BY <1>2 DEF Recorded
    <2>2. deposits[l].amount \in Nat /\ deposits[l].reward_user_index \in Nat
      BY <2>1 DEF Deposits
    <2>3. deposits[l].reward_user_index <= emitted'[l][ASTRO]
      <3>1. ASTRO \in Tokens
        BY DEF Tokens
      <3>2. deposits[l].reward_user_index <= emitted[l][ASTRO]
        BY <2>1 DEF Recorded
      <3>3. QED
        BY <1>4, <2>2, <3>1, <3>2
    <2>4. ASSUME NEW t \in ProxyTokens
          PROVE  deposits[l].reward_debt_proxy[t] <= emitted'[l][t] * deposits[l].amount
      <3>1. t \in Tokens
        BY DEF Tokens
      <3>2. PICK e, f, a : e = emitted[l][t] /\ f = emitted'[l][t] /\ a = deposits[l].amount
        OBVIOUS
      <3>3. e * a <= f * a /\ e * a \in Nat /\ f * a \in Nat
        BY <1>4, <2>2, <3>1, <3>2, TimesMonotone
      <3>4. deposits[l].reward_debt_proxy[t] <= e * a /\ deposits[l].reward_debt_proxy[t] \in Nat
        BY <2>1, <3>2 DEF Recorded, Deposits
      <3>5. QED
        BY <3>2, <3>3, <3>4
    <2>5. QED
      BY <1>1, <2>1, <2>3, <2>4 DEF Recorded
  <1>7. Sound'
    <2>1. height + 1 \in Nat
      BY <1>2
    <2>2. QED
      BY <1>1, <1>5, <1>6, <2>1 DEF IInv, Sound
  <1>8. ASSUME NEW l \in LpTokens
        PROVE  Rested(pools', deposits', emitted', height', l)
    <2>1. Rested(pools, deposits, emitted, height, l)
      BY <1>2 DEF Calm
    <2>2. pools[l].last_reconcile \in Nat
      BY <1>2 DEF PoolInfo
    <2>3. pools[l].last_reconcile <= height + 1 /\ pools[l].last_reconcile # height + 1
      BY <1>2, <2>1, <2>2 DEF Rested
    <2>4. QED
      BY <1>1, <2>1, <2>3 DEF Rested
  <1>9. QED
    BY <1>1, <1>7, <1>8, RestIsCalm

LEMMA RevertKeeps ==
    ASSUME IInv, Revert
    PROVE  IInv'
  <1>1. /\ queue # << >> /\ queue' = << >>
        /\ pools' = undo.pools /\ users' = undo.users /\ rewards' = undo.rewards
        /\ held' = undo.held /\ deposits' = undo.deposits
        /\ UNCHANGED <<boost_fee, staker_rate, height, emitted>>
    BY DEF Revert, Proceed
  <1>2. Undone
    BY <1>1, StageOf
  <1>3. Sound'
    <2>1. << >> \in Seq(Message)
      BY EmptySeq
    <2>2. QED
      BY <1>1, <1>2, <2>1 DEF IInv, Sound, Undone
  <1>4. \A l \in LpTokens : Rested(pools', deposits', emitted', height', l)
    BY <1>1, <1>2 DEF Undone
  <1>5. Len(queue') = 0
    BY <1>1
  <1>6. Calm'
    BY <1>1, <1>4, <1>5 DEF Calm, Paired, ChangesLast, Executes
  <1>7. QED
    BY <1>1, <1>3, <1>6 DEF IInv

\* The fee leaves the books and the balance.
LEMMA SendIncomeKeeps ==
    ASSUME IInv, SendIncome
    PROVE  IInv'
  <1>1. PICK fee : fee = rewards[ASTRO].fee
    OBVIOUS
  <1>2. /\ queue = << >> /\ queue' = << >>
        /\ fee <= rewards[ASTRO].reconciled_amount /\ fee <= held[ASTRO]
        /\ rewards' = [rewards EXCEPT ![ASTRO].fee = 0, ![ASTRO].reconciled_amount = @ - fee]
        /\ held' = [held EXCEPT ![ASTRO] = @ - fee]
        /\ UNCHANGED <<pools, users, boost_fee, staker_rate, height, deposits, emitted>>
    BY <1>1 DEF SendIncome
  <1>3. /\ Calm /\ held \in [Tokens -> Nat] /\ Accounts(pools, users, rewards)
        /\ rewards \in [Tokens -> RewardInfo] /\ ASTRO \in Tokens
        /\ pools \in [LpTokens -> PoolInfo] /\ users \in [LpTokens \X Users -> UserInfo]
        /\ Known(pools, users)
    BY <1>2, StageOf DEF IInv, Sound, Indexes, Accounts, Tokens
  <1>4. /\ rewards[ASTRO] \in RewardInfo /\ held[ASTRO] \in Nat
        /\ fee \in Nat /\ rewards[ASTRO].reconciled_amount \in Nat
        /\ rewards[ASTRO].staker_income \in Nat
    BY <1>1, <1>3 DEF RewardInfo
  <1>5. PICK w : w = rewards'
    OBVIOUS
  <1>6. /\ w[ASTRO] \in RewardInfo /\ w[ASTRO].fee = 0
        /\ w[ASTRO].reconciled_amount = rewards[ASTRO].reconciled_amount - fee
        /\ w[ASTRO].staker_income = rewards[ASTRO].staker_income
    <2>1. w[ASTRO] = [rewards[ASTRO] EXCEPT !.fee = 0,
                        !.reconciled_amount = rewards[ASTRO].reconciled_amount - fee]
      BY <1>2, <1>3, <1>4, <1>5 DEF RewardInfo
    <2>2. rewards[ASTRO].reconciled_amount - fee \in Nat
      BY <1>2, <1>4
    <2>3. PICK o : o = rewards[ASTRO].reconciled_amount - fee
      OBVIOUS
    <2>4. w[ASTRO] = [reconciled_amount |-> o, fee |-> 0,
                      staker_income |-> rewards[ASTRO].staker_income]
      BY <1>4, <2>1, <2>3 DEF RewardInfo
    <2>5. o \in Nat
      BY <2>2, <2>3
    <2>6. QED
      BY <1>4, <2>3, <2>4, <2>5 DEF RewardInfo
  <1>7. /\ w \in [Tokens -> RewardInfo]
        /\ \A t \in Tokens \ {ASTRO} : w[t] = rewards[t]
    <2>1. \A t \in Tokens \ {ASTRO} : w[t] = rewards[t]
      BY <1>2, <1>3, <1>5
    <2>2. w = [t \in Tokens |-> w[t]]
      BY <1>2, <1>3, <1>5
    <2>3. QED
      BY <1>3, <1>6, <2>1, <2>2
  <1>8. ASSUME NEW t \in Tokens PROVE Backed(pools, users, w, t)
    <2>1. Backed(pools, users, rewards, t)
      BY <1>3 DEF Accounts
    <2>2. CASE t # ASTRO
      BY <1>7, <2>1, <2>2 DEF Backed
    <2>3. CASE t = ASTRO
      <3> DEFINE A == Total(Claims(pools, users, t))
                 o == rewards[ASTRO].reconciled_amount
                 s == rewards[ASTRO].staker_income
      <3>1. A \in Nat /\ o \in Nat /\ s \in Nat /\ SCALE \in Nat
        BY <1>3, <1>4, ClaimType, DecimalAssumption
      <3>2. A + SCALE * (fee + s) <= SCALE * o
        BY <1>1, <2>1, <2>3 DEF Backed
      <3> HIDE DEF A, o, s
      <3>3. A + SCALE * (0 + s) <= SCALE * (o - fee)
        <4>1. /\ SCALE * (fee + s) = SCALE * fee + SCALE * s
              /\ SCALE * (o - fee) = SCALE * o - SCALE * fee
              /\ SCALE * (0 + s) = SCALE * s
              /\ SCALE * fee \in Nat /\ SCALE * s \in Nat /\ SCALE * o \in Nat
          BY <1>4, <3>1
        <4>2. QED
          BY <3>1, <3>2, <4>1
      <3>4. QED
        BY <1>6, <2>3, <3>3 DEF Backed, A, o, s
    <2>4. QED
      BY <2>2, <2>3
  <1>9. Accounts(pools', users', rewards')
    <2>1. Accounts(pools, users, w)
      BY <1>3, <1>7, <1>8 DEF Accounts
    <2>2. QED
      BY <1>2, <1>5, <2>1
  <1>10. held' \in Indexes
    BY <1>2, <1>3, <1>4 DEF Indexes
  <1>11. Sound'
    BY <1>2, <1>9, <1>10 DEF IInv, Sound
  <1>12. \A l \in LpTokens : Rested(pools', deposits', emitted', height', l)
    BY <1>2, <1>3 DEF Calm
  <1>13. QED
    BY <1>2, <1>11, <1>12, RestIsCalm

LEMMA UpdatesKeep ==
    ASSUME IInv, (\E f \in BoostFees : UpdateConfig(f))
                     \/ (\E r \in StakerRates : UpdateParameters(r))
    PROVE  IInv'
  <1>1. /\ queue = << >> /\ queue' = << >>
        /\ boost_fee' \in 0 .. SCALE /\ staker_rate' \in 0 .. SCALE
        /\ UNCHANGED <<pools, users, rewards, height, held, deposits, emitted>>
    BY BondAssumption DEF UpdateConfig, UpdateParameters, bond, IInv, Sound
  <1>2. Calm
    BY <1>1, StageOf
  <1>3. Sound'
    BY <1>1 DEF IInv, Sound
  <1>4. \A l \in LpTokens : Rested(pools', deposits', emitted', height', l)
    BY <1>1, <1>2 DEF Calm
  <1>5. QED
    BY <1>1, <1>3, <1>4, RestIsCalm

-----------------------------------------------------------------------------
(* The calls *)

\* The callbacks of a list know the balances read when it was made.
Dated(q) ==
    \A i \in 1 .. Len(q) :
        q[i].type = "AfterBondClaimed" =>
            i = 2 /\ q[1].type = "GeneratorClaim" /\ q[i].prev = held

\* A list that begins with a call's first message.
Opens(q) == q \in Seq(Message) /\ q # << >> /\ Listed(q) /\ q[1].type # "AfterBondClaimed"

\* A message that asks for one of the callbacks.
Asks(m) ==
    /\ m \in Message /\ m.user \in Users
    /\ m.type = "Deposit" \/ m.type = "Withdraw" \/ m.type = "ClaimRewards"
    /\ m.type = "Deposit" => m.amount > 0

LEMMA AsksIsProper ==
    ASSUME NEW m, Asks(m)
    PROVE  /\ m \in Message /\ Proper(m) /\ m.lp \in LpTokens
           /\ m.type # "AfterBondClaimed" /\ m.type # "GeneratorClaim"
  BY DEF Asks, Proper, ClaimTypes, ChangeTypes, Message

LEMMA CallAsks ==
    ASSUME NEW lp \in LpTokens, NEW u \in Users, NEW a \in Nat, NEW type,
           type = "Deposit" \/ type = "Withdraw" \/ type = "ClaimRewards",
           type = "Deposit" => a > 0, NEW m, m = Call(type, lp, u, a)
    PROVE  Asks(m) /\ m.type = type /\ m.lp = lp
  <1>1. NoTokens \in Indexes
    BY DEF NoTokens, Indexes
  <1>2. m = [type |-> type, lp |-> lp, user |-> u, amount |-> a, prev |-> NoTokens]
    BY DEF Call, NoMessage
  <1>3. m \in Message
    BY <1>1, <1>2 DEF Message, Messages
  <1>4. QED
    BY <1>2, <1>3 DEF Asks

\* A call for m ends with it, after the callback of its claim if it claims.
Closes(q, m) ==
    Len(q) \in 1 .. 3 /\ q[Len(q)] = m /\ (Len(q) > 1 => q[Len(q) - 1].prev = held)

\* A call that claims nothing.
LEMMA OneMessage ==
    ASSUME NEW m, Asks(m), NEW q, q = << >> \o <<m>>
    PROVE  /\ Opens(q) /\ Dated(q) /\ Len(q) = 1 /\ q[1] = m
  <1>1. /\ m \in Message /\ Proper(m)
        /\ m.type # "AfterBondClaimed" /\ m.type # "GeneratorClaim"
    BY AsksIsProper
  <1>2. q = <<m>>
    OBVIOUS
  <1>3. q \in Seq(Message) /\ q # << >> /\ Len(q) = 1 /\ q[1] = m
    BY <1>1, <1>2
  <1>4. \A i \in 1 .. Len(q) : i = 1
    BY <1>3
  <1>5. Listed(q)
    <2>1. \A i \in 1 .. Len(q) : Proper(q[i])
      BY <1>1, <1>3, <1>4
    <2>2. Paired(q)
      BY <1>3 DEF Paired
    <2>3. ChangesLast(q)
      BY <1>3, <1>4 DEF ChangesLast
    <2>4. QED
      BY <2>1, <2>2, <2>3 DEF Listed
  <1>6. Dated(q)
    BY <1>1, <1>3, <1>4 DEF Dated
  <1>7. QED
    BY <1>1, <1>3, <1>5, <1>6 DEF Opens

\* A call that claims first, if it has to.
LEMMA ClaimFirst ==
    ASSUME held \in Indexes, NEW m, Asks(m), NEW q, q = ClaimMessages(m.lp) \o <<m>>
    PROVE  /\ Opens(q) /\ Dated(q)
           /\ \A i \in 1 .. Len(q) : q[i].type \in ClaimTypes \/ q[i] = m
           /\ q[1].type \in ChangeTypes => q[1] = m /\ ~NeedsClaim(pools[m.lp])
           /\ Closes(q, m)
  <1>1. /\ m \in Message /\ Proper(m) /\ m.lp \in LpTokens
        /\ m.type # "AfterBondClaimed" /\ m.type # "GeneratorClaim"
    BY AsksIsProper
  <1>2. CASE ~NeedsClaim(pools[m.lp])
    <2>1. q = << >> \o <<m>>
      BY <1>2 DEF ClaimMessages
    <2>2. Opens(q) /\ Dated(q) /\ Len(q) = 1 /\ q[1] = m
      BY <2>1, OneMessage
    <2>3. \A i \in 1 .. Len(q) : i = 1
      BY <2>2
    <2>4. Closes(q, m)
      BY <2>2 DEF Closes
    <2>5. QED
      BY <1>2, <2>2, <2>3, <2>4
  <1>3. CASE NeedsClaim(pools[m.lp])
    <2>1. PICK a, b : /\ a = [NoMessage EXCEPT !.type = "GeneratorClaim", !.lp = m.lp]
                      /\ b = [NoMessage EXCEPT !.type = "AfterBondClaimed", !.lp = m.lp,
                                               !.prev = held]
      OBVIOUS
    <2>2. NoTokens \in Indexes
      BY DEF NoTokens, Indexes
    <2>3. a = [type |-> "GeneratorClaim", lp |-> m.lp, user |-> NoOne, amount |-> 0,
               prev |-> NoTokens]
      BY <2>1 DEF NoMessage
    <2>4. b = [type |-> "AfterBondClaimed", lp |-> m.lp, user |-> NoOne, amount |-> 0,
               prev |-> held]
      BY <2>1 DEF NoMessage
    <2>5. a \in Message /\ b \in Message
      BY <1>1, <2>2, <2>3, <2>4 DEF Message, Messages
    <2>6. q = <<a, b>> \o <<m>>
      <3>1. ClaimMessages(m.lp) = <<a, b>>
        BY <1>3, <2>1 DEF ClaimMessages
      <3>2. QED
        BY <3>1
    <2>7. PICK p, t : p = <<a, b>> /\ t = <<m>>
      OBVIOUS
    <2>8. /\ q \in Seq(Message) /\ q # << >> /\ Len(q) = 3
          /\ q[1] = a /\ q[2] = b /\ q[3] = m
      <3>1. /\ p \in Seq(Message) /\ t \in Seq(Message) /\ Len(p) = 2 /\ Len(t) = 1
            /\ p[1] = a /\ p[2] = b /\ t[1] = m
        BY <1>1, <2>5, <2>7
      <3>2. /\ q \in Seq(Message) /\ Len(q) = Len(p) + Len(t)
            /\ \A i \in 1 .. Len(p) + Len(t) :
                  q[i] = IF i <= Len(p) THEN p[i] ELSE t[i - Len(p)]
        <4>1. q = p \o t
          BY <2>6, <2>7
        <4>2. /\ p \o t \in Seq(Message) /\ Len(p \o t) = Len(p) + Len(t)
              /\ \A i \in 1 .. Len(p) + Len(t) :
                    (p \o t)[i] = IF i <= Len(p) THEN p[i] ELSE t[i - Len(p)]
          <5>1. p \in Seq(Message) /\ t \in Seq(Message)
            BY <3>1
          <5>2. QED
            BY <5>1, ConcatProperties
        <4>3. QED
          BY <4>1, <4>2
      <3>3. Len(q) = 3 /\ q[1] = p[1] /\ q[2] = p[2] /\ q[3] = t[3 - 2]
        BY <3>1, <3>2
      <3>4. 3 - 2 = 1
        OBVIOUS
      <3>5. q # << >>
        BY <3>2, <3>3, EmptySeq
      <3>6. QED
        BY <3>1, <3>2, <3>3, <3>4, <3>5
    <2>9. \A i \in 1 .. Len(q) : i = 1 \/ i = 2 \/ i = 3
      BY <2>8
    <2>10. /\ a.type = "GeneratorClaim" /\ b.type = "AfterBondClaimed" /\ a.lp = m.lp
           /\ b.lp = m.lp /\ b.prev = held
      BY <2>3, <2>4
    <2>11. Proper(a) /\ Proper(b)
      BY <2>5, <2>10 DEF Proper, ClaimTypes, ChangeTypes
    <2>12. \A i \in 1 .. Len(q) : Proper(q[i])
      BY <1>1, <2>8, <2>9, <2>11
    <2>13. Paired(q)
      <3>1. ASSUME NEW i \in 2 .. Len(q), q[i].type = "AfterBondClaimed" PROVE i = 2
        BY <1>1, <2>8, <3>1
      <3>2. 2 - 1 = 1
        OBVIOUS
      <3>3. QED
        BY <2>8, <2>10, <3>1, <3>2 DEF Paired
    <2>14. ChangesLast(q)
      <3>1. ASSUME NEW i \in 1 .. Len(q), q[i].type \in ChangeTypes PROVE i = 3
        BY <2>8, <2>9, <2>10, <3>1 DEF ChangeTypes
      <3>2. 3 - 1 = 2
        OBVIOUS
      <3>3. QED
        BY <2>8, <2>10, <3>1, <3>2 DEF ChangesLast
    <2>15. Opens(q)
      BY <2>8, <2>10, <2>12, <2>13, <2>14 DEF Opens, Listed
    <2>16. Dated(q)
      <3>1. ASSUME NEW i \in 1 .. Len(q), q[i].type = "AfterBondClaimed" PROVE i = 2
        BY <1>1, <2>8, <2>9, <2>10, <3>1
      <3>2. QED
        BY <2>8, <2>10, <3>1 DEF Dated
    <2>17. \A i \in 1 .. Len(q) : q[i].type \in ClaimTypes \/ q[i] = m
      BY <2>8, <2>9, <2>10 DEF ClaimTypes
    <2>18. q[1].type \notin ChangeTypes
      BY <2>8, <2>10 DEF ChangeTypes
    <2>19. Closes(q, m)
      <3>1. 3 - 1 = 2 /\ 3 \in 1 .. 3
        OBVIOUS
      <3>2. QED
        BY <2>8, <2>10, <3>1 DEF Closes
    <2>20. QED
      BY <2>15, <2>16, <2>17, <2>18, <2>19
  <1>4. QED
    BY <1>2, <1>3

\* The list of the claims of some pools.
ClaimList(q) == Opens(q) /\ \A i \in 1 .. Len(q) : q[i].type \in ClaimTypes

LEMMA ClaimListsAppend ==
    ASSUME NEW p, NEW t, ClaimList(p), ClaimList(t)
    PROVE  ClaimList(p \o t)
  <1> DEFINE q == p \o t
  <1>1. /\ p \in Seq(Message) /\ t \in Seq(Message) /\ p # << >> /\ t # << >>
        /\ Listed(p) /\ Listed(t)
        /\ p[1].type # "AfterBondClaimed" /\ t[1].type # "AfterBondClaimed"
        /\ \A i \in 1 .. Len(p) : p[i].type \in ClaimTypes
        /\ \A i \in 1 .. Len(t) : t[i].type \in ClaimTypes
    BY DEF ClaimList, Opens
  <1>2. /\ q \in Seq(Message) /\ Len(q) = Len(p) + Len(t)
        /\ \A i \in 1 .. Len(p) + Len(t) :
              q[i] = IF i <= Len(p) THEN p[i] ELSE t[i - Len(p)]
    BY <1>1, ConcatProperties
  <1>3. Len(p) \in Nat \ {0} /\ Len(t) \in Nat \ {0}
    BY <1>1, EmptySeq, LenProperties
  <1> HIDE DEF q
  <1>4. PICK m, n : m = Len(p) /\ n = Len(t)
    OBVIOUS
  <1>5. /\ m \in Nat \ {0} /\ n \in Nat \ {0} /\ Len(q) = m + n
        /\ \A i \in 1 .. m + n : q[i] = IF i <= m THEN p[i] ELSE t[i - m]
    BY <1>2, <1>3, <1>4
  <1>6. \A i \in 1 .. m + n : \/ i \in 1 .. m /\ q[i] = p[i]
                              \/ i - m \in 1 .. n /\ ~(i \in 1 .. m) /\ q[i] = t[i - m]
    BY <1>5
  <1>7. \A i \in 1 .. m + n : Proper(q[i]) /\ q[i].type \in ClaimTypes
    <2>1. /\ \A i \in 1 .. m : Proper(p[i]) /\ p[i].type \in ClaimTypes
          /\ \A i \in 1 .. n : Proper(t[i]) /\ t[i].type \in ClaimTypes
      BY <1>1, <1>4 DEF Listed
    <2>2. QED
      BY <1>6, <2>1
  <1>8. ASSUME NEW i \in 2 .. m + n, q[i].type = "AfterBondClaimed"
        PROVE  q[i - 1].type = "GeneratorClaim" /\ q[i - 1].lp = q[i].lp
    <2>1. i \in 1 .. m + n /\ i - 1 \in 1 .. m + n
      BY <1>5
    <2>2. CASE i \in 1 .. m
      <3>1. i \in 2 .. m /\ i - 1 \in 1 .. m /\ q[i] = p[i] /\ q[i - 1] = p[i - 1]
        BY <1>5, <2>1, <2>2
      <3>2. QED
        BY <1>1, <1>4, <1>8, <3>1 DEF Listed, Paired
    <2>3. CASE ~(i \in 1 .. m)
      <3>1. i - m \in 1 .. n /\ q[i] = t[i - m]
        BY <1>6, <2>1, <2>3
      <3>2. i - m # 1
        BY <1>1, <1>8, <3>1
      <3>3. i - m \in 2 .. n /\ ~(i - 1 <= m) /\ (i - 1) - m = (i - m) - 1
        BY <1>5, <2>3, <3>1, <3>2
      <3>4. q[i - 1] = t[(i - m) - 1]
        BY <1>5, <2>1, <3>3
      <3>5. QED
        BY <1>1, <1>4, <1>8, <3>1, <3>3, <3>4 DEF Listed, Paired
    <2>4. QED
      BY <2>2, <2>3
  <1>9. Paired(q)
    BY <1>5, <1>8 DEF Paired
  <1>10. ChangesLast(q)
    BY <1>5, <1>7 DEF ChangesLast, ClaimTypes, ChangeTypes
  <1>11. 1 \in 1 .. m + n /\ q[1] = p[1] /\ q # << >>
    <2>1. 1 \in 1 .. m + n /\ 1 <= m /\ Len(q) # 0
      BY <1>5
    <2>2. q[1] = p[1]
      BY <1>5, <2>1
    <2>3. q # << >>
      BY <2>1
    <2>4. QED
      BY <2>1, <2>2, <2>3
  <1>12. QED
    BY <1>1, <1>2, <1>5, <1>7, <1>9, <1>10, <1>11 DEF ClaimList, Opens, Listed, q

\* (Begin) What the reconciliations at the beginning of a call leave.
LEMMA BeginLeaves ==
    ASSUME IInv, NEW lps \in Seq(LpTokens), NEW q, Begin(lps, q)
    PROVE  /\ Accounts(pools', users, rewards')
           /\ \A l \in LpTokens :
                 /\ pools'[l].total_bond_share = pools[l].total_bond_share
                 /\ pools'[l].last_reconcile = pools[l].last_reconcile
                 /\ pools[l].last_reconcile = height => pools'[l] = pools[l]
           /\ Covered(rewards, held) => Covered(rewards', held)
  <1>1. PICK b : b = [pools |-> pools, rewards |-> rewards, ok |-> TRUE]
    OBVIOUS
  <1>2. PICK s : s = FoldLeft(ReconcileClaimedByOthers, b, lps)
    OBVIOUS
  <1>3. s.ok /\ pools' = s.pools /\ rewards' = s.rewards
    BY <1>1, <1>2 DEF Begin
  <1>4. /\ boost_fee \in 0 .. SCALE /\ staker_rate \in 0 .. SCALE
        /\ held \in Indexes /\ deposits \in [LpTokens -> Deposits]
        /\ Accounts(pools, users, rewards)
    BY DEF IInv, Sound
  <1>5. Passed(b)
    <2>1. b.pools = pools /\ b.rewards = rewards
      BY <1>1
    <2>2. QED
      BY <1>4, <2>1 DEF Passed
  <1>6. Passed(s)
    BY <1>2, <1>4, <1>5, ListPasses
  <1>7. QED
    BY <1>3, <1>6 DEF Passed

\* A call begins: what it puts in the queue is in order, and a change of
\* shares comes first only if the pool has been claimed for in this block.
LEMMA BeginKeeps ==
    ASSUME IInv, NEW lps \in Seq(LpTokens), NEW q, Begin(lps, q), Opens(q),
           \A i \in 1 .. Len(q) : q[i].type = "Withdraw" => deposits[q[i].lp].amount > 0,
           q[1].type \in ChangeTypes =>
              \/ pools[q[1].lp].total_bond_share = 0
              \/ pools[q[1].lp].last_reconcile = height
    PROVE  IInv'
  <1>1. /\ queue = << >> /\ queue' = q /\ undo' = State
        /\ UNCHANGED <<users, boost_fee, staker_rate, height, held, deposits, emitted>>
    BY DEF Begin
  <1>2. /\ Accounts(pools', users, rewards')
        /\ \A l \in LpTokens :
              /\ pools'[l].total_bond_share = pools[l].total_bond_share
              /\ pools'[l].last_reconcile = pools[l].last_reconcile
              /\ pools[l].last_reconcile = height => pools'[l] = pools[l]
    BY BeginLeaves
  <1>3. Calm
    BY <1>1, StageOf
  <1>4. /\ q \in Seq(Message) /\ q # << >> /\ Listed(q) /\ Head(q) = q[1]
        /\ q[1] \in Message /\ q[1].type # "AfterBondClaimed"
    <2>1. /\ q \in Seq(Message) /\ q # << >> /\ Listed(q) /\ q[1].type # "AfterBondClaimed"
      BY DEF Opens
    <2>2. QED
      BY <2>1, TailOf
  <1>5. Sound'
    BY <1>1, <1>2, <1>4 DEF IInv, Sound
  <1>6. \A l \in LpTokens : Rested(pools, deposits, emitted, height, l)
    BY <1>3 DEF Calm
  <1>7. ASSUME NEW l \in LpTokens
        PROVE  Rested(pools', deposits', emitted', height', l)
    <2>1. Rested(pools, deposits, emitted, height, l)
      BY <1>6
    <2>2. /\ pools'[l].total_bond_share = pools[l].total_bond_share
          /\ pools'[l].last_reconcile = pools[l].last_reconcile
          /\ pools[l].last_reconcile = height => pools'[l] = pools[l]
      BY <1>2
    <2>3. QED
      BY <1>1, <2>1, <2>2 DEF Rested
  <1>8. ASSUME q[1].type \in ChangeTypes PROVE Ready(pools', deposits', emitted', q[1].lp)
    <2>1. PICK l : l = q[1].lp
      OBVIOUS
    <2>2. l \in LpTokens /\ Rested(pools', deposits', emitted', height', l)
      BY <1>4, <1>7, <2>1 DEF Message
    <2>3. pools'[l].total_bond_share = 0 \/ pools'[l].last_reconcile = height'
      BY <1>1, <1>2, <1>8, <2>1, <2>2
    <2>4. pools'[l].total_bond_share > 0 => pools'[l].total_bond_share # 0
      BY <1>2, <2>2 DEF Accounts, PoolInfo
    <2>5. QED
      BY <2>1, <2>2, <2>3, <2>4 DEF Ready, Rested
  <1>9. Calm'
    BY <1>1, <1>4, <1>7, <1>8 DEF Calm, Listed, Executes, ChangeTypes
  <1>10. Undone'
    <2>1. /\ undo'.pools = pools /\ undo'.users = users /\ undo'.rewards = rewards
          /\ undo'.held = held /\ undo'.deposits = deposits
      BY <1>1 DEF State
    <2>2. QED
      BY <1>1, <1>6, <2>1 DEF Undone, IInv, Sound
  <1>11. QED
    BY <1>5, <1>9, <1>10 DEF IInv

\* A pool that need not be claimed for.
LEMMA NotClaimed ==
    ASSUME NEW lp \in LpTokens, ~NeedsClaim(pools[lp])
    PROVE  pools[lp].last_reconcile = height
  BY DEF NeedsClaim

LEMMA ExecuteDepositKeeps ==
    ASSUME IInv, NEW lp \in LpTokens, NEW u \in Users, NEW a \in Amounts, ExecuteDeposit(lp, u, a)
    PROVE  IInv'
  <1>1. a \in Nat /\ a > 0 /\ held \in Indexes
    BY BondAssumption DEF ExecuteDeposit, IInv, Sound
  <1>2. PICK m : m = Call("Deposit", lp, u, a)
    OBVIOUS
  <1>3. Asks(m) /\ m.type = "Deposit" /\ m.lp = lp
    BY <1>1, <1>2, CallAsks
  <1>4. CASE deposits[lp].amount > 0
    <2>1. PICK q : q = ClaimMessages(lp) \o <<m>>
      OBVIOUS
    <2>2. PICK lps : lps = <<lp>>
      OBVIOUS
    <2>3. lps \in Seq(LpTokens)
      BY <2>2
    <2>4. Begin(lps, q)
      BY <1>2, <1>4, <2>1, <2>2 DEF ExecuteDeposit
    <2>5. /\ Opens(q) /\ \A i \in 1 .. Len(q) : q[i].type \in ClaimTypes \/ q[i] = m
          /\ q[1].type \in ChangeTypes => q[1] = m /\ ~NeedsClaim(pools[lp])
      BY <1>1, <1>3, <2>1, ClaimFirst
    <2>6. \A i \in 1 .. Len(q) : q[i].type # "Withdraw"
      BY <1>3, <2>5 DEF ClaimTypes
    <2>7. q[1].type \in ChangeTypes => pools[q[1].lp].last_reconcile = height
      BY <1>3, <2>5, NotClaimed
    <2>8. QED
      BY <2>3, <2>4, <2>5, <2>6, <2>7, BeginKeeps
  <1>5. CASE ~(deposits[lp].amount > 0)
    <2>1. PICK q : q = << >> \o <<m>>
      OBVIOUS
    <2>2. PICK lps : lps = << >>
      OBVIOUS
    <2>3. lps \in Seq(LpTokens)
      BY <2>2
    <2>4. Begin(lps, q)
      BY <1>2, <1>5, <2>1, <2>2 DEF ExecuteDeposit
    <2>5. Opens(q) /\ Len(q) = 1 /\ q[1] = m
      BY <1>3, <2>1, OneMessage
    <2>6. \A i \in 1 .. Len(q) : q[i].type # "Withdraw"
      <3>1. \A i \in 1 .. Len(q) : i = 1
        BY <2>5
      <3>2. QED
        BY <1>3, <2>5, <3>1
    <2>7. pools[q[1].lp].total_bond_share = 0
      <3>1. Calm
        BY StageOf DEF ExecuteDeposit, Begin
      <3>2. pools[lp].total_bond_share \in Nat
        BY DEF IInv, Sound, Accounts, PoolInfo
      <3>3. ~(pools[lp].total_bond_share > 0)
        BY <1>5, <3>1 DEF Calm, Rested
      <3>4. pools[lp].total_bond_share = 0
        BY <3>2, <3>3
      <3>5. QED
        BY <1>3, <2>5, <3>4
    <2>8. QED
      BY <2>3, <2>4, <2>5, <2>6, <2>7, BeginKeeps
  <1>6. QED
    BY <1>4, <1>5

LEMMA ExecuteWithdrawKeeps ==
    ASSUME IInv, NEW lp \in LpTokens, NEW u \in Users, NEW a \in Amounts, ExecuteWithdraw(lp, u, a)
    PROVE  IInv'
  <1>1. a \in Nat /\ held \in Indexes /\ deposits[lp].amount > 0
    BY BondAssumption DEF ExecuteWithdraw, IInv, Sound
  <1>2. PICK m : m = Call("Withdraw", lp, u, a)
    OBVIOUS
  <1>3. Asks(m) /\ m.type = "Withdraw" /\ m.lp = lp
    BY <1>1, <1>2, CallAsks
  <1>4. PICK q : q = ClaimMessages(lp) \o <<m>>
    OBVIOUS
  <1>5. PICK lps : lps = <<lp>>
    OBVIOUS
  <1>6. lps \in Seq(LpTokens)
    BY <1>5
  <1>7. Begin(lps, q)
    BY <1>2, <1>4, <1>5 DEF ExecuteWithdraw
  <1>8. /\ Opens(q) /\ \A i \in 1 .. Len(q) : q[i].type \in ClaimTypes \/ q[i] = m
        /\ q[1].type \in ChangeTypes => q[1] = m /\ ~NeedsClaim(pools[lp])
    BY <1>1, <1>3, <1>4, ClaimFirst
  <1>9. \A i \in 1 .. Len(q) : q[i].type = "Withdraw" => deposits[q[i].lp].amount > 0
    BY <1>1, <1>3, <1>8 DEF ClaimTypes
  <1>10. q[1].type \in ChangeTypes => pools[q[1].lp].last_reconcile = height
    BY <1>3, <1>8, NotClaimed
  <1>11. QED
    BY <1>6, <1>7, <1>8, <1>9, <1>10, BeginKeeps

\* (execute_claim_rewards) The messages for one of the pools.
ClaimRow(u, lps) ==
    [i \in DOMAIN lps |-> ClaimMessages(lps[i]) \o <<Call("ClaimRewards", lps[i], u, 0)>>]

\* The messages for all of them.
LEMMA ClaimsInOrder ==
    ASSUME held \in Indexes, NEW u \in Users, NEW lps \in Seq(LpTokens), lps # << >>,
           NEW q, q = FlattenSeq(ClaimRow(u, lps))
    PROVE  ClaimList(q) /\ (Len(lps) = 1 => Dated(q))
  <1>1. Len(lps) \in Nat \ {0} /\ DOMAIN lps = 1 .. Len(lps)
    BY EmptySeq, LenProperties
  <1>2. PICK rows : rows = ClaimRow(u, lps)
    OBVIOUS
  <1>3. ASSUME NEW i \in 1 .. Len(lps) PROVE ClaimList(rows[i]) /\ Dated(rows[i])
    <2>1. lps[i] \in LpTokens
      BY <1>3, ElementOfSeq
    <2>2. PICK m : m = Call("ClaimRewards", lps[i], u, 0)
      OBVIOUS
    <2>3. Asks(m) /\ m.type = "ClaimRewards" /\ m.lp = lps[i]
      BY <2>1, <2>2, CallAsks
    <2>4. rows[i] = ClaimMessages(m.lp) \o <<m>>
      BY <1>1, <1>2, <2>2, <2>3 DEF ClaimRow
    <2>5. PICK r : r = rows[i]
      OBVIOUS
    <2>6. /\ Opens(r) /\ Dated(r) /\ \A j \in 1 .. Len(r) : r[j].type \in ClaimTypes \/ r[j] = m
      BY <2>3, <2>4, <2>5, ClaimFirst
    <2>7. \A j \in 1 .. Len(r) : r[j].type \in ClaimTypes
      BY <2>3, <2>6 DEF ClaimTypes
    <2>8. QED
      BY <2>5, <2>6, <2>7 DEF ClaimList
  <1> DEFINE B == {r \in Seq(Message) : ClaimList(r)}
  <1>4. \A s, t \in B : s \o t \in B
    <2>1. ASSUME NEW s \in B, NEW t \in B PROVE s \o t \in B
      <3>1. ClaimList(s \o t)
        BY ClaimListsAppend
      <3>2. QED
        BY <3>1 DEF ClaimList, Opens
    <2>2. QED
      BY <2>1
  <1>5. \A i \in 1 .. Len(lps) : rows[i] \in B
    BY <1>3 DEF ClaimList, Opens
  <1> HIDE DEF B
  <1>6. rows \in Seq(B) /\ Len(rows) = Len(lps) /\ rows # << >>
    <2>1. DOMAIN rows = 1 .. Len(lps) /\ rows = [i \in 1 .. Len(lps) |-> rows[i]]
      BY <1>1, <1>2 DEF ClaimRow
    <2>2. rows \in [1 .. Len(lps) -> B]
      BY <1>5, <2>1
    <2>3. rows \in Seq(B) /\ Len(rows) = Len(lps)
      BY <1>1, <2>2, SeqDef, LenProperties
    <2>4. QED
      BY <1>1, <2>3, EmptySeq
  <1>7. q \in B /\ (Len(rows) = 1 => q = rows[1])
    BY <1>2, <1>4, <1>6, FlattenKeeps
  <1>8. ClaimList(q)
    BY <1>7 DEF B
  <1>9. ASSUME Len(lps) = 1 PROVE Dated(q)
    <2>1. 1 \in 1 .. Len(lps) /\ q = rows[1]
      BY <1>6, <1>7, <1>9
    <2>2. QED
      BY <1>3, <2>1
  <1>10. QED
    BY <1>8, <1>9

LEMMA ExecuteClaimRewardsKeeps ==
    ASSUME IInv, NEW u \in Users, NEW lps \in ClaimLists, ExecuteClaimRewards(u, lps)
    PROVE  IInv'
  <1>1. lps \in Seq(LpTokens) /\ lps # << >> /\ held \in Indexes
    BY BondAssumption DEF ExecuteClaimRewards, IInv, Sound
  <1>2. PICK q : q = FlattenSeq(ClaimRow(u, lps))
    OBVIOUS
  <1>3. ClaimList(q)
    BY <1>1, <1>2, ClaimsInOrder
  <1>4. Begin(lps, q)
    BY <1>2 DEF ExecuteClaimRewards, ClaimRow
  <1>5. /\ Opens(q)
        /\ \A i \in 1 .. Len(q) : q[i].type \in ClaimTypes
    BY <1>3 DEF ClaimList
  <1>6. \A i \in 1 .. Len(q) : q[i].type # "Withdraw"
    BY <1>5 DEF ClaimTypes
  <1>7. q[1].type \notin ChangeTypes
    <2>1. 1 \in 1 .. Len(q)
      BY <1>5, TailOf DEF Opens
    <2>2. q[1].type \in ClaimTypes
      BY <1>5, <2>1
    <2>3. QED
      BY <2>2 DEF ClaimTypes, ChangeTypes
  <1>8. QED
    BY <1>1, <1>4, <1>5, <1>6, <1>7, BeginKeeps

-----------------------------------------------------------------------------
(* The inductive invariant is one *)

LEMMA InitHolds == Init => IInv
  <1> SUFFICES ASSUME Init PROVE IInv
    OBVIOUS
  <1>1. /\ NoTokens \in Indexes /\ NoTokens = [t \in Tokens |-> 0]
        /\ NoDebt \in [ProxyTokens -> Nat] /\ NoDebt = [t \in ProxyTokens |-> 0]
    BY DEF NoTokens, NoDebt, Indexes
  <1>2. NoPool \in PoolInfo /\ NoUser \in UserInfo /\ NoReward \in RewardInfo
        /\ NoDeposit \in Deposits
    BY <1>1 DEF NoPool, NoUser, NoReward, NoDeposit, PoolInfo, UserInfo, RewardInfo, Deposits
  <1>3. /\ pools \in [LpTokens -> PoolInfo] /\ users \in [LpTokens \X Users -> UserInfo]
        /\ rewards \in [Tokens -> RewardInfo] /\ deposits \in [LpTokens -> Deposits]
        /\ emitted \in [LpTokens -> Indexes] /\ held \in Indexes
        /\ \A l \in LpTokens : pools[l] = NoPool /\ deposits[l] = NoDeposit
                                /\ emitted[l] = NoTokens
        /\ \A q \in LpTokens \X Users : users[q] = NoUser
        /\ \A t \in Tokens : rewards[t] = NoReward
    BY <1>1, <1>2 DEF Init
  <1>4. Known(pools, users)
    <2>1. ASSUME NEW q \in LpTokens \X Users, NEW t \in Tokens
          PROVE  users[q].reward_indexes[t] <= pools[q[1]].reward_indexes[t]
      BY <1>1, <1>3 DEF NoPool, NoUser
    <2>2. QED
      BY <1>3, <2>1 DEF Known
  <1>5. ASSUME NEW l \in LpTokens
        PROVE  Total(Shares(users, l)) = pools[l].total_bond_share
    <2>1. Shares(users, l) = [u \in Users |-> 0]
      BY <1>3 DEF Shares, NoUser
    <2>2. QED
      BY <1>3, <2>1, TotalOfZeros DEF NoPool
  <1>6. ASSUME NEW t \in Tokens
        PROVE  Backed(pools, users, rewards, t)
    <2>0. SCALE \in Nat
      BY DecimalAssumption
    <2>2. ASSUME NEW q \in LpTokens \X Users PROVE Claim(pools, users, q, t) = 0
      <3>1. /\ users[q].pending_rewards[t] = 0 /\ users[q].bond_share = 0
            /\ users[q].reward_indexes[t] = 0 /\ pools[q[1]].reward_indexes[t] = 0
        BY <1>1, <1>3 DEF NoPool, NoUser
      <3>2. QED
        BY <2>0, <3>1 DEF Claim
    <2>3. PICK Q : Q = LpTokens \X Users
      OBVIOUS
    <2>4. Claims(pools, users, t) = [q \in Q |-> 0]
      BY <2>2, <2>3 DEF Claims
    <2>5. Total(Claims(pools, users, t)) = 0
      BY <2>4, TotalOfZeros
    <2>6. rewards[t].fee = 0 /\ rewards[t].staker_income = 0 /\ rewards[t].reconciled_amount = 0
      BY <1>3 DEF NoReward
    <2>7. QED
      BY <2>0, <2>5, <2>6 DEF Backed
  <1>7. ASSUME NEW l \in LpTokens
        PROVE  Recorded(deposits, emitted, l)
    <2>1. /\ deposits[l] = NoDeposit /\ deposits[l].reward_user_index = 0
          /\ deposits[l].amount = 0 /\ deposits[l].reward_debt_proxy = NoDebt
          /\ \A t \in Tokens : emitted[l][t] = 0
      BY <1>1, <1>3 DEF NoDeposit
    <2>2. \A t \in ProxyTokens : t \in Tokens /\ NoDebt[t] = 0
      BY <1>1 DEF Tokens
    <2>3. QED
      BY <1>2, <2>1, <2>2 DEF Recorded, Tokens
  <1>8. << >> \in Seq(Message) /\ queue = << >> /\ Len(queue) = 0 /\ height = 1
    BY EmptySeq DEF Init
  <1>9. Sound
    <2>1. boost_fee \in 0 .. SCALE /\ staker_rate \in 0 .. SCALE
      BY BondAssumption DEF Init
    <2>2. QED
      BY <1>3, <1>4, <1>5, <1>6, <1>7, <1>8, <2>1 DEF Sound, Accounts
  <1>10. ASSUME NEW l \in LpTokens
         PROVE  Rested(pools, deposits, emitted, height, l)
    <2>1. pools[l].last_reconcile = 0 /\ pools[l].total_bond_share = 0
      BY <1>3 DEF NoPool
    <2>2. QED
      BY <1>8, <2>1 DEF Rested
  <1>11. Calm
    BY <1>8, <1>10 DEF Calm, Paired, ChangesLast, Executes
  <1>12. QED
    BY <1>8, <1>9, <1>11 DEF IInv

LEMMA StutterKeeps ==
    ASSUME IInv, UNCHANGED vars
    PROVE  IInv'
  <1>1. UNCHANGED <<pools, users, rewards, boost_fee, staker_rate, height, queue, undo, held,
                    deposits, emitted>>
    BY DEF vars, bond
  <1>2. Sound'
    BY <1>1 DEF IInv, Sound
  <1>3. Calm => Calm'
    BY <1>1 DEF Calm, Paired, ChangesLast, Executes
  <1>4. Changing => Changing'
    BY <1>1 DEF Changing
  <1>5. Changed => Changed'
    BY <1>1 DEF Changed
  <1>6. Undone => Undone'
    BY <1>1 DEF Undone
  <1>7. QED
    BY <1>1, <1>2, <1>3, <1>4, <1>5, <1>6 DEF IInv

LEMMA NextKeeps ==
    ASSUME IInv, [Next]_vars
    PROVE  IInv'
  <1>1. CASE UNCHANGED vars
    BY <1>1, StutterKeeps
  <1>2. CASE \E lp \in LpTokens, u \in Users, a \in Amounts :
                ExecuteDeposit(lp, u, a) \/ ExecuteWithdraw(lp, u, a)
    BY <1>2, ExecuteDepositKeeps, ExecuteWithdrawKeeps
  <1>3. CASE \E u \in Users, lps \in ClaimLists : ExecuteClaimRewards(u, lps)
    BY <1>3, ExecuteClaimRewardsKeeps
  <1>4. CASE AfterBondClaimed \/ CallbackDeposit \/ CallbackWithdraw
    BY <1>4, AfterBondClaimedKeeps, CallbackDepositKeeps, CallbackWithdrawKeeps
  <1>5. CASE AfterBondChanged \/ CallbackClaimRewards
    BY <1>5, AfterBondChangedKeeps, CallbackClaimRewardsKeeps
  <1>6. CASE GeneratorClaim \/ GeneratorDeposit \/ GeneratorWithdraw
    BY <1>6, GeneratorClaimKeeps, GeneratorDepositKeeps, GeneratorWithdrawKeeps
  <1>7. CASE \E lp \in LpTokens : CheckpointUserBoost(lp)
    BY <1>7, CheckpointKeeps
  <1>8. CASE \E lp \in LpTokens, a \in Amounts : DepositFor(lp, a)
    BY <1>8, DepositForKeeps
  <1>9. CASE \E t \in Tokens : Donate(t)
    BY <1>9, DonateKeeps
  <1>10. CASE Tick \/ Revert \/ SendIncome
    BY <1>10, TickKeeps, RevertKeeps, SendIncomeKeeps
  <1>11. CASE (\E f \in BoostFees : UpdateConfig(f))
                  \/ (\E r \in StakerRates : UpdateParameters(r))
    BY <1>11, UpdatesKeep
  <1>12. QED
    BY <1>1, <1>2, <1>3, <1>4, <1>5, <1>6, <1>7, <1>8, <1>9, <1>10, <1>11 DEF Next

\* At all times the books of the pools, of the users and of the rewards agree,
\* and the messages still to be executed are one of the three kinds that a
\* call leaves; what a failing message would bring back agrees as well.
THEOREM Invariance == Spec => []IInv
  <1>1. IInv /\ [Next]_vars => IInv'
    BY NextKeeps
  <1>2. QED
    BY <1>1, InitHolds, PTL DEF Spec

-----------------------------------------------------------------------------
(* What the contract promises *)

\* All state keeps its type: in particular no subtraction of a handler makes
\* an amount, an index or a share negative (bond.rs, oper.rs).
THEOREM TypeCorrect == Spec => []TypeOK
  <1>1. IInv => TypeOK
    BY DEF IInv, Sound, Accounts, TypeOK
  <1>2. QED
    BY <1>1, Invariance, PTL

\* A pool's total is at all times the sum of its users' shares, also between
\* the messages of a call (callback_deposit, callback_withdraw).
THEOREM SharesAddUp == Spec => []PoolConservation
  <1>1. IInv => PoolConservation
    BY DEF IInv, Sound, Accounts, Shares, PoolConservation
  <1>2. QED
    BY <1>1, Invariance, PTL

\* What users have earned of a token, the fee and the stakers' part never
\* exceed what has been reconciled of it, whatever the generator paid, in
\* whichever order and at whose call (reconcile_claimed_by_others,
\* callback_after_bond_claimed, callback_claim_rewards): no split hands out
\* more than came in, and nothing is paid twice.
THEOREM RewardsAreReconciled == Spec => []ClaimsReconciled
  <1>1. IInv => ClaimsReconciled
    <2> SUFFICES ASSUME IInv, NEW t \in Tokens
                 PROVE  Total([p \in LpTokens \X Users |-> Earned(pools[p[1]], users[p])[t]])
                            + rewards[t].fee + rewards[t].staker_income
                        <= rewards[t].reconciled_amount
      BY DEF ClaimsReconciled
    <2>1. /\ pools \in [LpTokens -> PoolInfo] /\ users \in [LpTokens \X Users -> UserInfo]
          /\ rewards \in [Tokens -> RewardInfo] /\ Known(pools, users)
          /\ Backed(pools, users, rewards, t)
      BY DEF IInv, Sound, Accounts
    <2>2. PICK Q : Q = LpTokens \X Users
      OBVIOUS
    <2>3. PICK f : f = [p \in Q |-> Earned(pools[p[1]], users[p])[t]]
      OBVIOUS
    <2>4. PICK k : k = Claims(pools, users, t)
      OBVIOUS
    <2>5. PICK z : z = [p \in Q |-> 0]
      OBVIOUS
    <2>6. ASSUME NEW q \in Q
          PROVE  f[q] \in Nat /\ k[q] \in Nat /\ SCALE * f[q] <= k[q]
      <3>1. f[q] = Earned(pools[q[1]], users[q])[t] /\ k[q] = Claim(pools, users, q, t)
        BY <2>2, <2>3, <2>4 DEF Claims
      <3>2. /\ Earned(pools[q[1]], users[q])[t] \in Nat
            /\ SCALE * Earned(pools[q[1]], users[q])[t] <= Claim(pools, users, q, t)
            /\ Claim(pools, users, q, t) \in Nat
        BY <2>1, <2>2, EarnedIsClaimed
      <3>3. QED
        BY <3>1, <3>2
    <2>7. f \in [Q -> Nat] /\ k \in [Q -> Nat] /\ z \in [Q -> Nat]
      <3>1. k = [q \in Q |-> k[q]]
        BY <2>2, <2>4 DEF Claims
      <3>2. QED
        BY <2>3, <2>5, <2>6, <3>1
    <2>8. SCALE \in Nat \ {0} /\ 1 \in Nat
      BY DecimalAssumption
    <2>9. IsFiniteSet(Q)
      BY <2>2, Finite
    <2>10. Total(f) \in Nat /\ Total(k) \in Nat /\ Total(z) = 0
      BY <2>5, <2>7, <2>9, TotalType, TotalOfZeros
    <2>11. SCALE * Total(f) <= Total(k)
      <3>1. \A q \in Q : SCALE * f[q] + SCALE * z[q] <= SCALE * z[q] + 1 * k[q]
        <4>1. ASSUME NEW q \in Q
              PROVE  SCALE * f[q] + SCALE * z[q] <= SCALE * z[q] + 1 * k[q]
          <5>1. z[q] = 0 /\ SCALE * z[q] = 0
            BY <2>5, <2>8
          <5>2. SCALE * f[q] \in Nat /\ k[q] \in Nat /\ SCALE * f[q] <= k[q]
            BY <2>6, <2>8
          <5>3. QED
            BY <5>1, <5>2
        <4>2. QED
          BY <4>1
      <3>2. SCALE * Total(f) + SCALE * Total(z) <= SCALE * Total(z) + 1 * Total(k)
        BY <2>7, <2>8, <2>9, <3>1, TotalsRelated
      <3>3. SCALE * Total(f) \in Nat /\ SCALE * Total(z) = 0
        BY <2>8, <2>10
      <3>4. QED
        BY <2>10, <3>2, <3>3
    <2>12. PICK F, a, b, c : /\ F = Total(f) /\ a = rewards[t].fee
                             /\ b = rewards[t].staker_income /\ c = rewards[t].reconciled_amount
      OBVIOUS
    <2>13. F \in Nat /\ a \in Nat /\ b \in Nat /\ c \in Nat
      <3>1. rewards[t] \in RewardInfo
        BY <2>1
      <3>2. QED
        BY <2>10, <2>12, <3>1 DEF RewardInfo
    <2>14. SCALE * F + SCALE * (a + b) <= SCALE * c
      <3>1. Total(k) + SCALE * (a + b) <= SCALE * c
        BY <2>1, <2>4, <2>12 DEF Backed
      <3>2. SCALE * F \in Nat /\ SCALE * (a + b) \in Nat /\ SCALE * c \in Nat
        BY <2>8, <2>13
      <3>3. QED
        BY <2>10, <2>11, <2>12, <3>1, <3>2
    <2>15. F + a + b <= c
      <3>1. (F + a + b) * SCALE <= c * SCALE
        <4>1. (F + a + b) * SCALE = SCALE * F + SCALE * (a + b) /\ c * SCALE = SCALE * c
          BY <2>8, <2>13
        <4>2. QED
          BY <2>14, <4>1
      <3>2. F + a + b \in Int /\ c \in Int
        BY <2>13
      <3>3. QED
        BY <2>8, <3>1, <3>2, TimesCancel
    <2>16. QED
      BY <2>2, <2>3, <2>12, <2>15
  <1>2. QED
    BY <1>1, Invariance, PTL

-----------------------------------------------------------------------------
(* How every call begins *)

LEMMA CallsBegin ==
    ASSUME IInv, NEW lp \in LpTokens, NEW u \in Users, NEW a \in Amounts,
           ExecuteDeposit(lp, u, a) \/ ExecuteWithdraw(lp, u, a)
    PROVE  \E lps, q : lps \in Seq(LpTokens) /\ Begin(lps, q) /\ Opens(q) /\ Dated(q)
  <1>1. a \in Nat /\ held \in Indexes
    BY BondAssumption DEF IInv, Sound
  <1>2. PICK one, none : one = <<lp>> /\ none = << >>
    OBVIOUS
  <1>3. one \in Seq(LpTokens) /\ none \in Seq(LpTokens)
    BY <1>2
  <1>4. CASE ExecuteDeposit(lp, u, a)
    <2>1. PICK m : m = Call("Deposit", lp, u, a)
      OBVIOUS
    <2>2. Asks(m) /\ m.lp = lp
      <3>1. a > 0
        BY <1>4 DEF ExecuteDeposit
      <3>2. QED
        BY <1>1, <2>1, <3>1, CallAsks
    <2>3. CASE deposits[lp].amount > 0
      <3>1. PICK q : q = ClaimMessages(lp) \o <<m>>
        OBVIOUS
      <3>2. Opens(q) /\ Dated(q)
        BY <1>1, <2>2, <3>1, ClaimFirst
      <3>3. Begin(one, q)
        BY <1>2, <1>4, <2>1, <2>3, <3>1 DEF ExecuteDeposit
      <3>4. QED
        BY <1>3, <3>2, <3>3
    <2>4. CASE ~(deposits[lp].amount > 0)
      <3>1. PICK q : q = << >> \o <<m>>
        OBVIOUS
      <3>2. Opens(q) /\ Dated(q)
        BY <2>2, <3>1, OneMessage
      <3>3. Begin(none, q)
        BY <1>2, <1>4, <2>1, <2>4, <3>1 DEF ExecuteDeposit
      <3>4. QED
        BY <1>3, <3>2, <3>3
    <2>5. QED
      BY <2>3, <2>4
  <1>5. CASE ExecuteWithdraw(lp, u, a)
    <2>1. PICK m : m = Call("Withdraw", lp, u, a)
      OBVIOUS
    <2>2. Asks(m) /\ m.lp = lp
      BY <1>1, <2>1, CallAsks
    <2>3. PICK q : q = ClaimMessages(lp) \o <<m>>
      OBVIOUS
    <2>4. Opens(q) /\ Dated(q)
      BY <1>1, <2>2, <2>3, ClaimFirst
    <2>5. Begin(one, q)
      BY <1>2, <1>5, <2>1, <2>3 DEF ExecuteWithdraw
    <2>6. QED
      BY <1>3, <2>4, <2>5
  <1>6. QED
    BY <1>4, <1>5

LEMMA ClaimBegins ==
    ASSUME IInv, NEW u \in Users, NEW lps \in ClaimLists, ExecuteClaimRewards(u, lps)
    PROVE  \E q : Begin(lps, q) /\ Opens(q) /\ (Len(lps) = 1 => Dated(q))
  <1>1. lps \in Seq(LpTokens) /\ lps # << >> /\ held \in Indexes
    BY BondAssumption DEF ExecuteClaimRewards, IInv, Sound
  <1>2. PICK q : q = FlattenSeq(ClaimRow(u, lps))
    OBVIOUS
  <1>3. ClaimList(q) /\ (Len(lps) = 1 => Dated(q))
    BY <1>1, <1>2, ClaimsInOrder
  <1>4. Opens(q)
    BY <1>3 DEF ClaimList
  <1>5. Begin(lps, q)
    BY <1>2 DEF ExecuteClaimRewards, ClaimRow
  <1>6. QED
    BY <1>3, <1>4, <1>5

-----------------------------------------------------------------------------
(* What has been credited when the shares change: a third invariant, which *)
(* says of a call to deposit or withdraw how far its crediting is.         *)

\* What a transaction that began in `o' at height `now' has found of claims
\* by others.
Found(o, now, lp, t) ==
    IF o.pools[lp].last_reconcile = now THEN 0
    ELSE AtMost(Minus(o.held[t], o.rewards[t].reconciled_amount),
                Paid(o.pools[lp], o.deposits[lp], t))

\* Pool and book have been credited with `found' and with `came' of a token.
Credited(pool, book, old, was, t, found, came) ==
    \E x, f, s \in Nat :
        /\ pool.reward_indexes[t] = old.reward_indexes[t] + x
        /\ book.reconciled_amount = was.reconciled_amount + found + came
        /\ book.fee = was.fee + f
        /\ book.staker_income = was.staker_income + s
        /\ x * pool.total_bond_share + SCALE * (f + s) <= SCALE * (found + came)
        /\ SCALE * (found + came)
              <= x * pool.total_bond_share + SCALE * (f + s)
                    + Lost(pool.total_bond_share, found) + Lost(pool.total_bond_share, came)

\* The messages q, which end in a change of shares, are left of a call that
\* began in o: its claim is paid before the last of them, and credited.
Crediting(q, p, r, h, o, now) ==
    LET n  == Len(q)
        lp == q[n].lp
    IN  q[n].type \in ChangeTypes /\ p[lp].total_bond_share > 0 =>
            /\ n <= 3
            /\ n > 1 => q[n - 1].prev = o.held
            /\ \A t \in Tokens :
                  /\ o.held[t] <= h[t]
                  /\ Found(o, now, lp, t) \in Nat
                  /\ Credited(p[lp], r[t], o.pools[lp], o.rewards[t], t, Found(o, now, lp, t),
                              IF n = 1 THEN h[t] - o.held[t] ELSE 0)

CInv == queue # << >> => Crediting(queue, pools, rewards, held, undo, height)

\* A reconciliation of one pool.
LEMMA FoldOfOne ==
    ASSUME NEW b, NEW lp \in LpTokens, NEW lps, lps = <<lp>>
    PROVE  FoldLeft(ReconcileClaimedByOthers, b, lps) = ReconcileClaimedByOthers(b, lp)
  <1>1. lps \in Seq(LpTokens) /\ Len(lps) = 1 /\ lps[1] = lp
    OBVIOUS
  <1>2. PICK g : /\ IsFold(g, b, lps, Len(lps))
                 /\ FoldLeft(ReconcileClaimedByOthers, b, lps) = g[1 .. Len(lps)]
    BY <1>1, FoldOf
  <1>3. g = [s \in SUBSET (1 .. 1) |-> Step(g, b, lps, s)]
    BY <1>1, <1>2 DEF IsFold
  <1>4. {} \in SUBSET (1 .. 1) /\ {1} \in SUBSET (1 .. 1) /\ 1 .. 1 = {1} /\ {1} # {} /\ 1 \in Nat
    OBVIOUS
  <1>5. g[{}] = b
    <2>1. g[{}] = Step(g, b, lps, {})
      BY <1>3, <1>4
    <2>2. QED
      BY <2>1 DEF Step
  <1>6. Max({1}) = 1
    <2>1. Max({1}) \in {1}
      BY <1>4, MaxIsMember
    <2>2. QED
      BY <2>1
  <1>7. g[{1}] = ReconcileClaimedByOthers(g[{1} \ {Max({1})}], lps[Max({1})])
    <2>1. g[{1}] = Step(g, b, lps, {1})
      BY <1>3, <1>4
    <2>2. QED
      BY <1>4, <2>1 DEF Step
  <1>8. {1} \ {1} = {}
    OBVIOUS
  <1>9. QED
    BY <1>1, <1>2, <1>4, <1>5, <1>6, <1>7, <1>8

LEMMA NothingCredited ==
    ASSUME NEW pool \in PoolInfo, NEW was \in RewardInfo, NEW t \in Tokens
    PROVE  Credited(pool, was, pool, was, t, 0, 0)
  <1>1. PICK i, b, c, f, s : /\ i = pool.reward_indexes[t] /\ b = pool.total_bond_share
                             /\ c = was.reconciled_amount /\ f = was.fee /\ s = was.staker_income
    OBVIOUS
  <1>2. i \in Nat /\ b \in Nat /\ c \in Nat /\ f \in Nat /\ s \in Nat /\ SCALE \in Nat
    BY <1>1, DecimalAssumption DEF PoolInfo, Indexes, RewardInfo
  <1>3. /\ i = i + 0 /\ c = c + 0 + 0 /\ f = f + 0 /\ s = s + 0
        /\ 0 * b + SCALE * (0 + 0) <= SCALE * (0 + 0)
        /\ SCALE * (0 + 0) <= 0 * b + SCALE * (0 + 0) + Lost(b, 0) + Lost(b, 0)
    BY <1>2 DEF Lost
  <1>4. 0 \in Nat
    OBVIOUS
  <1>5. QED
    BY <1>1, <1>3, <1>4 DEF Credited

\* What the claims of others brought is credited first.
LEMMA FoundIsCredited ==
    ASSUME boost_fee \in 0 .. SCALE, staker_rate \in 0 .. SCALE,
           NEW old \in PoolInfo, NEW d \in Deposits, NEW net \in Indexes,
           Creditable(old, d, net), NEW r \in [Tokens -> RewardInfo], NEW t \in Tokens,
           NEW new, new.reward_indexes = Credit(old, d, net),
           new.total_bond_share = old.total_bond_share
    PROVE  Credited(new, Book(r, d, net)[t], old, r[t], t, net[t], 0)
  <1>1. PICK x, f, s : Splits(old, d, net, r, t, x, f, s)
    BY CreditSplits
  <1>2. PICK b, n, w, c : /\ b = old.total_bond_share /\ n = net[t] /\ w = Book(r, d, net)[t]
                          /\ c = r[t].reconciled_amount
    OBVIOUS
  <1>3. b \in Nat /\ n \in Nat /\ c \in Nat /\ SCALE \in Nat
    BY <1>2, DecimalAssumption DEF PoolInfo, Indexes, RewardInfo
  <1>4. /\ x \in Nat /\ f \in Nat /\ s \in Nat
        /\ new.reward_indexes[t] = old.reward_indexes[t] + x
        /\ w.reconciled_amount = c + n
        /\ w.fee = r[t].fee + f /\ w.staker_income = r[t].staker_income + s
        /\ x * b + SCALE * (f + s) <= SCALE * n
        /\ SCALE * n <= x * b + SCALE * (f + s) + Lost(b, n)
    BY <1>1, <1>2 DEF Splits
  <1>5. c + n = c + n + 0 /\ n + 0 = n /\ Lost(b, 0) = 0 /\ Lost(b, n) \in Int
        /\ x * b + SCALE * (f + s) \in Nat
    BY <1>3, <1>4 DEF Lost
  <1>6. /\ w.reconciled_amount = c + n + 0
        /\ x * b + SCALE * (f + s) <= SCALE * (n + 0)
        /\ SCALE * (n + 0) <= x * b + SCALE * (f + s) + Lost(b, n) + Lost(b, 0)
    BY <1>3, <1>4, <1>5
  <1>7. QED
    BY <1>2, <1>4, <1>6 DEF Credited

\* Then what the claim of the call brought.
LEMMA ClaimIsCredited ==
    ASSUME boost_fee \in 0 .. SCALE, staker_rate \in 0 .. SCALE,
           NEW mid \in PoolInfo, NEW d \in Deposits, NEW net \in Indexes,
           Creditable(mid, d, net), NEW r \in [Tokens -> RewardInfo], NEW t \in Tokens,
           NEW old \in PoolInfo, NEW was \in RewardInfo, NEW found \in Nat,
           Credited(mid, r[t], old, was, t, found, 0),
           NEW new, new.reward_indexes = Credit(mid, d, net),
           new.total_bond_share = mid.total_bond_share
    PROVE  Credited(new, Book(r, d, net)[t], old, was, t, found, net[t])
  <1>1. PICK y, g, v : Splits(mid, d, net, r, t, y, g, v)
    BY CreditSplits
  <1>2. PICK b, n, w, c, i : /\ b = mid.total_bond_share /\ n = net[t] /\ w = Book(r, d, net)[t]
                             /\ c = was.reconciled_amount /\ i = old.reward_indexes[t]
    OBVIOUS
  <1>3. /\ b \in Nat /\ n \in Nat /\ c \in Nat /\ i \in Nat /\ SCALE \in Nat
        /\ was.fee \in Nat /\ was.staker_income \in Nat
    BY <1>2, DecimalAssumption DEF PoolInfo, Indexes, RewardInfo
  <1>4. PICK x \in Nat, f \in Nat, s \in Nat :
            /\ mid.reward_indexes[t] = i + x
            /\ r[t].reconciled_amount = c + found + 0
            /\ r[t].fee = was.fee + f /\ r[t].staker_income = was.staker_income + s
            /\ x * b + SCALE * (f + s) <= SCALE * (found + 0)
            /\ SCALE * (found + 0) <= x * b + SCALE * (f + s) + Lost(b, found) + Lost(b, 0)
    BY <1>2 DEF Credited
  <1>5. /\ y \in Nat /\ g \in Nat /\ v \in Nat
        /\ new.reward_indexes[t] = mid.reward_indexes[t] + y
        /\ w.reconciled_amount = r[t].reconciled_amount + n
        /\ w.fee = r[t].fee + g /\ w.staker_income = r[t].staker_income + v
        /\ y * b + SCALE * (g + v) <= SCALE * n
        /\ SCALE * n <= y * b + SCALE * (g + v) + Lost(b, n)
    BY <1>1, <1>2 DEF Splits
  <1>6. PICK X, F, S : X = x + y /\ F = f + g /\ S = s + v
    OBVIOUS
  <1>7. /\ X \in Nat /\ F \in Nat /\ S \in Nat
        /\ new.reward_indexes[t] = i + X
        /\ w.reconciled_amount = c + found + n
        /\ w.fee = was.fee + F /\ w.staker_income = was.staker_income + S
    BY <1>3, <1>4, <1>5, <1>6
  <1>8. /\ Lost(b, 0) = 0 /\ Lost(b, n) \in Int /\ Lost(b, found) \in Int
        /\ x * b \in Nat /\ y * b \in Nat /\ SCALE * (f + s) \in Nat /\ SCALE * (g + v) \in Nat
        /\ SCALE * found \in Nat /\ SCALE * n \in Nat /\ found + 0 = found
    BY <1>3, <1>4, <1>5 DEF Lost
  <1>9. /\ X * b = x * b + y * b
        /\ SCALE * (F + S) = SCALE * (f + s) + SCALE * (g + v)
        /\ SCALE * (found + n) = SCALE * found + SCALE * n
    BY <1>3, <1>4, <1>5, <1>6
  <1>10. /\ X * b + SCALE * (F + S) <= SCALE * (found + n)
         /\ SCALE * (found + n) <= X * b + SCALE * (F + S) + Lost(b, found) + Lost(b, n)
    BY <1>4, <1>5, <1>8, <1>9
  <1>11. QED
    BY <1>2, <1>7, <1>10 DEF Credited

\* A call to change the shares of a pool begins: what others claimed for it
\* is found and credited.
LEMMA ChangeCallCredits ==
    ASSUME IInv, NEW m, Asks(m), NEW q, Closes(q, m), NEW lps, lps = <<m.lp>>, Begin(lps, q)
    PROVE  CInv'
  <1>1. PICK lp, n : lp = m.lp /\ n = Len(q)
    OBVIOUS
  <1>2. m \in Message /\ lp \in LpTokens /\ lps \in Seq(LpTokens)
    BY <1>1, AsksIsProper
  <1>3. n \in 1 .. 3 /\ q[n] = m /\ (n > 1 => q[n - 1].prev = held)
    BY <1>1 DEF Closes
  <1>4. /\ boost_fee \in 0 .. SCALE /\ staker_rate \in 0 .. SCALE
        /\ held \in Indexes /\ deposits \in [LpTokens -> Deposits]
        /\ Accounts(pools, users, rewards) /\ pools \in [LpTokens -> PoolInfo]
        /\ rewards \in [Tokens -> RewardInfo]
    BY DEF IInv, Sound, Accounts
  <1>5. PICK pool, d : pool = pools[lp] /\ d = deposits[lp]
    OBVIOUS
  <1>6. pool \in PoolInfo /\ d \in Deposits
    BY <1>2, <1>4, <1>5
  <1>7. PICK o : o = State
    OBVIOUS
  <1>8. o.pools = pools /\ o.rewards = rewards /\ o.held = held /\ o.deposits = deposits
    BY <1>7 DEF State
  <1>9. PICK b : b = [pools |-> pools, rewards |-> rewards, ok |-> TRUE]
    OBVIOUS
  <1>10. PICK s : s = ReconcileClaimedByOthers(b, lp)
    OBVIOUS
  <1>11. /\ queue' = q /\ undo' = o /\ held' = held /\ height' = height
         /\ s.ok /\ pools' = s.pools /\ rewards' = s.rewards
    <2>1. s = FoldLeft(ReconcileClaimedByOthers, b, lps)
      BY <1>1, <1>2, <1>10, FoldOfOne
    <2>2. QED
      BY <1>7, <1>9, <2>1 DEF Begin
  <1>12. b.pools[lp] = pool /\ b.rewards = rewards /\ b.pools = pools
    BY <1>5, <1>9
  <1>13. PICK net : net = [t \in Tokens |-> Surplus(rewards, pool, d, t)]
    OBVIOUS
  <1>14. ASSUME pool.total_bond_share > 0, NEW t \in Tokens
         PROVE  /\ Found(o, height, lp, t) \in Nat
                /\ Credited(s.pools[lp], s.rewards[t], pool, rewards[t], t,
                            Found(o, height, lp, t), 0)
    <2>1. pool.total_bond_share # 0
      BY <1>6, <1>14 DEF PoolInfo
    <2>2. CASE ~NeedsClaim(pool)
      <3>1. s = b
        BY <1>10, <1>12, <2>2 DEF ReconcileClaimedByOthers
      <3>2. Found(o, height, lp, t) = 0
        BY <1>5, <1>8, <2>2 DEF NeedsClaim, Found
      <3>3. rewards[t] \in RewardInfo
        BY <1>4
      <3>4. Credited(pool, rewards[t], pool, rewards[t], t, 0, 0)
        BY <1>6, <3>3, NothingCredited
      <3>5. s.pools[lp] = pool /\ s.rewards[t] = rewards[t]
        BY <1>12, <3>1
      <3>6. QED
        BY <3>2, <3>4, <3>5
    <2>3. CASE NeedsClaim(pool)
      <3>1. /\ s.pools = [pools EXCEPT ![lp] = Synced(pool, Credit(pool, d, net), d)]
            /\ s.rewards = Book(rewards, d, net)
            /\ s.ok = (b.ok /\ Creditable(pool, d, net)
                         /\ pool.prev_reward_user_index <= d.reward_user_index)
        BY <1>5, <1>10, <1>12, <1>13, <2>1, <2>3 DEF ReconcileClaimedByOthers
      <3>2. Creditable(pool, d, net) /\ pool.prev_reward_user_index <= d.reward_user_index
        BY <1>11, <3>1
      <3>3. \A k \in Tokens : Surplus(rewards, pool, d, k) \in Nat
        BY <1>4, <1>6, <3>2, SurplusBounds
      <3>4. net \in Indexes
        BY <1>13, <3>3 DEF Indexes
      <3>5. Found(o, height, lp, t) = net[t]
        <4>1. pool.last_reconcile # height
          BY <2>1, <2>3 DEF NeedsClaim
        <4>2. o.pools[lp] = pool /\ o.deposits[lp] = d
          BY <1>5, <1>8
        <4>3. Found(o, height, lp, t) = AtMost(Minus(held[t], rewards[t].reconciled_amount),
                                               Paid(pool, d, t))
          BY <1>8, <4>1, <4>2 DEF Found
        <4>4. net[t] = Surplus(rewards, pool, d, t)
          BY <1>13
        <4>5. QED
          BY <4>3, <4>4 DEF Surplus
      <3>6. PICK new : new = Synced(pool, Credit(pool, d, net), d)
        OBVIOUS
      <3>7. /\ new.reward_indexes = Credit(pool, d, net)
            /\ new.total_bond_share = pool.total_bond_share
            /\ s.pools[lp] = new
        BY <1>2, <1>4, <1>6, <3>1, <3>6 DEF Synced, PoolInfo
      <3>8. Credited(new, Book(rewards, d, net)[t], pool, rewards[t], t, net[t], 0)
        BY <1>4, <1>6, <3>2, <3>4, <3>7, FoundIsCredited
      <3>9. net[t] \in Nat
        BY <3>4 DEF Indexes
      <3>10. QED
        BY <3>1, <3>5, <3>7, <3>8, <3>9
    <2>4. QED
      BY <2>2, <2>3
  <1>15. pools'[lp].total_bond_share = pool.total_bond_share
    BY <1>2, <1>5, BeginLeaves
  <1>16. \A t \in Tokens : held[t] \in Nat /\ held[t] <= held[t] /\ held[t] - held[t] = 0
    BY <1>4 DEF Indexes
  <1>17. Crediting(q, s.pools, s.rewards, held, o, height)
    <2> SUFFICES ASSUME s.pools[lp].total_bond_share > 0
                 PROVE  /\ n <= 3
                        /\ n > 1 => q[n - 1].prev = o.held
                        /\ \A t \in Tokens :
                              /\ o.held[t] <= held[t]
                              /\ Found(o, height, lp, t) \in Nat
                              /\ Credited(s.pools[lp], s.rewards[t], o.pools[lp], o.rewards[t], t,
                                          Found(o, height, lp, t),
                                          IF n = 1 THEN held[t] - o.held[t] ELSE 0)
      BY <1>1, <1>3 DEF Crediting
    <2>1. pool.total_bond_share > 0
      BY <1>11, <1>15
    <2>2. ASSUME NEW t \in Tokens
          PROVE  /\ o.held[t] <= held[t]
                 /\ Found(o, height, lp, t) \in Nat
                 /\ Credited(s.pools[lp], s.rewards[t], o.pools[lp], o.rewards[t], t,
                             Found(o, height, lp, t),
                             IF n = 1 THEN held[t] - o.held[t] ELSE 0)
      <3>1. (IF n = 1 THEN held[t] - o.held[t] ELSE 0) = 0 /\ o.held[t] <= held[t]
        BY <1>8, <1>16
      <3>2. o.pools[lp] = pool /\ o.rewards[t] = rewards[t]
        BY <1>5, <1>8
      <3>3. QED
        BY <1>14, <2>1, <3>1, <3>2
    <2>3. n <= 3 /\ (n > 1 => q[n - 1].prev = o.held)
      BY <1>3, <1>8
    <2>4. QED
      BY <2>2, <2>3
  <1>18. QED
    BY <1>11, <1>17 DEF CInv

\* A queue that does not end in a change of shares.
LEMMA NoChangeCredits ==
    ASSUME queue' # << >> => queue'[Len(queue')].type \notin ChangeTypes
    PROVE  CInv'
  BY DEF CInv, Crediting

LEMMA CallsCredit ==
    ASSUME IInv, NEW lp \in LpTokens, NEW u \in Users, NEW a \in Amounts,
           ExecuteDeposit(lp, u, a) \/ ExecuteWithdraw(lp, u, a)
    PROVE  CInv'
  <1>1. a \in Nat /\ held \in Indexes
    BY BondAssumption DEF IInv, Sound
  <1>2. PICK type : /\ type = "Deposit" \/ type = "Withdraw"
                    /\ type = "Deposit" => ExecuteDeposit(lp, u, a)
                    /\ type = "Withdraw" => ExecuteWithdraw(lp, u, a)
    OBVIOUS
  <1>3. PICK m : m = Call(type, lp, u, a)
    OBVIOUS
  <1>4. Asks(m) /\ m.lp = lp /\ m.type = type
    <2>1. type = "Deposit" => a > 0
      BY <1>2 DEF ExecuteDeposit
    <2>2. QED
      BY <1>1, <1>2, <1>3, <2>1, CallAsks
  <1>5. CASE type = "Withdraw" \/ deposits[lp].amount > 0
    <2>1. PICK q, lps : q = ClaimMessages(lp) \o <<m>> /\ lps = <<lp>>
      OBVIOUS
    <2>2. Begin(lps, q)
      BY <1>2, <1>3, <1>5, <2>1 DEF ExecuteDeposit, ExecuteWithdraw
    <2>3. Closes(q, m)
      BY <1>1, <1>4, <2>1, ClaimFirst
    <2>4. QED
      BY <1>4, <2>1, <2>2, <2>3, ChangeCallCredits
  <1>6. CASE type = "Deposit" /\ ~(deposits[lp].amount > 0)
    <2>1. PICK q, lps : q = << >> \o <<m>> /\ lps = << >>
      OBVIOUS
    <2>2. Begin(lps, q)
      BY <1>2, <1>3, <1>6, <2>1 DEF ExecuteDeposit
    <2>3. Len(q) = 1 /\ q[1] = m
      BY <1>4, <2>1, OneMessage
    <2>4. lps \in Seq(LpTokens)
      BY <2>1
    <2>5. pools'[lp].total_bond_share = pools[lp].total_bond_share
      BY <2>2, <2>4, BeginLeaves
    <2>6. ~(pools[lp].total_bond_share > 0)
      <3>1. Calm
        BY <2>2, StageOf DEF Begin
      <3>2. QED
        BY <1>6, <3>1 DEF Calm, Rested
    <2>7. queue' = q
      BY <2>2 DEF Begin
    <2>8. queue'[Len(queue')].lp = lp
      BY <1>4, <2>3, <2>7
    <2>9. QED
      BY <2>5, <2>6, <2>8 DEF CInv, Crediting
  <1>7. QED
    BY <1>2, <1>5, <1>6

LEMMA ClaimsCredit ==
    ASSUME IInv, NEW u \in Users, NEW lps \in ClaimLists, ExecuteClaimRewards(u, lps)
    PROVE  CInv'
  <1>1. lps \in Seq(LpTokens) /\ lps # << >> /\ held \in Indexes
    BY BondAssumption DEF ExecuteClaimRewards, IInv, Sound
  <1>2. PICK q : q = FlattenSeq(ClaimRow(u, lps))
    OBVIOUS
  <1>3. ClaimList(q)
    BY <1>1, <1>2, ClaimsInOrder
  <1>4. queue' = q
    BY <1>2 DEF ExecuteClaimRewards, ClaimRow, Begin
  <1>5. q \in Seq(Message) /\ q # << >> /\ \A i \in 1 .. Len(q) : q[i].type \in ClaimTypes
    BY <1>3 DEF ClaimList, Opens
  <1>6. Len(q) \in Nat \ {0}
    BY <1>5, EmptySeq, LenProperties
  <1>7. Len(q) \in 1 .. Len(q)
    BY <1>6
  <1>8. q[Len(q)].type \notin ChangeTypes
    BY <1>5, <1>7 DEF ClaimTypes, ChangeTypes
  <1>9. QED
    BY <1>4, <1>8, NoChangeCredits

\* What is left of the call, one message later.
LEMMA CallShortens ==
    ASSUME NEW q \in Seq(Message), q # << >>, Listed(q), NEW t, t = Tail(q), t # << >>,
           t[Len(t)].type \in ChangeTypes
    PROVE  /\ Len(q) \in Nat /\ Len(q) > 1 /\ Len(t) = Len(q) - 1
           /\ t[Len(t)] = q[Len(q)]
           /\ Len(t) > 1 => t[Len(t) - 1] = q[Len(q) - 1]
           /\ Len(q) = 2 => Head(q).type = "AfterBondClaimed" /\ Head(q).lp = q[2].lp
           /\ Len(q) = 3 => Head(q).type = "GeneratorClaim"
           /\ Head(q) = q[1]
  <1>1. PICK n : n = Len(q)
    OBVIOUS
  <1>2. /\ n \in Nat /\ n > 1 /\ Len(t) = n - 1 /\ Head(q) = q[1]
        /\ \A i \in 1 .. n - 1 : t[i] = q[i + 1]
    BY <1>1, TailOf
  <1>3. t[n - 1] = q[n]
    <2>1. n - 1 \in 1 .. n - 1 /\ (n - 1) + 1 = n
      BY <1>2
    <2>2. QED
      BY <1>2, <2>1
  <1>4. ASSUME n - 1 > 1 PROVE t[(n - 1) - 1] = q[n - 1]
    <2>1. (n - 1) - 1 \in 1 .. n - 1 /\ ((n - 1) - 1) + 1 = n - 1
      BY <1>2, <1>4
    <2>2. QED
      BY <1>2, <2>1
  <1>5. q[n].type \in ChangeTypes /\ n \in 1 .. n
    BY <1>2, <1>3
  <1>6. q[n - 1].type = "AfterBondClaimed" /\ q[n - 1].lp = q[n].lp
    BY <1>1, <1>2, <1>5 DEF Listed, ChangesLast
  <1>7. ASSUME n = 2 PROVE Head(q).type = "AfterBondClaimed" /\ Head(q).lp = q[2].lp
    <2>1. n - 1 = 1
      BY <1>7
    <2>2. QED
      BY <1>2, <1>6, <1>7, <2>1
  <1>8. ASSUME n = 3 PROVE Head(q).type = "GeneratorClaim"
    <2>1. n - 1 = 2 /\ 2 \in 2 .. n /\ 2 - 1 = 1
      BY <1>8
    <2>2. q[2].type = "AfterBondClaimed"
      BY <1>6, <2>1
    <2>3. q[1].type = "GeneratorClaim"
      BY <1>1, <2>1, <2>2 DEF Listed, Paired
    <2>4. QED
      BY <1>2, <2>3
  <1>9. QED
    BY <1>1, <1>2, <1>3, <1>4, <1>7, <1>8

\* The claim is paid.
LEMMA ClaimPaysCall ==
    ASSUME IInv, CInv, GeneratorClaim
    PROVE  CInv'
  <1>1. PICK q, t, g, o : q = queue /\ t = queue' /\ g = held' /\ o = undo
    OBVIOUS
  <1>2. /\ q \in Seq(Message) /\ q # << >> /\ Listed(q) /\ t = Tail(q) /\ Undone
        /\ Head(q) \in Message /\ Head(q).type = "GeneratorClaim"
    <2>1. Head(queue).type = "GeneratorClaim" /\ queue # << >> /\ queue' = Tail(queue)
      BY DEF GeneratorClaim, Executes, Proceed
    <2>2. Calm /\ Undone /\ Head(queue) \in Message
      BY <2>1, StageOf DEF ClaimTypes
    <2>3. QED
      BY <1>1, <2>1, <2>2 DEF Calm, Listed, IInv, Sound
  <1>3. PICK lp, a : lp = Head(queue).lp /\ a = deposits[lp].amount
    OBVIOUS
  <1>4. /\ lp \in LpTokens /\ a \in Nat
        /\ held \in Indexes /\ emitted \in [LpTokens -> Indexes]
        /\ deposits \in [LpTokens -> Deposits]
        /\ \A l \in LpTokens : Recorded(deposits, emitted, l)
    BY <1>1, <1>2, <1>3 DEF Message, IInv, Sound, Deposits
  <1>5. Settle(lp, a)
    BY <1>3 DEF GeneratorClaim
  <1>6. g \in Indexes /\ \A k \in Tokens : held[k] <= g[k]
    BY <1>1, <1>4, <1>5, SettleLeaves
  <1>7. pools' = pools /\ rewards' = rewards /\ height' = height
    BY DEF GeneratorClaim, bond
  <1>8. ASSUME t # << >>
        PROVE  Crediting(t, pools, rewards, g, o, height)
    <2> SUFFICES ASSUME t[Len(t)].type \in ChangeTypes,
                        pools[t[Len(t)].lp].total_bond_share > 0
                 PROVE  Crediting(t, pools, rewards, g, o, height)
      BY DEF Crediting
    <2>1. PICK n, l : n = Len(q) /\ l = t[Len(t)].lp
      OBVIOUS
    <2>2. /\ n \in Nat /\ n > 1 /\ Len(t) = n - 1 /\ t[n - 1] = q[n]
          /\ n - 1 > 1 => t[(n - 1) - 1] = q[n - 1]
          /\ n = 2 => Head(q).type = "AfterBondClaimed"
      BY <1>2, <1>8, <2>1, CallShortens
    <2>3. Crediting(q, pools, rewards, held, o, height)
      BY <1>1, <1>2 DEF CInv
    <2>4. /\ n <= 3 /\ q[n - 1].prev = o.held /\ n # 1
          /\ \A k \in Tokens :
                /\ o.held[k] <= held[k]
                /\ Found(o, height, l, k) \in Nat
                /\ Credited(pools[l], rewards[k], o.pools[l], o.rewards[k], k,
                            Found(o, height, l, k), 0)
      BY <2>1, <2>2, <2>3 DEF Crediting
    <2>5. n = 3
      BY <1>2, <2>2, <2>4
    <2>6. Len(t) = 2 /\ t[2] = q[3] /\ t[1] = q[2] /\ q[2].prev = o.held
      BY <2>2, <2>4, <2>5
    <2>7. o.held \in Indexes
      BY <1>1, <1>2 DEF Undone
    <2>8. \A k \in Tokens : o.held[k] <= g[k]
      <3>1. ASSUME NEW k \in Tokens PROVE o.held[k] <= g[k]
        <4>1. /\ o.held[k] \in Nat /\ held[k] \in Nat /\ g[k] \in Nat
              /\ o.held[k] <= held[k] /\ held[k] <= g[k]
          BY <1>4, <1>6, <2>4, <2>7 DEF Indexes
        <4>2. QED
          BY <4>1
      <3>2. QED
        BY <3>1
    <2>9. 2 <= 3 /\ 2 - 1 = 1 /\ 2 # 1
      OBVIOUS
    <2>10. QED
      BY <2>1, <2>4, <2>6, <2>8, <2>9 DEF Crediting
  <1>9. queue' # << >> => undo' = o
    BY <1>1 DEF GeneratorClaim, Proceed
  <1>10. QED
    BY <1>1, <1>7, <1>8, <1>9 DEF CInv

\* What it brought is credited.
LEMMA ClaimedCredits ==
    ASSUME IInv, CInv, AfterBondClaimed
    PROVE  CInv'
  <1>1. PICK q, t, m, d, o, net : /\ q = queue /\ t = queue' /\ m = Head(queue) /\ o = undo
                                  /\ d = deposits[m.lp] /\ net = Claimed(m)
    OBVIOUS
  <1>2. /\ q \in Seq(Message) /\ q # << >> /\ Listed(q) /\ t = Tail(q) /\ Undone
        /\ m = Head(q) /\ m \in Message /\ m.type = "AfterBondClaimed"
    <2>1. Head(queue).type = "AfterBondClaimed" /\ queue # << >> /\ queue' = Tail(queue)
      BY DEF AfterBondClaimed, Executes, Proceed
    <2>2. Calm /\ Undone /\ Head(queue) \in Message
      BY <2>1, StageOf DEF ClaimTypes
    <2>3. QED
      BY <1>1, <2>1, <2>2 DEF Calm, Listed, IInv, Sound
  <1>3. PICK lp : lp = m.lp
    OBVIOUS
  <1>4. PICK mid, new : /\ mid = pools[lp]
                        /\ new = [Synced(mid, Credit(mid, d, net), d)
                                     EXCEPT !.last_reconcile = height]
    OBVIOUS
  <1>5. /\ \A k \in Tokens : m.prev[k] <= held[k]
        /\ Creditable(mid, d, net)
        /\ pools' = [pools EXCEPT ![lp] = new]
        /\ rewards' = Book(rewards, d, net)
        /\ held' = held /\ height' = height
        /\ t # << >> => undo' = o
    BY <1>1, <1>3, <1>4 DEF AfterBondClaimed, Proceed
  <1>6. /\ lp \in LpTokens /\ held \in Indexes /\ d \in Deposits
        /\ boost_fee \in 0 .. SCALE /\ staker_rate \in 0 .. SCALE
        /\ pools \in [LpTokens -> PoolInfo] /\ mid \in PoolInfo
        /\ rewards \in [Tokens -> RewardInfo]
    BY <1>1, <1>2, <1>3, <1>4 DEF Message, IInv, Sound, Accounts
  <1>7. net \in Indexes /\ \A k \in Tokens : net[k] = held[k] - m.prev[k]
    <2>1. m.prev \in Indexes
      BY <1>2 DEF Message
    <2>2. \A k \in Tokens : held[k] \in Nat /\ m.prev[k] \in Nat
      BY <1>6, <2>1 DEF Indexes
    <2>3. net = [k \in Tokens |-> held[k] - m.prev[k]]
      BY <1>1 DEF Claimed
    <2>4. \A k \in Tokens : held[k] - m.prev[k] \in Nat
      BY <1>5, <2>2
    <2>5. QED
      BY <2>3, <2>4 DEF Indexes
  <1>8. /\ pools'[lp] = new /\ new.reward_indexes = Credit(mid, d, net)
        /\ new.total_bond_share = mid.total_bond_share
    BY <1>4, <1>5, <1>6 DEF Synced, PoolInfo
  <1>9. PICK p, r : p = pools' /\ r = rewards'
    OBVIOUS
  <1>10. ASSUME t # << >>
         PROVE  Crediting(t, p, r, held, o, height)
    <2> SUFFICES ASSUME t[Len(t)].type \in ChangeTypes, p[t[Len(t)].lp].total_bond_share > 0
                 PROVE  Crediting(t, p, r, held, o, height)
      BY DEF Crediting
    <2>1. PICK n, l : n = Len(q) /\ l = t[Len(t)].lp
      OBVIOUS
    <2>2. /\ n \in Nat /\ n > 1 /\ Len(t) = n - 1 /\ t[n - 1] = q[n] /\ m = q[1]
          /\ n = 2 => m.lp = q[2].lp
          /\ n = 3 => m.type = "GeneratorClaim"
      BY <1>2, <1>10, <2>1, CallShortens
    <2>3. Crediting(q, pools, rewards, held, o, height)
      BY <1>1, <1>2 DEF CInv
    <2>4. q[n].type \in ChangeTypes /\ l = q[n].lp
      BY <2>1, <2>2
    <2>5. pools[l].total_bond_share > 0
      <3>1. l \in LpTokens
        <4>1. q[n] \in Message
          BY <1>2, <2>1, <2>2, ElementOfSeq
        <4>2. QED
          BY <2>4, <4>1 DEF Message
      <3>2. CASE l = lp
        BY <1>4, <1>8, <1>9, <2>1, <3>2
      <3>3. CASE l # lp
        <4>1. p[l] = pools[l]
          BY <1>5, <1>6, <1>9, <3>1, <3>3
        <4>2. QED
          BY <2>1, <4>1
      <3>4. QED
        BY <3>2, <3>3
    <2>6. /\ n <= 3 /\ q[n - 1].prev = o.held /\ n # 1
          /\ \A k \in Tokens :
                /\ o.held[k] <= held[k]
                /\ Found(o, height, l, k) \in Nat
                /\ Credited(pools[l], rewards[k], o.pools[l], o.rewards[k], k,
                            Found(o, height, l, k), 0)
      BY <2>1, <2>2, <2>3, <2>4, <2>5 DEF Crediting
    <2>7. n = 2
      BY <1>2, <2>2, <2>6
    <2>8. l = lp /\ m.prev = o.held /\ Len(t) = 1 /\ t[1] = q[2]
      <3>1. 2 - 1 = 1
        OBVIOUS
      <3>2. QED
        BY <1>3, <2>2, <2>4, <2>6, <2>7, <3>1
    <2>9. ASSUME NEW k \in Tokens
          PROVE  Credited(p[lp], r[k], o.pools[lp], o.rewards[k], k,
                          Found(o, height, lp, k), held[k] - o.held[k])
      <3>1. o.pools[lp] \in PoolInfo /\ o.rewards[k] \in RewardInfo
        BY <1>1, <1>2, <1>6 DEF Undone, Accounts
      <3>2. PICK old, was, found : /\ old = o.pools[lp] /\ was = o.rewards[k]
                                   /\ found = Found(o, height, lp, k)
        OBVIOUS
      <3>3. found \in Nat /\ Credited(mid, rewards[k], old, was, k, found, 0)
        BY <1>4, <2>6, <2>8, <3>2
      <3>4. Credited(new, Book(rewards, d, net)[k], old, was, k, found, net[k])
        BY <1>5, <1>6, <1>7, <1>8, <3>1, <3>2, <3>3, ClaimIsCredited
      <3>5. net[k] = held[k] - o.held[k]
        BY <1>7, <2>8
      <3>6. p[lp] = new /\ r[k] = Book(rewards, d, net)[k]
        BY <1>5, <1>8, <1>9
      <3>7. QED
        BY <3>2, <3>4, <3>5, <3>6
    <2>10. 1 <= 3 /\ ~(1 > 1)
      OBVIOUS
    <2>11. QED
      BY <2>1, <2>6, <2>8, <2>9, <2>10 DEF Crediting
  <1>11. QED
    BY <1>1, <1>5, <1>9, <1>10 DEF CInv

\* A call for rewards has no change of shares.
LEMMA PaidOutCredits ==
    ASSUME IInv, CInv, CallbackClaimRewards
    PROVE  CInv'
  <1>1. PICK q, t : q = queue /\ t = queue'
    OBVIOUS
  <1>2. /\ q \in Seq(Message) /\ q # << >> /\ Listed(q) /\ t = Tail(q)
        /\ Head(q).type = "ClaimRewards" /\ pools' = pools
    <2>1. /\ Head(queue).type = "ClaimRewards" /\ queue # << >> /\ queue' = Tail(queue)
          /\ pools' = pools
      BY DEF CallbackClaimRewards, Executes, Proceed
    <2>2. Calm
      BY <2>1, StageOf DEF ClaimTypes
    <2>3. QED
      BY <1>1, <2>1, <2>2 DEF Calm, Listed, IInv, Sound
  <1>3. ASSUME t # << >>, t[Len(t)].type \in ChangeTypes PROVE ~(pools[t[Len(t)].lp].total_bond_share > 0)
    <2> SUFFICES ASSUME pools[t[Len(t)].lp].total_bond_share > 0 PROVE FALSE
      OBVIOUS
    <2>1. PICK n : n = Len(q)
      OBVIOUS
    <2>2. /\ n \in Nat /\ n > 1 /\ Len(t) = n - 1 /\ t[n - 1] = q[n]
          /\ n = 2 => Head(q).type = "AfterBondClaimed"
          /\ n = 3 => Head(q).type = "GeneratorClaim"
      BY <1>2, <1>3, <2>1, CallShortens
    <2>3. Crediting(q, pools, rewards, held, undo, height)
      BY <1>1, <1>2 DEF CInv
    <2>4. n <= 3
      BY <1>3, <2>1, <2>2, <2>3 DEF Crediting
    <2>5. n = 2 \/ n = 3
      BY <2>2, <2>4
    <2>6. QED
      BY <1>2, <2>2, <2>5
  <1>4. QED
    BY <1>1, <1>2, <1>3 DEF CInv, Crediting

\* When the shares have changed, no other change is left.
LEMMA ChangeCredits ==
    ASSUME IInv, CallbackDeposit \/ CallbackWithdraw
    PROVE  CInv'
  <1>1. PICK m : m = Head(queue)
    OBVIOUS
  <1>2. PICK type : /\ type = "GeneratorDeposit" \/ type = "GeneratorWithdraw"
                    /\ queue' = ChangeMessages(type, m) \o Tail(queue)
    BY <1>1 DEF CallbackDeposit, CallbackWithdraw, Proceed, ChangeMessages
  <1>3. queue # << >> /\ m.type \in ChangeTypes
    BY <1>1 DEF CallbackDeposit, CallbackWithdraw, Executes, ChangeTypes
  <1>4. m \in Message /\ queue \in Seq(Message) /\ Listed(queue)
    <2>1. Calm /\ m \in Message
      BY <1>1, <1>3, StageOf
    <2>2. QED
      BY <2>1 DEF Calm, Listed, IInv, Sound
  <1>5. Tail(queue) = << >>
    BY <1>1, <1>3, <1>4, ChangeIsLast
  <1>6. PICK q : q = ChangeMessages(type, m)
    OBVIOUS
  <1>7. Len(q) = 2 /\ q \o << >> = q /\ q[2].type = "AfterBondChanged"
    BY <1>2, <1>4, <1>6, ChangeMessagesAre
  <1>8. queue' = q
    BY <1>2, <1>5, <1>6, <1>7
  <1>9. QED
    BY <1>7, <1>8, NoChangeCredits DEF ChangeTypes

LEMMA ChangedCredits ==
    ASSUME IInv, GeneratorDeposit \/ GeneratorWithdraw \/ AfterBondChanged
    PROVE  CInv'
  <1>1. PICK q : q = queue
    OBVIOUS
  <1>2. q \in Seq(Message) /\ q # << >> /\ queue' = Tail(q)
    BY <1>1 DEF IInv, Sound, GeneratorDeposit, GeneratorWithdraw, AfterBondChanged, Executes,
                Proceed
  <1>3. CASE GeneratorDeposit \/ GeneratorWithdraw
    <2>1. Head(queue).type \in {"GeneratorDeposit", "GeneratorWithdraw"}
      BY <1>3 DEF GeneratorDeposit, GeneratorWithdraw, Executes
    <2>2. Changing
      BY <1>1, <1>2, <2>1, StageOf
    <2>3. Len(q) = 2 /\ q[2].type = "AfterBondChanged"
      BY <1>1, <2>2 DEF Changing
    <2>4. PICK t : t = Tail(q)
      OBVIOUS
    <2>5. Len(t) = 2 - 1 /\ \A i \in 1 .. 2 - 1 : t[i] = q[i + 1]
      BY <1>2, <2>3, <2>4, TailOf
    <2>6. 2 - 1 = 1 /\ 1 \in 1 .. 1 /\ 1 + 1 = 2
      OBVIOUS
    <2>7. Len(t) = 1 /\ t[1] = q[2]
      BY <2>5, <2>6
    <2>8. QED
      BY <1>2, <2>3, <2>4, <2>7, NoChangeCredits DEF ChangeTypes
  <1>4. CASE AfterBondChanged
    <2>1. Head(queue).type = "AfterBondChanged"
      BY <1>4 DEF AfterBondChanged, Executes
    <2>2. Changed
      BY <1>1, <1>2, <2>1, StageOf
    <2>3. Len(q) = 1
      BY <1>1, <2>2 DEF Changed
    <2>4. queue' = << >>
      BY <1>2, <2>3, TailOf
    <2>5. QED
      BY <2>4, NoChangeCredits
  <1>5. QED
    BY <1>3, <1>4

\* Every change of shares happens with its call's crediting done.
LEMMA CreditedThroughout == Spec => []CInv
  <1>1. Init => CInv
    BY DEF Init, CInv
  <1>2. IInv /\ CInv /\ [Next]_vars => CInv'
    <2> SUFFICES ASSUME IInv, CInv, [Next]_vars PROVE CInv'
      OBVIOUS
    <2>1. CASE UNCHANGED vars
      <3>1. UNCHANGED <<pools, rewards, height, queue, undo, held>>
        BY <2>1 DEF vars, bond
      <3>2. QED
        BY <3>1 DEF CInv
    <2>2. CASE \E lp \in LpTokens, u \in Users, a \in Amounts :
                  ExecuteDeposit(lp, u, a) \/ ExecuteWithdraw(lp, u, a)
      BY <2>2, CallsCredit
    <2>3. CASE \E u \in Users, lps \in ClaimLists : ExecuteClaimRewards(u, lps)
      BY <2>3, ClaimsCredit
    <2>4. CASE AfterBondClaimed
      BY <2>4, ClaimedCredits
    <2>5. CASE CallbackDeposit \/ CallbackWithdraw
      BY <2>5, ChangeCredits
    <2>6. CASE CallbackClaimRewards
      BY <2>6, PaidOutCredits
    <2>7. CASE GeneratorClaim
      BY <2>7, ClaimPaysCall
    <2>8. CASE GeneratorDeposit \/ GeneratorWithdraw \/ AfterBondChanged
      BY <2>8, ChangedCredits
    <2>9. CASE \/ \E lp \in LpTokens :
                     CheckpointUserBoost(lp) \/ \E a \in Amounts : DepositFor(lp, a)
               \/ \E t \in Tokens : Donate(t)
               \/ Tick \/ Revert \/ SendIncome
               \/ \E f \in BoostFees : UpdateConfig(f)
               \/ \E r \in StakerRates : UpdateParameters(r)
      <3>1. queue' = << >>
        BY <2>9 DEF CheckpointUserBoost, DepositFor, Donate, Tick, Revert, SendIncome,
                    UpdateConfig, UpdateParameters, Proceed
      <3>2. QED
        BY <3>1, NoChangeCredits
    <2>10. QED
      BY <2>1, <2>2, <2>3, <2>4, <2>5, <2>6, <2>7, <2>8, <2>9 DEF Next
  <1>3. QED
    BY <1>1, <1>2, Invariance, PTL DEF Spec

\* When the shares of a pool are about to change, the generator owes nothing
\* to the old ones any more, and all that came in since the call began, and
\* what the call found of claims by others, has been handed out, but for what
\* the truncation of the index loses (execute_deposit, execute_withdraw,
\* callback_after_bond_claimed).  Of claims by others the call finds what the
\* record tells, which may be less than they brought (bond.rs:187).
THEOREM SettledFirst == Spec => []SettledBeforeChange
  <1>1. IInv /\ CInv => SettledBeforeChange
    <2> SUFFICES ASSUME IInv, CInv, Executes("Deposit") \/ Executes("Withdraw"),
                        NEW lp, lp = Head(queue).lp, pools[lp].total_bond_share > 0
                 PROVE  /\ \A t \in Tokens : Owed(lp)[t] = 0 /\ CreditedSince(lp, t)
                        /\ pools[lp].prev_reward_user_index = deposits[lp].reward_user_index
      BY DEF SettledBeforeChange
    <2>1. Calm /\ lp \in LpTokens
      <3>1. queue # << >> /\ Head(queue).type \in ChangeTypes
        BY DEF Executes, ChangeTypes
      <3>2. Calm /\ Head(queue) \in Message
        BY <3>1, StageOf
      <3>3. QED
        BY <3>2 DEF Message
    <2>2. Ready(pools, deposits, emitted, lp)
      BY <2>1 DEF Calm
    <2>3. /\ Current(deposits, emitted, lp)
          /\ pools[lp].prev_reward_user_index = deposits[lp].reward_user_index
      BY <2>2 DEF Ready
    <2>4. /\ deposits[lp] \in Deposits /\ emitted[lp] \in Indexes
          /\ Rested(pools, deposits, emitted, height, lp)
      BY <2>1 DEF IInv, Sound, Calm
    <2>5. deposits[lp].amount > 0
      BY <2>4 DEF Rested
    <2>6. ASSUME NEW t \in Tokens PROVE Owed(lp)[t] = 0
      <3>1. CASE t = ASTRO
        <4>1. PICK i, v : i = deposits[lp].reward_user_index /\ v = deposits[lp].virtual_amount
          OBVIOUS
        <4>2. i \in Nat /\ v \in Nat /\ emitted[lp][t] = i
          BY <2>3, <2>4, <2>5, <3>1, <4>1 DEF Deposits, Current
        <4>3. Owed(lp)[t] = (i - i) * v
          BY <3>1, <4>1, <4>2 DEF Owed
        <4>4. QED
          BY <4>2, <4>3
      <3>2. CASE t # ASTRO
        <4>1. t \in ProxyTokens
          BY <3>2 DEF Tokens
        <4>2. PICK x : x = deposits[lp].reward_debt_proxy[t]
          OBVIOUS
        <4>3. x \in Nat /\ emitted[lp][t] * deposits[lp].amount = x
          BY <2>3, <2>4, <4>1, <4>2 DEF Deposits, Current
        <4>4. Owed(lp)[t] = x - x
          BY <3>2, <4>2, <4>3 DEF Owed
        <4>5. QED
          BY <4>3, <4>4
      <3>3. QED
        BY <3>1, <3>2
    <2>7. ASSUME NEW t \in Tokens PROVE CreditedSince(lp, t)
      <3>1. /\ queue \in Seq(Message) /\ queue # << >> /\ Listed(queue)
            /\ Head(queue).type \in ChangeTypes /\ Undone
        BY <2>1, StageOf DEF IInv, Sound, Calm, Listed, Executes, ChangeTypes
      <3>2. Len(queue) = 1 /\ queue[1] = Head(queue)
        BY <3>1, ChangeIsLast, TailOf
      <3>3. Crediting(queue, pools, rewards, held, undo, height)
        BY <3>1 DEF CInv
      <3>4. PICK found, came, b : /\ found = Found(undo, height, lp, t)
                                  /\ came = held[t] - undo.held[t]
                                  /\ b = pools[lp].total_bond_share
        OBVIOUS
      <3>5. /\ undo.held[t] <= held[t] /\ found \in Nat
            /\ Credited(pools[lp], rewards[t], undo.pools[lp], undo.rewards[t], t, found, came)
        BY <3>1, <3>2, <3>3, <3>4 DEF Crediting
      <3>6. found = FoundClaimed(lp, t)
        BY <3>4 DEF Found, FoundClaimed
      <3>7. PICK x \in Nat, f \in Nat, s \in Nat :
               /\ pools[lp].reward_indexes[t] = undo.pools[lp].reward_indexes[t] + x
               /\ rewards[t].reconciled_amount = undo.rewards[t].reconciled_amount + found + came
               /\ rewards[t].fee = undo.rewards[t].fee + f
               /\ rewards[t].staker_income = undo.rewards[t].staker_income + s
               /\ x * b + SCALE * (f + s) <= SCALE * (found + came)
               /\ SCALE * (found + came)
                     <= x * b + SCALE * (f + s) + Lost(b, found) + Lost(b, came)
        BY <3>4, <3>5 DEF Credited
      <3>8. PICK i, c, g, h : /\ i = undo.pools[lp].reward_indexes[t]
                              /\ c = undo.rewards[t].reconciled_amount
                              /\ g = undo.rewards[t].fee
                              /\ h = undo.rewards[t].staker_income
        OBVIOUS
      <3>9. /\ i \in Nat /\ c \in Nat /\ g \in Nat /\ h \in Nat /\ b \in Nat /\ SCALE \in Nat
            /\ came \in Nat
        <4>1. undo.pools[lp] \in PoolInfo /\ undo.rewards[t] \in RewardInfo
          BY <2>1, <3>1 DEF Undone, Accounts
        <4>2. pools[lp] \in PoolInfo
          BY <2>1 DEF IInv, Sound, Accounts
        <4>3. held[t] \in Nat /\ undo.held[t] \in Nat
          BY <3>1 DEF IInv, Sound, Undone, Indexes
        <4>4. came \in Nat
          BY <3>4, <3>5, <4>3
        <4>5. QED
          BY <3>4, <3>8, <4>1, <4>2, <4>4, DecimalAssumption DEF PoolInfo, RewardInfo, Indexes
      <3>10. /\ (i + x) - i = x /\ (g + f) - g = f /\ (h + s) - h = s
             /\ (c + found + came) - c = came + found /\ found + came = came + found
        BY <3>5, <3>7, <3>9
      <3>11. HandedOut(lp, t) = x * b + SCALE * (f + s)
        BY <3>4, <3>7, <3>8, <3>10 DEF HandedOut
      <3>12. Truncated(lp, found) = Lost(b, found) /\ Truncated(lp, came) = Lost(b, came)
        BY <3>4 DEF Truncated, Lost
      <3>13. rewards[t].reconciled_amount - undo.rewards[t].reconciled_amount = came + found
        BY <3>7, <3>8, <3>10
      <3>14. PICK y, v, w, z : /\ y = HandedOut(lp, t) /\ v = Lost(b, found) /\ w = Lost(b, came)
                               /\ z = SCALE * (came + found)
        OBVIOUS
      <3>15. y \in Int /\ v \in Int /\ w \in Int /\ z \in Int
        BY <3>5, <3>7, <3>9, <3>11, <3>14 DEF Lost
      <3>16. y <= z /\ z <= y + v + w
        BY <3>7, <3>10, <3>11, <3>14
      <3>17. z <= y + w + v
        BY <3>15, <3>16
      <3>18. QED
        BY <3>4, <3>6, <3>12, <3>13, <3>14, <3>16, <3>17 DEF CreditedSince
    <2>8. QED
      BY <2>3, <2>6, <2>7
  <1>2. QED
    BY <1>1, Invariance, CreditedThroughout, PTL

-----------------------------------------------------------------------------
(* What has been reconciled is held, if a call claims for one pool only *)

\* A callback to come was queued with a balance that is between what is
\* reconciled and what is held.
Spaced(q, r, h) ==
    \A i \in 1 .. Len(q) :
        q[i].type = "AfterBondClaimed" =>
            /\ i = 1 \/ (i = 2 /\ q[1].type = "GeneratorClaim")
            /\ \A t \in Tokens : r[t].reconciled_amount <= q[i].prev[t] /\ q[i].prev[t] <= h[t]

\* The second inductive invariant, which rests on the first.
HInv ==
    /\ Covered(rewards, held)
    /\ Spaced(queue, rewards, held)
    /\ queue # << >> => Covered(undo.rewards, undo.held)

\* Only the first two messages may be a claim and its callback.
LEMMA TailSpaced ==
    ASSUME NEW q \in Seq(Message), q # << >>, NEW r, NEW h, Spaced(q, r, h),
           NEW w, NEW g,
           q[1].type = "GeneratorClaim" =>
              \A t \in Tokens : /\ w[t] = r[t]
                                 /\ h[t] \in Nat /\ g[t] \in Nat /\ h[t] <= g[t]
    PROVE  Spaced(Tail(q), w, g)
  <1>1. PICK s : s = Tail(q)
    OBVIOUS
  <1>2. /\ Len(q) \in Nat \ {0} /\ Len(s) = Len(q) - 1 /\ q \in Seq(Message)
        /\ \A i \in 1 .. Len(q) - 1 : s[i] = q[i + 1]
    BY <1>1, TailOf
  <1>3. ASSUME NEW i \in 1 .. Len(s), s[i].type = "AfterBondClaimed"
        PROVE  /\ i = 1
               /\ \A t \in Tokens : w[t].reconciled_amount <= s[i].prev[t] /\ s[i].prev[t] <= g[t]
    <2>1. i + 1 \in 1 .. Len(q) /\ s[i] = q[i + 1] /\ i + 1 # 1
      BY <1>2
    <2>2. /\ i + 1 = 2 /\ q[1].type = "GeneratorClaim"
          /\ \A t \in Tokens : /\ r[t].reconciled_amount <= q[i + 1].prev[t]
                               /\ q[i + 1].prev[t] <= h[t]
      BY <1>3, <2>1 DEF Spaced
    <2>3. q[i + 1].prev \in [Tokens -> Nat]
      <3>1. PICK m : m = q[i + 1]
        OBVIOUS
      <3>2. m \in Message
        BY <1>2, <2>1, <3>1, ElementOfSeq
      <3>3. m.prev \in [Tokens -> Nat]
        BY <3>2 DEF Message, Indexes
      <3>4. QED
        BY <3>1, <3>3
    <2>4. ASSUME NEW t \in Tokens
          PROVE  w[t].reconciled_amount <= s[i].prev[t] /\ s[i].prev[t] <= g[t]
      <3>1. /\ w[t] = r[t] /\ h[t] \in Nat /\ g[t] \in Nat /\ h[t] <= g[t]
            /\ r[t].reconciled_amount <= q[i + 1].prev[t]
            /\ q[i + 1].prev[t] <= h[t] /\ q[i + 1].prev[t] \in Nat
        BY <2>2, <2>3
      <3>2. q[i + 1].prev[t] <= g[t]
        BY <3>1
      <3>3. QED
        BY <2>1, <3>1, <3>2
    <2>5. i = 1
      BY <2>2
    <2>6. QED
      BY <2>4, <2>5
  <1>4. QED
    BY <1>1, <1>3 DEF Spaced

LEMMA NoneSpaced ==
    ASSUME NEW q, \A i \in 1 .. Len(q) : q[i].type # "AfterBondClaimed", NEW r, NEW h
    PROVE  Spaced(q, r, h)
  BY DEF Spaced

LEMMA CoveredGrows ==
    ASSUME NEW r \in [Tokens -> RewardInfo], NEW h \in Indexes, NEW g \in Indexes,
           Covered(r, h), \A t \in Tokens : h[t] <= g[t]
    PROVE  Covered(r, g)
  <1>1. ASSUME NEW t \in Tokens PROVE r[t].reconciled_amount <= g[t]
    <2>1. /\ h[t] \in Nat /\ g[t] \in Nat /\ r[t].reconciled_amount \in Nat
          /\ h[t] <= g[t] /\ r[t].reconciled_amount <= h[t]
      BY DEF Indexes, RewardInfo, Covered
    <2>2. QED
      BY <2>1
  <1>2. QED
    BY <1>1 DEF Covered

\* A call that claims for one pool at most.
LEMMA BeginCovers ==
    ASSUME IInv, HInv, NEW lps \in Seq(LpTokens), NEW q, Begin(lps, q), Opens(q), Dated(q)
    PROVE  HInv'
  <1>1. queue' = q /\ held' = held /\ undo' = State /\ q # << >>
    BY DEF Begin, Opens
  <1>2. Covered(rewards, held) /\ held \in Indexes
    BY DEF HInv, IInv, Sound
  <1>3. Covered(rewards', held)
    BY <1>2, BeginLeaves
  <1>4. ASSUME NEW i \in 1 .. Len(q), q[i].type = "AfterBondClaimed"
        PROVE  /\ i = 2 /\ q[1].type = "GeneratorClaim"
               /\ \A t \in Tokens : /\ rewards'[t].reconciled_amount <= q[i].prev[t]
                                    /\ q[i].prev[t] <= held[t]
    <2>1. i = 2 /\ q[1].type = "GeneratorClaim" /\ q[i].prev = held
      BY <1>4 DEF Dated
    <2>2. \A t \in Tokens : held[t] \in Nat /\ held[t] <= held[t]
      BY <1>2 DEF Indexes
    <2>3. QED
      BY <1>3, <2>1, <2>2 DEF Covered
  <1>5. Spaced(q, rewards', held)
    BY <1>4 DEF Spaced
  <1>6. undo'.rewards = rewards /\ undo'.held = held
    BY <1>1 DEF State
  <1>7. QED
    BY <1>1, <1>2, <1>3, <1>5, <1>6 DEF HInv

LEMMA CallsCover ==
    ASSUME IInv, HInv, NEW lp \in LpTokens, NEW u \in Users, NEW a \in Amounts,
           ExecuteDeposit(lp, u, a) \/ ExecuteWithdraw(lp, u, a)
    PROVE  HInv'
  <1>1. PICK lps, q : lps \in Seq(LpTokens) /\ Begin(lps, q) /\ Opens(q) /\ Dated(q)
    BY CallsBegin
  <1>2. QED
    BY <1>1, BeginCovers

LEMMA ClaimCovers ==
    ASSUME IInv, HInv, NEW u \in Users, NEW lps \in ClaimLists, Len(lps) <= 1,
           ExecuteClaimRewards(u, lps)
    PROVE  HInv'
  <1>1. lps \in Seq(LpTokens) /\ lps # << >>
    BY BondAssumption DEF ExecuteClaimRewards
  <1>2. PICK n : n = Len(lps)
    OBVIOUS
  <1>3. n \in Nat \ {0} /\ n <= 1
    BY <1>1, <1>2, EmptySeq, LenProperties
  <1>4. n = 1
    BY <1>3
  <1>5. PICK q : Begin(lps, q) /\ Opens(q) /\ (Len(lps) = 1 => Dated(q))
    BY ClaimBegins
  <1>6. QED
    BY <1>1, <1>2, <1>4, <1>5, BeginCovers

\* A message that neither claims nor moves rewards, or makes the generator pay.
LEMMA MessageCovers ==
    ASSUME IInv, HInv, queue # << >>, queue' = Tail(queue), queue' # << >> => undo' = undo,
           held' \in Indexes, rewards' = rewards, \A t \in Tokens : held[t] <= held'[t]
    PROVE  HInv'
  <1>1. PICK q : q = queue
    OBVIOUS
  <1>2. q \in Seq(Message) /\ q # << >> /\ queue' = Tail(q) /\ Spaced(q, rewards, held)
    BY <1>1 DEF IInv, Sound, HInv
  <1>3. /\ held \in Indexes /\ rewards \in [Tokens -> RewardInfo] /\ Covered(rewards, held)
    BY DEF IInv, Sound, Accounts, HInv
  <1>4. PICK r, h, g : r = rewards /\ h = held /\ g = held'
    OBVIOUS
  <1>5. \A t \in Tokens : r[t] = r[t] /\ h[t] \in Nat /\ g[t] \in Nat /\ h[t] <= g[t]
    BY <1>3, <1>4 DEF Indexes
  <1>6. Spaced(Tail(q), r, g)
    BY <1>2, <1>4, <1>5, TailSpaced
  <1>7. Covered(r, g)
    BY <1>3, <1>4, CoveredGrows
  <1>8. QED
    BY <1>2, <1>4, <1>6, <1>7 DEF HInv

LEMMA ClaimPays ==
    ASSUME IInv, HInv, GeneratorClaim
    PROVE  HInv'
  <1>1. PICK lp, a : lp = Head(queue).lp /\ a = deposits[lp].amount
    OBVIOUS
  <1>2. /\ queue # << >> /\ Head(queue) \in Message /\ lp \in LpTokens /\ a \in Nat
        /\ held \in Indexes /\ emitted \in [LpTokens -> Indexes]
        /\ deposits \in [LpTokens -> Deposits]
        /\ \A l \in LpTokens : Recorded(deposits, emitted, l)
    BY <1>1, StageOf DEF GeneratorClaim, Executes, Message, IInv, Sound, Deposits
  <1>3. Settle(lp, a) /\ rewards' = rewards
    BY <1>1 DEF GeneratorClaim, bond
  <1>4. held' \in Indexes /\ \A t \in Tokens : held[t] <= held'[t]
    BY <1>2, <1>3, SettleLeaves
  <1>5. queue' = Tail(queue) /\ (queue' # << >> => undo' = undo)
    BY DEF GeneratorClaim, Proceed
  <1>6. QED
    BY <1>2, <1>3, <1>4, <1>5, MessageCovers

LEMMA ChangePays ==
    ASSUME IInv, HInv, GeneratorDeposit \/ GeneratorWithdraw
    PROVE  HInv'
  <1>1. PICK m : m = Head(queue)
    OBVIOUS
  <1>2. PICK lp : lp = m.lp
    OBVIOUS
  <1>3. /\ queue # << >> /\ m \in Message /\ lp \in LpTokens /\ m.amount \in Nat
        /\ held \in Indexes /\ emitted \in [LpTokens -> Indexes]
        /\ deposits \in [LpTokens -> Deposits] /\ deposits[lp].amount \in Nat
        /\ \A l \in LpTokens : Recorded(deposits, emitted, l)
    BY <1>1, <1>2, StageOf
       DEF GeneratorDeposit, GeneratorWithdraw, Executes, Message, IInv, Sound, Deposits
  <1>4. PICK a : a \in Nat /\ Settle(lp, a)
    <2>1. CASE GeneratorDeposit
      <3>1. PICK a : a = deposits[lp].amount + m.amount
        OBVIOUS
      <3>2. a \in Nat
        BY <1>3, <3>1
      <3>3. Settle(lp, a)
        BY <1>1, <1>2, <2>1, <3>1 DEF GeneratorDeposit
      <3>4. QED
        BY <3>2, <3>3
    <2>2. CASE GeneratorWithdraw
      <3>1. PICK a : a = deposits[lp].amount - m.amount
        OBVIOUS
      <3>2. m.amount \in 1 .. deposits[lp].amount
        BY <1>1, <1>2, <2>2 DEF GeneratorWithdraw
      <3>3. a \in Nat
        BY <1>3, <3>1, <3>2
      <3>4. Settle(lp, a)
        BY <1>1, <1>2, <2>2, <3>1 DEF GeneratorWithdraw
      <3>5. QED
        BY <3>3, <3>4
    <2>3. QED
      BY <2>1, <2>2
  <1>5. held' \in Indexes /\ \A t \in Tokens : held[t] <= held'[t]
    BY <1>3, <1>4, SettleLeaves
  <1>6. /\ queue' = Tail(queue) /\ (queue' # << >> => undo' = undo) /\ rewards' = rewards
    BY DEF GeneratorDeposit, GeneratorWithdraw, Proceed, bond
  <1>7. QED
    BY <1>3, <1>5, <1>6, MessageCovers

LEMMA ChangedCovers ==
    ASSUME IInv, HInv, AfterBondChanged
    PROVE  HInv'
  <1>1. /\ queue # << >> /\ queue' = Tail(queue) /\ (queue' # << >> => undo' = undo)
        /\ rewards' = rewards /\ held' = held
    BY DEF AfterBondChanged, Proceed, Executes
  <1>2. held' \in Indexes /\ \A t \in Tokens : held[t] <= held'[t]
    <2>1. held \in [Tokens -> Nat]
      BY DEF IInv, Sound, Indexes
    <2>2. \A t \in Tokens : held[t] \in Nat
      BY <2>1
    <2>3. QED
      BY <1>1, <2>1, <2>2 DEF Indexes
  <1>3. QED
    BY <1>1, <1>2, MessageCovers

LEMMA ChangeCovers ==
    ASSUME IInv, HInv, CallbackDeposit \/ CallbackWithdraw
    PROVE  HInv'
  <1>1. PICK m : m = Head(queue)
    OBVIOUS
  <1>2. PICK type : /\ type = "GeneratorDeposit" \/ type = "GeneratorWithdraw"
                    /\ queue' = ChangeMessages(type, m) \o Tail(queue)
    BY <1>1 DEF CallbackDeposit, CallbackWithdraw, Proceed, ChangeMessages
  <1>3. /\ queue # << >> /\ m.type \in ChangeTypes
        /\ undo' = IF queue' = << >> THEN NoState ELSE undo
        /\ rewards' = rewards /\ held' = held
    BY <1>1 DEF CallbackDeposit, CallbackWithdraw, Proceed, Executes, ChangeTypes
  <1>4. /\ m \in Message /\ queue \in Seq(Message) /\ Listed(queue)
    <2>1. Calm /\ m \in Message
      BY <1>1, <1>3, StageOf
    <2>2. QED
      BY <2>1 DEF Calm, Listed, IInv, Sound
  <1>5. Tail(queue) = << >>
    BY <1>1, <1>3, <1>4, ChangeIsLast
  <1>6. PICK q : q = ChangeMessages(type, m)
    OBVIOUS
  <1>7. /\ q \in Seq(Message) /\ Len(q) = 2 /\ q \o << >> = q
        /\ q[1].type = type /\ q[2].type = "AfterBondChanged"
    BY <1>2, <1>4, <1>6, ChangeMessagesAre
  <1>8. queue' = q
    BY <1>2, <1>5, <1>6, <1>7
  <1>9. \A i \in 1 .. Len(q) : q[i].type # "AfterBondClaimed"
    <2>1. \A i \in 1 .. Len(q) : i = 1 \/ i = 2
      BY <1>7
    <2>2. QED
      BY <1>2, <1>7, <2>1
  <1>10. Spaced(q, rewards, held)
    BY <1>9, NoneSpaced
  <1>11. QED
    BY <1>3, <1>8, <1>10 DEF HInv

\* The callback books no more than what came in since its balance was read.
LEMMA ClaimedCovers ==
    ASSUME IInv, HInv, AfterBondClaimed
    PROVE  HInv'
  <1>1. PICK q : q = queue
    OBVIOUS
  <1>2. PICK m, d, net : m = q[1] /\ d = deposits[m.lp] /\ net = Claimed(m)
    OBVIOUS
  <1>3. /\ q \in Seq(Message) /\ q # << >> /\ Head(q) = m /\ m \in Message /\ 1 \in 1 .. Len(q)
    <2>1. q \in Seq(Message) /\ q # << >>
      BY <1>1 DEF IInv, Sound, AfterBondClaimed, Executes
    <2>2. QED
      BY <1>2, <2>1, TailOf
  <1>4. /\ m.type = "AfterBondClaimed" /\ rewards' = Book(rewards, d, net)
        /\ queue' = Tail(q) /\ held' = held /\ (queue' # << >> => undo' = undo)
    BY <1>1, <1>2, <1>3 DEF AfterBondClaimed, Executes, Proceed
  <1>5. /\ \A t \in Tokens : rewards[t].reconciled_amount <= m.prev[t] /\ m.prev[t] <= held[t]
    BY <1>1, <1>2, <1>3, <1>4 DEF HInv, Spaced
  <1>6. /\ held \in [Tokens -> Nat] /\ rewards \in [Tokens -> RewardInfo]
    BY DEF IInv, Sound, Accounts, Indexes
  <1>7. ASSUME NEW t \in Tokens PROVE rewards'[t].reconciled_amount <= held[t]
    <2>1. rewards'[t].reconciled_amount = rewards[t].reconciled_amount + net[t]
      BY <1>4 DEF Book
    <2>2. net[t] = held[t] - m.prev[t]
      BY <1>2 DEF Claimed
    <2>3. m.prev[t] \in Nat /\ held[t] \in Nat /\ rewards[t].reconciled_amount \in Nat
      BY <1>3, <1>6 DEF Message, Indexes, RewardInfo
    <2>4. rewards[t].reconciled_amount <= m.prev[t]
      BY <1>5
    <2>5. QED
      BY <2>1, <2>2, <2>3, <2>4
  <1>8. Spaced(Tail(q), rewards', held)
    <2>1. Spaced(q, rewards, held) /\ q[1].type # "GeneratorClaim"
      BY <1>1, <1>2, <1>4 DEF HInv
    <2>2. PICK w : w = rewards'
      OBVIOUS
    <2>3. Spaced(Tail(q), w, held)
      BY <1>3, <2>1, TailSpaced
    <2>4. QED
      BY <2>2, <2>3
  <1>9. QED
    BY <1>1, <1>3, <1>4, <1>7, <1>8 DEF HInv, Covered

LEMMA PaidOut ==
    ASSUME IInv, HInv, CallbackClaimRewards
    PROVE  HInv'
  <1>1. PICK q : q = queue
    OBVIOUS
  <1>2. PICK m : m = q[1]
    OBVIOUS
  <1>3. /\ q \in Seq(Message) /\ q # << >> /\ Head(q) = m /\ m \in Message /\ 1 \in 1 .. Len(q)
    <2>1. q \in Seq(Message) /\ q # << >>
      BY <1>1 DEF IInv, Sound, CallbackClaimRewards, Executes
    <2>2. QED
      BY <1>2, <2>1, TailOf
  <1>4. PICK p : p = <<m.lp, m.user>>
    OBVIOUS
  <1>5. PICK amount : amount = Earned(pools[p[1]], users[p])
    OBVIOUS
  <1>6. /\ m.type = "ClaimRewards"
        /\ rewards' = [t \in Tokens |->
                          [rewards[t] EXCEPT !.reconciled_amount = @ - amount[t]]]
        /\ held' = [t \in Tokens |-> held[t] - amount[t]]
        /\ queue' = Tail(q) /\ (queue' # << >> => undo' = undo)
    BY <1>1, <1>2, <1>3, <1>4, <1>5 DEF CallbackClaimRewards, Executes, Proceed
  <1>7. /\ held \in [Tokens -> Nat] /\ rewards \in [Tokens -> RewardInfo]
        /\ pools \in [LpTokens -> PoolInfo] /\ users \in [LpTokens \X Users -> UserInfo]
        /\ Known(pools, users)
    BY DEF IInv, Sound, Accounts, Indexes
  <1>8. p \in LpTokens \X Users
    <2>1. Head(queue).type \in ClaimTypes
      BY <1>1, <1>3, <1>6 DEF ClaimTypes
    <2>2. Calm
      BY <1>1, <1>3, <2>1, StageOf
    <2>3. Proper(m)
      BY <1>1, <1>2, <1>3, <2>2 DEF Calm
    <2>4. m.lp \in LpTokens /\ m.user \in Users
      BY <1>3, <1>6, <2>3 DEF Proper, Message
    <2>5. QED
      BY <1>4, <2>4
  <1>9. ASSUME NEW t \in Tokens PROVE rewards'[t].reconciled_amount <= held'[t]
    <2>1. amount[t] \in Nat
      BY <1>5, <1>7, <1>8, EarnedIsClaimed
    <2>2. /\ rewards[t] \in RewardInfo /\ held[t] \in Nat
          /\ rewards[t].reconciled_amount <= held[t]
      BY <1>7 DEF HInv, Covered
    <2>3. rewards[t].reconciled_amount \in Nat
      BY <2>2 DEF RewardInfo
    <2>4. rewards'[t].reconciled_amount = rewards[t].reconciled_amount - amount[t]
      BY <1>6, <2>2 DEF RewardInfo
    <2>5. held'[t] = held[t] - amount[t]
      BY <1>6
    <2>6. QED
      BY <2>1, <2>2, <2>3, <2>4, <2>5
  <1>10. Spaced(Tail(q), rewards', held')
    <2>1. Spaced(q, rewards, held) /\ q[1].type # "GeneratorClaim"
      BY <1>1, <1>2, <1>6 DEF HInv
    <2>2. PICK w, g : w = rewards' /\ g = held'
      OBVIOUS
    <2>3. Spaced(Tail(q), w, g)
      BY <1>3, <2>1, TailSpaced
    <2>4. QED
      BY <2>2, <2>3
  <1>11. QED
    BY <1>1, <1>3, <1>6, <1>9, <1>10 DEF HInv, Covered

\* Between transactions.
LEMMA RestCovers ==
    ASSUME queue' = << >>, Covered(rewards', held')
    PROVE  HInv'
  <1>1. Len(queue') = 0
    OBVIOUS
  <1>2. Spaced(queue', rewards', held')
    BY <1>1 DEF Spaced
  <1>3. QED
    BY <1>2 DEF HInv

LEMMA OthersCover ==
    ASSUME IInv, HInv, NEW lp \in LpTokens,
           CheckpointUserBoost(lp) \/ \E a \in Amounts : DepositFor(lp, a)
    PROVE  HInv'
  <1>1. /\ held \in Indexes /\ emitted \in [LpTokens -> Indexes]
        /\ deposits \in [LpTokens -> Deposits] /\ deposits[lp].amount \in Nat
        /\ \A l \in LpTokens : Recorded(deposits, emitted, l)
        /\ rewards \in [Tokens -> RewardInfo] /\ Covered(rewards, held)
    BY DEF IInv, Sound, Deposits, Accounts, HInv
  <1>2. PICK n \in Nat : Settle(lp, n)
    <2>1. CASE CheckpointUserBoost(lp)
      BY <1>1, <2>1 DEF CheckpointUserBoost
    <2>2. ASSUME NEW a \in Amounts, DepositFor(lp, a)
          PROVE  \E n \in Nat : Settle(lp, n)
      <3>1. PICK n : n = deposits[lp].amount + a
        OBVIOUS
      <3>2. n \in Nat
        BY <1>1, <3>1, BondAssumption
      <3>3. Settle(lp, n)
        BY <2>2, <3>1 DEF DepositFor
      <3>4. QED
        BY <3>2, <3>3
    <2>3. QED
      BY <2>1, <2>2
  <1>3. /\ queue' = << >> /\ rewards' = rewards
    BY DEF CheckpointUserBoost, DepositFor, bond
  <1>4. held' \in Indexes /\ \A t \in Tokens : held[t] <= held'[t]
    BY <1>1, <1>2, SettleLeaves
  <1>5. PICK g : g = held'
    OBVIOUS
  <1>6. Covered(rewards, g)
    BY <1>1, <1>4, <1>5, CoveredGrows
  <1>7. QED
    BY <1>3, <1>5, <1>6, RestCovers

LEMMA DonationCovers ==
    ASSUME IInv, HInv, NEW t \in Tokens, Donate(t)
    PROVE  HInv'
  <1>1. queue' = << >> /\ rewards' = rewards /\ held' = [held EXCEPT ![t] = @ + 1]
    BY DEF Donate, bond
  <1>2. /\ held \in [Tokens -> Nat] /\ rewards \in [Tokens -> RewardInfo]
        /\ Covered(rewards, held)
    BY DEF IInv, Sound, Indexes, Accounts, HInv
  <1>3. PICK g : g = held'
    OBVIOUS
  <1>4. g \in [Tokens -> Nat]
    BY <1>1, <1>2, <1>3
  <1>5. ASSUME NEW x \in Tokens PROVE held[x] <= g[x]
    <2>1. held[x] \in Nat /\ (x # t => g[x] = held[x]) /\ (x = t => g[x] = held[x] + 1)
      BY <1>1, <1>2, <1>3
    <2>2. QED
      BY <2>1
  <1>6. Covered(rewards, g)
    BY <1>2, <1>4, <1>5, CoveredGrows DEF Indexes
  <1>7. QED
    BY <1>1, <1>3, <1>6, RestCovers

LEMMA IncomeSent ==
    ASSUME IInv, HInv, SendIncome
    PROVE  HInv'
  <1>1. PICK fee : fee = rewards[ASTRO].fee
    OBVIOUS
  <1>2. /\ queue' = << >>
        /\ rewards' = [rewards EXCEPT ![ASTRO].fee = 0, ![ASTRO].reconciled_amount = @ - fee]
        /\ held' = [held EXCEPT ![ASTRO] = @ - fee]
    BY <1>1 DEF SendIncome
  <1>3. /\ held \in [Tokens -> Nat] /\ rewards \in [Tokens -> RewardInfo]
        /\ Covered(rewards, held) /\ ASTRO \in Tokens
    BY DEF IInv, Sound, Indexes, Accounts, HInv, Tokens
  <1>4. ASSUME NEW t \in Tokens PROVE rewards'[t].reconciled_amount <= held'[t]
    <2>1. /\ rewards[t] \in RewardInfo /\ held[t] \in Nat /\ fee \in Nat
          /\ rewards[t].reconciled_amount \in Nat /\ rewards[t].reconciled_amount <= held[t]
      BY <1>1, <1>3 DEF RewardInfo, Covered
    <2>2. CASE t # ASTRO
      <3>1. rewards'[t] = rewards[t] /\ held'[t] = held[t]
        BY <1>2, <1>3, <2>2
      <3>2. QED
        BY <2>1, <3>1
    <2>3. CASE t = ASTRO
      <3>1. rewards'[t].reconciled_amount = rewards[t].reconciled_amount - fee
        BY <1>2, <1>3, <2>1, <2>3 DEF RewardInfo
      <3>2. held'[t] = held[t] - fee
        BY <1>2, <1>3, <2>3
      <3>3. QED
        BY <2>1, <3>1, <3>2
    <2>4. QED
      BY <2>2, <2>3
  <1>5. QED
    BY <1>2, <1>4, RestCovers DEF Covered

LEMMA RestOfWorldCovers ==
    ASSUME IInv, HInv,
           \/ Tick \/ Revert
           \/ \E f \in BoostFees : UpdateConfig(f)
           \/ \E r \in StakerRates : UpdateParameters(r)
    PROVE  HInv'
  <1>1. CASE Revert
    <2>1. queue' = << >> /\ rewards' = undo.rewards /\ held' = undo.held /\ queue # << >>
      BY <1>1 DEF Revert, Proceed
    <2>2. Covered(undo.rewards, undo.held)
      BY <2>1 DEF HInv
    <2>3. QED
      BY <2>1, <2>2, RestCovers
  <1>2. CASE ~Revert
    <2>1. queue' = << >> /\ rewards' = rewards /\ held' = held
      BY <1>2 DEF Tick, UpdateConfig, UpdateParameters, bond
    <2>2. Covered(rewards, held)
      BY DEF HInv
    <2>3. QED
      BY <2>1, <2>2, RestCovers
  <1>3. QED
    BY <1>1, <1>2

\* What has been reconciled is held at all times, if nobody claims for two
\* pools in one call (callback_after_bond_claimed): the balance that a
\* callback compares with was then read after everything before it had been
\* booked.  In a call for two pools it was not (execute_claim_rewards).
THEOREM ReconciledIsHeld ==
    ASSUME \A lps \in ClaimLists : Len(lps) <= 1
    PROVE  Spec => []ReconciledHeld
  <1>1. Init => HInv
    <2> SUFFICES ASSUME Init PROVE HInv
      OBVIOUS
    <2>1. \A t \in Tokens : rewards[t].reconciled_amount = 0 /\ held[t] = 0
      BY DEF Init, NoReward, NoTokens
    <2>2. Covered(rewards, held)
      BY <2>1 DEF Covered
    <2>3. queue = << >> /\ Len(queue) = 0
      BY DEF Init
    <2>4. QED
      BY <2>2, <2>3 DEF HInv, Spaced
  <1>2. IInv /\ HInv /\ [Next]_vars => HInv'
    <2> SUFFICES ASSUME IInv, HInv, [Next]_vars PROVE HInv'
      OBVIOUS
    <2>1. CASE UNCHANGED vars
      BY <2>1 DEF vars, bond, HInv
    <2>2. CASE \E lp \in LpTokens, u \in Users, a \in Amounts :
                  ExecuteDeposit(lp, u, a) \/ ExecuteWithdraw(lp, u, a)
      BY <2>2, CallsCover
    <2>3. CASE \E u \in Users, lps \in ClaimLists : ExecuteClaimRewards(u, lps)
      BY <2>3, ClaimCovers
    <2>4. CASE AfterBondClaimed
      BY <2>4, ClaimedCovers
    <2>5. CASE CallbackDeposit \/ CallbackWithdraw
      BY <2>5, ChangeCovers
    <2>6. CASE AfterBondChanged \/ CallbackClaimRewards
      BY <2>6, ChangedCovers, PaidOut
    <2>7. CASE GeneratorClaim \/ GeneratorDeposit \/ GeneratorWithdraw
      BY <2>7, ClaimPays, ChangePays
    <2>8. CASE \E lp \in LpTokens :
                  CheckpointUserBoost(lp) \/ \E a \in Amounts : DepositFor(lp, a)
      BY <2>8, OthersCover
    <2>9. CASE \E t \in Tokens : Donate(t)
      BY <2>9, DonationCovers
    <2>10. CASE SendIncome
      BY <2>10, IncomeSent
    <2>11. CASE \/ Tick \/ Revert
                \/ \E f \in BoostFees : UpdateConfig(f)
                \/ \E r \in StakerRates : UpdateParameters(r)
      BY <2>11, RestOfWorldCovers
    <2>12. QED
      BY <2>1, <2>2, <2>3, <2>4, <2>5, <2>6, <2>7, <2>8, <2>9, <2>10, <2>11 DEF Next
  <1>3. HInv => ReconciledHeld
    BY DEF HInv, Covered, ReconciledHeld
  <1>4. QED
    BY <1>1, <1>2, <1>3, Invariance, PTL DEF Spec

-----------------------------------------------------------------------------
(* Each pool is a SharePool.  A transaction changes the shares first and   *)
(* the deposit two messages later; until then only the state before it is  *)
(* shown, so an invariant has to say what the transaction has done so far. *)

\* The bond shares and the LP of a pool, of some users k and deposits d.
SamePots(d, e) == \A l \in LpTokens : e[l].amount = d[l].amount

PotIs(d, e, lp, x) == e[lp].amount = x /\ \A l \in LpTokens \ {lp} : e[l].amount = d[l].amount

SameShares(k, w) == \A q \in LpTokens \X Users : w[q].bond_share = k[q].bond_share

OnlyShareOf(k, w, p) ==
    \A q \in LpTokens \X Users : q # p => w[q].bond_share = k[q].bond_share

\* The shares for n LP.
Minted(total, pot, n) == IF total = 0 \/ pot = 0 THEN n ELSE MulRatio(n, total, pot)

\* u has got the shares for n LP, or has given up the shares for n LP.
Minting(k, d, w, lp, u, n) ==
    /\ OnlyShareOf(k, w, <<lp, u>>) /\ n > 0
    /\ w[<<lp, u>>].bond_share
          = k[<<lp, u>>].bond_share + Minted(Total(Shares(k, lp)), d[lp].amount, n)

Burning(k, d, w, lp, u, n) ==
    /\ OnlyShareOf(k, w, <<lp, u>>)
    /\ n * Total(Shares(k, lp))
          <= (k[<<lp, u>>].bond_share - w[<<lp, u>>].bond_share) * d[lp].amount

\* What a transaction, or the rest of the world, may do.
Same(k, d, w, e) == SameShares(k, w) /\ SamePots(d, e)

Entered(k, d, w, e, lp, u) ==
    \E n \in Nat : Minting(k, d, w, lp, u, n) /\ PotIs(d, e, lp, d[lp].amount + n)

Left(k, d, w, e, lp, u) ==
    \E n \in Nat : Burning(k, d, w, lp, u, n) /\ PotIs(d, e, lp, d[lp].amount - n)

Gained(k, d, w, e, lp) ==
    SameShares(k, w) /\ \E n \in Nat \ {0} : PotIs(d, e, lp, d[lp].amount + n)

Passes(k, d, w, e) ==
    \/ Same(k, d, w, e)
    \/ \E lp \in LpTokens : Gained(k, d, w, e, lp)
    \/ \E lp \in LpTokens, u \in Users : Entered(k, d, w, e, lp, u) \/ Left(k, d, w, e, lp, u)

\* What has been done when the messages q are left.
Stage(q, k, d, w, e) ==
    LET m == Head(q)
    IN  IF q = << >> THEN Passes(k, d, w, e)
        ELSE /\ m.type \in ClaimTypes \cup ChangeTypes => Same(k, d, w, e)
             /\ m.type = "GeneratorDeposit" =>
                   SamePots(d, e) /\ \E u \in Users : Minting(k, d, w, m.lp, u, m.amount)
             /\ m.type = "GeneratorWithdraw" =>
                   SamePots(d, e) /\ \E u \in Users : Burning(k, d, w, m.lp, u, m.amount)
             /\ m.type = "AfterBondChanged" => Passes(k, d, w, e)

Journey == queue # << >> => Stage(queue, undo.users, undo.deposits, users, deposits)

LEMMA SameTotals ==
    ASSUME NEW k, NEW w, SameShares(k, w), NEW lp \in LpTokens
    PROVE  Shares(w, lp) = Shares(k, lp) /\ Total(Shares(w, lp)) = Total(Shares(k, lp))
  <1>1. \A u \in Users : w[<<lp, u>>].bond_share = k[<<lp, u>>].bond_share
    BY DEF SameShares
  <1>2. QED
    BY <1>1 DEF Shares

LEMMA SameIsSame ==
    ASSUME NEW k, NEW d
    PROVE  Same(k, d, k, d)
  BY DEF Same, SameShares, SamePots

\* A message of the claims leaves shares and deposits as they are.
LEMMA ClaimsGoOn ==
    ASSUME IInv, Journey, queue # << >>, Head(queue).type \in ClaimTypes,
           queue' = Tail(queue), SameShares(users, users'), SamePots(deposits, deposits')
    PROVE  Stage(queue', undo.users, undo.deposits, users', deposits')
  <1>1. PICK q, t, k, d, w, e : /\ q = queue /\ t = queue' /\ k = undo.users /\ d = undo.deposits
                                /\ w = users' /\ e = deposits'
    OBVIOUS
  <1>2. Same(k, d, users, deposits)
    BY <1>1 DEF Journey, Stage
  <1>3. Same(k, d, w, e)
    BY <1>1, <1>2 DEF Same, SameShares, SamePots
  <1>4. CASE t = << >>
    BY <1>1, <1>3, <1>4 DEF Stage, Passes
  <1>5. CASE t # << >>
    <2>1. Calm /\ queue \in Seq(Message)
      BY StageOf DEF IInv, Sound
    <2>2. q \in Seq(Message) /\ q # << >> /\ Listed(q) /\ t = Tail(q)
      BY <1>1, <2>1 DEF Calm, Listed
    <2>3. Listed(t) /\ t \in Seq(Message)
      BY <2>2, ListedTail, TailOf
    <2>4. Head(t) = t[1] /\ 1 \in 1 .. Len(t)
      BY <1>5, <2>3, TailOf
    <2>5. Head(t).type \in ClaimTypes \cup ChangeTypes
      BY <2>3, <2>4 DEF Listed, Proper
    <2>6. /\ Head(t).type # "GeneratorDeposit" /\ Head(t).type # "GeneratorWithdraw"
          /\ Head(t).type # "AfterBondChanged"
      BY <2>5 DEF ClaimTypes, ChangeTypes
    <2>7. QED
      BY <1>1, <1>3, <1>5, <2>6 DEF Stage
  <1>6. QED
    BY <1>4, <1>5

LEMMA ClaimStages ==
    ASSUME IInv, Journey, GeneratorClaim \/ AfterBondClaimed \/ CallbackClaimRewards
    PROVE  Stage(queue', undo.users, undo.deposits, users', deposits')
  <1>1. /\ queue # << >> /\ Head(queue).type \in ClaimTypes /\ queue' = Tail(queue)
    BY DEF GeneratorClaim, AfterBondClaimed, CallbackClaimRewards, Executes, Proceed, ClaimTypes
  <1>2. /\ users \in [LpTokens \X Users -> UserInfo] /\ deposits \in [LpTokens -> Deposits]
        /\ held \in Indexes /\ emitted \in [LpTokens -> Indexes]
        /\ \A l \in LpTokens : Recorded(deposits, emitted, l)
        /\ Head(queue) \in Message
    BY <1>1, StageOf DEF IInv, Sound, Accounts
  <1>3. CASE GeneratorClaim
    <2>1. PICK lp, a : lp = Head(queue).lp /\ a = deposits[lp].amount
      OBVIOUS
    <2>2. Settle(lp, a) /\ users' = users
      BY <1>3, <2>1 DEF GeneratorClaim, bond
    <2>3. lp \in LpTokens /\ a \in Nat
      BY <1>2, <2>1 DEF Message, Deposits
    <2>4. /\ deposits'[lp].amount = a
          /\ \A l \in LpTokens \ {lp} : deposits'[l] = deposits[l]
      BY <1>2, <2>2, <2>3, SettleLeaves
    <2>5. SamePots(deposits, deposits')
      BY <2>1, <2>4 DEF SamePots
    <2>6. SameShares(users, users')
      BY <2>2 DEF SameShares
    <2>7. QED
      BY <1>1, <2>5, <2>6, ClaimsGoOn
  <1>4. CASE AfterBondClaimed
    <2>1. users' = users /\ deposits' = deposits
      BY <1>4 DEF AfterBondClaimed
    <2>2. SamePots(deposits, deposits') /\ SameShares(users, users')
      BY <2>1 DEF SamePots, SameShares
    <2>3. QED
      BY <1>1, <2>2, ClaimsGoOn
  <1>5. CASE CallbackClaimRewards
    <2>1. PICK p, x : p = <<Head(queue).lp, Head(queue).user>> /\ x = pools[Head(queue).lp]
      OBVIOUS
    <2>2. users' = [users EXCEPT ![p] = AfterClaim(users[p], x)] /\ deposits' = deposits
      BY <1>5, <2>1 DEF CallbackClaimRewards
    <2>3. ASSUME NEW q \in LpTokens \X Users
          PROVE  users'[q].bond_share = users[q].bond_share
      <3>1. CASE q # p
        BY <1>2, <2>2, <3>1
      <3>2. CASE q = p
        <4>1. users[p] \in UserInfo
          BY <1>2, <3>2
        <4>2. AfterClaim(users[p], x).bond_share = users[p].bond_share
          BY <4>1 DEF AfterClaim, UserInfo
        <4>3. users'[q] = AfterClaim(users[p], x)
          BY <1>2, <2>2, <3>2
        <4>4. QED
          BY <3>2, <4>2, <4>3
      <3>3. QED
        BY <3>1, <3>2
    <2>4. SamePots(deposits, deposits') /\ SameShares(users, users')
      BY <2>2, <2>3 DEF SamePots, SameShares
    <2>5. QED
      BY <1>1, <2>4, ClaimsGoOn
  <1>6. QED
    BY <1>3, <1>4, <1>5

\* The shares change: the messages left name the pool and the amount.
LEMMA ChangeStage ==
    ASSUME IInv, Journey, queue # << >>, NEW m, m = Head(queue), m.type \in ChangeTypes,
           NEW type, type = "GeneratorDeposit" \/ type = "GeneratorWithdraw",
           queue' = ChangeMessages(type, m) \o Tail(queue), deposits' = deposits,
           NEW u \in Users,
           type = "GeneratorDeposit" => Minting(users, deposits, users', m.lp, u, m.amount),
           type = "GeneratorWithdraw" => Burning(users, deposits, users', m.lp, u, m.amount)
    PROVE  Stage(queue', undo.users, undo.deposits, users', deposits')
  <1>1. Calm /\ m \in Message /\ queue \in Seq(Message) /\ Listed(queue)
    <2>1. Calm /\ m \in Message
      BY StageOf
    <2>2. QED
      BY <2>1 DEF Calm, Listed, IInv, Sound
  <1>2. Tail(queue) = << >>
    BY <1>1, ChangeIsLast
  <1>3. PICK q : q = ChangeMessages(type, m)
    OBVIOUS
  <1>4. /\ q \in Seq(Message) /\ Len(q) = 2 /\ q \o << >> = q
        /\ q[1].type = type /\ q[1].lp = m.lp /\ q[1].amount = m.amount
    BY <1>1, <1>3, ChangeMessagesAre
  <1>5. queue' = q /\ q # << >> /\ Head(q) = q[1]
    <2>1. queue' = q
      BY <1>2, <1>3, <1>4
    <2>2. q # << >>
      <3>1. Len(<< >>) = 0
        OBVIOUS
      <3>2. Len(q) # Len(<< >>)
        BY <1>4, <3>1
      <3>3. QED
        BY <3>2
    <2>3. QED
      BY <1>4, <2>1, <2>2, TailOf
  <1>6. PICK k, d, w, e, lp, n : /\ k = undo.users /\ d = undo.deposits
                                 /\ w = users' /\ e = deposits' /\ lp = m.lp /\ n = m.amount
    OBVIOUS
  <1>7. lp \in LpTokens /\ Same(k, d, users, deposits)
    BY <1>1, <1>6 DEF Message, Journey, Stage
  <1>8. SameShares(k, users) /\ SamePots(d, e) /\ deposits[lp].amount = d[lp].amount
    BY <1>6, <1>7 DEF Same, SamePots
  <1>9. Total(Shares(users, lp)) = Total(Shares(k, lp))
    BY <1>7, <1>8, SameTotals
  <1>10. <<lp, u>> \in LpTokens \X Users /\ users[<<lp, u>>].bond_share = k[<<lp, u>>].bond_share
    BY <1>7, <1>8 DEF SameShares
  <1>11. ASSUME OnlyShareOf(users, w, <<lp, u>>) PROVE OnlyShareOf(k, w, <<lp, u>>)
    BY <1>8, <1>11 DEF SameShares, OnlyShareOf
  <1>12. type = "GeneratorDeposit" => Minting(k, d, w, lp, u, n)
    BY <1>6, <1>8, <1>9, <1>10, <1>11 DEF Minting
  <1>13. type = "GeneratorWithdraw" => Burning(k, d, w, lp, u, n)
    BY <1>6, <1>8, <1>9, <1>10, <1>11 DEF Burning
  <1>14. type \notin ClaimTypes \cup ChangeTypes /\ type # "AfterBondChanged"
    BY DEF ClaimTypes, ChangeTypes
  <1>15. Stage(q, k, d, w, e)
    BY <1>4, <1>5, <1>6, <1>8, <1>12, <1>13, <1>14 DEF Stage
  <1>16. QED
    BY <1>5, <1>6, <1>15

LEMMA DepositStage ==
    ASSUME IInv, Journey, CallbackDeposit
    PROVE  Stage(queue', undo.users, undo.deposits, users', deposits')
  <1>1. PICK m : m = Head(queue)
    OBVIOUS
  <1>2. PICK lp, u : lp = m.lp /\ u = m.user
    OBVIOUS
  <1>3. PICK user : user = ReconcileToUserInfo(pools[lp], UserOf(pools[lp], users[<<lp, u>>]))
    OBVIOUS
  <1>4. PICK share : share = MintShare(pools[lp], deposits[lp].amount, m.amount)
    OBVIOUS
  <1>5. /\ queue # << >> /\ m.type = "Deposit" /\ m.type \in ChangeTypes
        /\ users' = [users EXCEPT ![<<lp, u>>] =
                        [user EXCEPT !.bond_share = user.bond_share + share]]
        /\ queue' = ChangeMessages("GeneratorDeposit", m) \o Tail(queue)
        /\ deposits' = deposits
    BY <1>1, <1>2, <1>3, <1>4
       DEF CallbackDeposit, Executes, Proceed, ChangeMessages, ChangeTypes
  <1>6. /\ Calm /\ m \in Message /\ queue \in Seq(Message) /\ Listed(queue)
    <2>1. Calm /\ m \in Message
      BY <1>1, <1>5, StageOf
    <2>2. QED
      BY <2>1 DEF Calm, Listed, IInv, Sound
  <1>7. Proper(m)
    BY <1>1, <1>5, <1>6, ChangeIsLast
  <1>8. lp \in LpTokens /\ u \in Users /\ m.amount \in Nat /\ m.amount > 0
    BY <1>2, <1>5, <1>7 DEF Proper, Message, ChangeTypes
  <1>9. /\ pools \in [LpTokens -> PoolInfo] /\ users \in [LpTokens \X Users -> UserInfo]
        /\ Known(pools, users) /\ Total(Shares(users, lp)) = pools[lp].total_bond_share
    BY <1>8 DEF IInv, Sound, Accounts
  <1>10. user \in UserInfo /\ user.bond_share = users[<<lp, u>>].bond_share
    <2>1. Level(user, pools, users, lp, u)
      BY <1>3, <1>8, <1>9, ReconciledUser
    <2>2. QED
      BY <2>1 DEF Level
  <1>11. share = Minted(Total(Shares(users, lp)), deposits[lp].amount, m.amount)
    BY <1>4, <1>9 DEF MintShare, Minted
  <1>12. PICK p, w, new : /\ p = <<lp, u>> /\ w = users'
                          /\ new = [user EXCEPT !.bond_share = user.bond_share + share]
    OBVIOUS
  <1>13. new.bond_share = user.bond_share + share
    BY <1>10, <1>12 DEF UserInfo
  <1>14. /\ w[p] = new /\ p \in LpTokens \X Users
         /\ \A q \in LpTokens \X Users : q # p => w[q] = users[q]
    BY <1>5, <1>8, <1>9, <1>12
  <1>15. Minting(users, deposits, w, lp, u, m.amount)
    BY <1>8, <1>10, <1>11, <1>12, <1>13, <1>14 DEF Minting, OnlyShareOf
  <1>16. PICK type : type = "GeneratorDeposit"
    OBVIOUS
  <1>17. Minting(users, deposits, users', m.lp, u, m.amount)
    BY <1>2, <1>12, <1>15
  <1>18. queue' = ChangeMessages(type, m) \o Tail(queue) /\ type # "GeneratorWithdraw"
    BY <1>5, <1>16
  <1>19. QED
    BY <1>1, <1>5, <1>8, <1>16, <1>17, <1>18, ChangeStage

LEMMA WithdrawStage ==
    ASSUME IInv, Journey, CallbackWithdraw
    PROVE  Stage(queue', undo.users, undo.deposits, users', deposits')
  <1>1. PICK m : m = Head(queue)
    OBVIOUS
  <1>2. PICK lp, u : lp = m.lp /\ u = m.user
    OBVIOUS
  <1>3. PICK user : user = ReconcileToUserInfo(pools[lp], users[<<lp, u>>])
    OBVIOUS
  <1>4. PICK share : share = BurnShare(pools[lp], deposits[lp].amount, m.amount)
    OBVIOUS
  <1>5. /\ queue # << >> /\ m.type = "Withdraw" /\ m.type \in ChangeTypes
        /\ share <= user.bond_share /\ user.exists
        /\ users' = [users EXCEPT ![<<lp, u>>] =
                        [user EXCEPT !.bond_share = user.bond_share - share]]
        /\ queue' = ChangeMessages("GeneratorWithdraw", m) \o Tail(queue)
        /\ deposits' = deposits
    BY <1>1, <1>2, <1>3, <1>4
       DEF CallbackWithdraw, Executes, Proceed, ChangeMessages, ChangeTypes, Burnable
  <1>6. /\ Calm /\ m \in Message /\ queue \in Seq(Message) /\ Listed(queue)
    <2>1. Calm /\ m \in Message
      BY <1>1, <1>5, StageOf
    <2>2. QED
      BY <2>1 DEF Calm, Listed, IInv, Sound
  <1>7. Proper(m)
    BY <1>1, <1>5, <1>6, ChangeIsLast
  <1>8. lp \in LpTokens /\ u \in Users /\ m.amount \in Nat
    BY <1>2, <1>5, <1>7 DEF Proper, Message, ChangeTypes
  <1>9. /\ pools \in [LpTokens -> PoolInfo] /\ users \in [LpTokens \X Users -> UserInfo]
        /\ Known(pools, users) /\ Total(Shares(users, lp)) = pools[lp].total_bond_share
        /\ deposits[lp].amount \in Nat
    BY <1>8 DEF IInv, Sound, Accounts, Deposits
  <1>10. user \in UserInfo /\ user.bond_share = users[<<lp, u>>].bond_share
    <2>1. users[<<lp, u>>] \in UserInfo
      BY <1>8, <1>9
    <2>2. users[<<lp, u>>].exists
      <3>1. user.exists = users[<<lp, u>>].exists
        BY <1>3, <2>1 DEF ReconcileToUserInfo, UserInfo
      <3>2. QED
        BY <1>5, <3>1
    <2>3. user = ReconcileToUserInfo(pools[lp], UserOf(pools[lp], users[<<lp, u>>]))
      BY <1>3, <2>2 DEF UserOf
    <2>4. Level(user, pools, users, lp, u)
      BY <1>8, <1>9, <2>3, ReconciledUser
    <2>5. QED
      BY <2>4 DEF Level
  <1>11. PICK pot, T, n : pot = deposits[lp].amount /\ T = pools[lp].total_bond_share /\ n = m.amount
    OBVIOUS
  <1>12. pot \in Nat \ {0} /\ T \in Nat /\ n \in Nat
    <2>1. Head(queue) = queue[1] /\ 1 \in 1 .. Len(queue)
      BY <1>5, <1>6, TailOf
    <2>2. deposits[lp].amount > 0
      BY <1>1, <1>2, <1>5, <1>6, <2>1 DEF Calm
    <2>3. pools[lp] \in PoolInfo
      BY <1>8, <1>9
    <2>4. QED
      BY <1>8, <1>9, <1>11, <2>2, <2>3 DEF PoolInfo
  <1>13. share \in Nat /\ n * T <= share * pot
    <2>1. CASE T = 0
      <3>1. share = n
        BY <1>4, <1>11, <2>1 DEF BurnShare
      <3>2. QED
        BY <1>12, <2>1, <3>1
    <2>2. CASE T # 0
      <3>1. share = MulRatioCeil(n, T, pot)
        BY <1>4, <1>11, <1>12, <2>2 DEF BurnShare
      <3>2. share \in Nat /\ n * T <= pot * share
        BY <1>12, <3>1, MulRatioCeilBounds
      <3>3. pot * share = share * pot
        BY <1>12, <3>2
      <3>4. QED
        BY <3>2, <3>3
    <2>3. QED
      BY <2>1, <2>2
  <1>14. PICK p, w, new : /\ p = <<lp, u>> /\ w = users'
                          /\ new = [user EXCEPT !.bond_share = user.bond_share - share]
    OBVIOUS
  <1>15. new.bond_share = user.bond_share - share /\ user.bond_share \in Nat
    BY <1>10, <1>14 DEF UserInfo
  <1>16. /\ w[p] = new /\ p \in LpTokens \X Users
         /\ \A q \in LpTokens \X Users : q # p => w[q] = users[q]
    BY <1>5, <1>8, <1>9, <1>14
  <1>17. users[p].bond_share - w[p].bond_share = share
    BY <1>10, <1>13, <1>14, <1>15, <1>16
  <1>18. Burning(users, deposits, w, lp, u, n)
    BY <1>9, <1>11, <1>13, <1>14, <1>16, <1>17 DEF Burning, OnlyShareOf
  <1>19. PICK type : type = "GeneratorWithdraw"
    OBVIOUS
  <1>20. QED
    BY <1>1, <1>2, <1>5, <1>8, <1>11, <1>14, <1>18, <1>19, ChangeStage

\* The deposit changes, by the amount for which shares were minted or burned.
LEMMA DepositedStage ==
    ASSUME IInv, Journey, GeneratorDeposit \/ GeneratorWithdraw
    PROVE  Stage(queue', undo.users, undo.deposits, users', deposits')
  <1>1. PICK m : m = Head(queue)
    OBVIOUS
  <1>2. PICK lp, n, a : /\ lp = m.lp /\ n = m.amount
                        /\ a = IF m.type = "GeneratorDeposit" THEN deposits[lp].amount + n
                               ELSE deposits[lp].amount - n
    OBVIOUS
  <1>3. /\ queue # << >>
        /\ m.type = "GeneratorDeposit" \/ m.type = "GeneratorWithdraw"
        /\ m.type = "GeneratorWithdraw" => n \in 1 .. deposits[lp].amount
        /\ Settle(lp, a) /\ queue' = Tail(queue) /\ users' = users
    BY <1>1, <1>2 DEF GeneratorDeposit, GeneratorWithdraw, Executes, Proceed, bond
  <1>4. Changing /\ m = queue[1] /\ m \in Message /\ queue \in Seq(Message)
    BY <1>1, <1>3, StageOf DEF IInv, Sound
  <1>5. /\ lp \in LpTokens /\ n \in Nat /\ deposits[lp].amount \in Nat
        /\ held \in Indexes /\ emitted \in [LpTokens -> Indexes]
        /\ deposits \in [LpTokens -> Deposits]
        /\ \A l \in LpTokens : Recorded(deposits, emitted, l)
    BY <1>2, <1>4 DEF Message, IInv, Sound, Deposits
  <1>6. a \in Nat
    BY <1>2, <1>3, <1>5
  <1>7. /\ deposits'[lp].amount = a
        /\ \A l \in LpTokens \ {lp} : deposits'[l] = deposits[l]
    BY <1>3, <1>5, <1>6, SettleLeaves
  <1>8. PICK k, d, e : k = undo.users /\ d = undo.deposits /\ e = deposits'
    OBVIOUS
  <1>9. PICK u \in Users :
           /\ SamePots(d, deposits)
           /\ m.type = "GeneratorDeposit" => Minting(k, d, users, lp, u, n)
           /\ m.type = "GeneratorWithdraw" => Burning(k, d, users, lp, u, n)
    <2>1. Stage(queue, k, d, users, deposits)
      BY <1>3, <1>8 DEF Journey
    <2>2. CASE m.type = "GeneratorDeposit"
      BY <1>1, <1>2, <1>3, <2>1, <2>2 DEF Stage
    <2>3. CASE m.type = "GeneratorWithdraw"
      BY <1>1, <1>2, <1>3, <2>1, <2>3 DEF Stage
    <2>4. QED
      BY <1>3, <2>2, <2>3
  <1>10. d[lp].amount = deposits[lp].amount /\ PotIs(d, e, lp, a)
    BY <1>5, <1>7, <1>8, <1>9 DEF SamePots, PotIs
  <1>11. Entered(k, d, users, e, lp, u) \/ Left(k, d, users, e, lp, u)
    <2>1. CASE m.type = "GeneratorDeposit"
      BY <1>2, <1>5, <1>9, <1>10, <2>1 DEF Entered
    <2>2. CASE m.type = "GeneratorWithdraw"
      BY <1>2, <1>5, <1>9, <1>10, <2>2 DEF Left
    <2>3. QED
      BY <1>3, <2>1, <2>2
  <1>12. Passes(k, d, users, e)
    BY <1>5, <1>11 DEF Passes
  <1>13. /\ queue' # << >> /\ Head(queue').type = "AfterBondChanged"
    <2>1. Len(queue) = 2 /\ queue[2].type = "AfterBondChanged"
      BY <1>4 DEF Changing
    <2>2. Tail(queue) \in Seq(Message) /\ Len(Tail(queue)) = 1
      BY <1>3, <1>4, <2>1, TailOf
    <2>3. Tail(queue) # << >>
      <3>1. Len(<< >>) = 0
        OBVIOUS
      <3>2. Len(Tail(queue)) # Len(<< >>)
        BY <2>2, <3>1
      <3>3. QED
        BY <3>2
    <2>4. Head(Tail(queue)) = queue[2]
      BY <1>3, <1>4, <2>3, TailOf
    <2>5. QED
      BY <1>3, <2>1, <2>3, <2>4
  <1>14. QED
    BY <1>3, <1>8, <1>12, <1>13 DEF Stage, ClaimTypes, ChangeTypes

LEMMA LastStage ==
    ASSUME IInv, Journey, AfterBondChanged
    PROVE  Stage(queue', undo.users, undo.deposits, users', deposits')
  <1>1. /\ queue # << >> /\ Head(queue).type = "AfterBondChanged" /\ queue' = Tail(queue)
        /\ users' = users /\ deposits' = deposits
    BY DEF AfterBondChanged, Executes, Proceed
  <1>2. Changed /\ queue \in Seq(Message)
    BY <1>1, StageOf DEF IInv, Sound
  <1>3. queue' = << >>
    <2>1. Len(queue) = 1
      BY <1>2 DEF Changed
    <2>2. QED
      BY <1>1, <1>2, <2>1, TailOf
  <1>4. Passes(undo.users, undo.deposits, users, deposits)
    BY <1>1 DEF Journey, Stage
  <1>5. QED
    BY <1>1, <1>3, <1>4 DEF Stage

\* What the SharePools see.
LEMMA MessageSettles ==
    ASSUME Journey, queue # << >>, queue' # << >> => undo' = undo,
           Stage(queue', undo.users, undo.deposits, users', deposits')
    PROVE  /\ Journey'
           /\ Passes(Settled.users, Settled.deposits, Settled'.users, Settled'.deposits)
  <1>1. Settled = undo
    BY DEF Settled
  <1>2. CASE queue' = << >>
    <2>1. Settled' = State'
      BY <1>2 DEF Settled
    <2>2. Settled'.users = users' /\ Settled'.deposits = deposits'
      BY <2>1 DEF State
    <2>3. Passes(undo.users, undo.deposits, users', deposits')
      BY <1>2 DEF Stage
    <2>4. QED
      BY <1>1, <1>2, <2>2, <2>3 DEF Journey
  <1>3. CASE queue' # << >>
    <2>1. Settled' = undo /\ undo' = undo
      BY <1>3 DEF Settled
    <2>2. Passes(undo.users, undo.deposits, undo.users, undo.deposits)
      BY SameIsSame DEF Passes
    <2>3. Journey'
      BY <1>3, <2>1 DEF Journey
    <2>4. QED
      BY <1>1, <2>1, <2>2, <2>3
  <1>4. QED
    BY <1>2, <1>3

LEMMA BeginSettles ==
    ASSUME NEW lps, NEW q, Begin(lps, q), Opens(q)
    PROVE  /\ Journey'
           /\ Passes(Settled.users, Settled.deposits, Settled'.users, Settled'.deposits)
  <1>1. /\ queue = << >> /\ queue' = q /\ undo' = State /\ users' = users /\ deposits' = deposits
    BY DEF Begin
  <1>2. q # << >> /\ q \in Seq(Message) /\ Listed(q)
    BY DEF Opens
  <1>3. Head(q).type \in ClaimTypes \cup ChangeTypes
    <2>1. Head(q) = q[1] /\ 1 \in 1 .. Len(q)
      BY <1>2, TailOf
    <2>2. QED
      BY <1>2, <2>1 DEF Listed, Proper
  <1>4. undo'.users = users /\ undo'.deposits = deposits
    BY <1>1 DEF State
  <1>5. Same(users, deposits, users, deposits)
    BY SameIsSame
  <1>6. Journey'
    <2>1. /\ Head(q).type # "GeneratorDeposit" /\ Head(q).type # "GeneratorWithdraw"
          /\ Head(q).type # "AfterBondChanged"
      BY <1>3 DEF ClaimTypes, ChangeTypes
    <2>2. Stage(q, users, deposits, users, deposits)
      BY <1>2, <1>5, <2>1 DEF Stage
    <2>3. QED
      BY <1>1, <1>4, <2>2 DEF Journey
  <1>7. Settled = State /\ Settled' = State
    BY <1>1, <1>2 DEF Settled
  <1>8. State.users = users /\ State.deposits = deposits
    BY DEF State
  <1>9. QED
    BY <1>5, <1>6, <1>7, <1>8 DEF Passes

\* Between transactions only the deposits may change, and only grow.
LEMMA RestSettles ==
    ASSUME queue = << >>, queue' = << >>, users' = users,
           SamePots(deposits, deposits') \/
              \E lp \in LpTokens : \E n \in Nat \ {0} :
                 PotIs(deposits, deposits', lp, deposits[lp].amount + n)
    PROVE  /\ Journey'
           /\ Passes(Settled.users, Settled.deposits, Settled'.users, Settled'.deposits)
  <1>1. Settled = State /\ Settled' = State'
    BY DEF Settled
  <1>2. PICK k, d, e : k = users /\ d = deposits /\ e = deposits'
    OBVIOUS
  <1>3. /\ Settled.users = k /\ Settled.deposits = d /\ Settled'.users = k /\ Settled'.deposits = e
    BY <1>1, <1>2 DEF State
  <1>4. SameShares(k, k)
    BY DEF SameShares
  <1>5. Same(k, d, k, e) \/ \E lp \in LpTokens : Gained(k, d, k, e, lp)
    BY <1>2, <1>4 DEF Same, Gained
  <1>6. QED
    BY <1>3, <1>5 DEF Passes, Journey

LEMMA RevertSettles ==
    ASSUME Revert
    PROVE  /\ Journey'
           /\ Passes(Settled.users, Settled.deposits, Settled'.users, Settled'.deposits)
  <1>1. queue # << >> /\ queue' = << >> /\ users' = undo.users /\ deposits' = undo.deposits
    BY DEF Revert, Proceed
  <1>2. Settled = undo /\ Settled' = State'
    BY <1>1 DEF Settled
  <1>3. Settled'.users = undo.users /\ Settled'.deposits = undo.deposits
    BY <1>1, <1>2 DEF State
  <1>4. Same(undo.users, undo.deposits, undo.users, undo.deposits)
    BY SameIsSame
  <1>5. QED
    BY <1>1, <1>2, <1>3, <1>4 DEF Passes, Journey

LEMMA OthersGain ==
    ASSUME IInv, NEW lp \in LpTokens,
           CheckpointUserBoost(lp) \/ \E a \in Amounts : DepositFor(lp, a)
    PROVE  /\ queue = << >> /\ queue' = << >> /\ users' = users
           /\ SamePots(deposits, deposits') \/
                 \E n \in Nat \ {0} : PotIs(deposits, deposits', lp, deposits[lp].amount + n)
  <1>1. /\ held \in Indexes /\ emitted \in [LpTokens -> Indexes]
        /\ deposits \in [LpTokens -> Deposits] /\ deposits[lp].amount \in Nat
        /\ \A l \in LpTokens : Recorded(deposits, emitted, l)
    BY DEF IInv, Sound, Deposits
  <1>2. queue = << >> /\ queue' = << >> /\ users' = users
    BY DEF CheckpointUserBoost, DepositFor, bond
  <1>3. PICK n \in Nat : /\ Settle(lp, deposits[lp].amount + n)
                         /\ CheckpointUserBoost(lp) \/ n > 0
    <2>1. CASE CheckpointUserBoost(lp)
      <3>1. deposits[lp].amount + 0 = deposits[lp].amount
        BY <1>1
      <3>2. Settle(lp, deposits[lp].amount + 0)
        BY <2>1, <3>1 DEF CheckpointUserBoost
      <3>3. QED
        BY <2>1, <3>2
    <2>2. ASSUME NEW a \in Amounts, DepositFor(lp, a)
          PROVE  a \in Nat /\ a > 0 /\ Settle(lp, deposits[lp].amount + a)
      BY <2>2, BondAssumption DEF DepositFor
    <2>3. QED
      BY <2>1, <2>2
  <1>4. PICK x : x = deposits[lp].amount + n
    OBVIOUS
  <1>5. x \in Nat /\ Settle(lp, x)
    BY <1>1, <1>3, <1>4
  <1>6. deposits'[lp].amount = x /\ \A l \in LpTokens \ {lp} : deposits'[l] = deposits[l]
    BY <1>1, <1>5, SettleLeaves
  <1>7. PotIs(deposits, deposits', lp, x)
    BY <1>6 DEF PotIs
  <1>8. CASE n = 0
    <2>1. x = deposits[lp].amount
      BY <1>1, <1>4, <1>8
    <2>2. SamePots(deposits, deposits')
      BY <1>7, <2>1 DEF PotIs, SamePots
    <2>3. QED
      BY <1>2, <2>2
  <1>9. CASE n # 0
    BY <1>2, <1>4, <1>7, <1>9
  <1>10. QED
    BY <1>8, <1>9

LEMMA StepSettles ==
    ASSUME IInv, Journey, [Next]_vars
    PROVE  /\ Journey'
           /\ Passes(Settled.users, Settled.deposits, Settled'.users, Settled'.deposits)
  <1>1. CASE UNCHANGED vars
    <2>1. UNCHANGED <<pools, users, rewards, queue, undo, deposits, held>>
      BY <1>1 DEF vars, bond
    <2>2. Settled' = Settled /\ Journey'
      BY <2>1 DEF Settled, State, Journey
    <2>3. QED
      BY <2>2, SameIsSame DEF Passes
  <1>2. ASSUME NEW lp \in LpTokens, NEW u \in Users, NEW a \in Amounts,
               ExecuteDeposit(lp, u, a) \/ ExecuteWithdraw(lp, u, a)
        PROVE  /\ Journey'
               /\ Passes(Settled.users, Settled.deposits, Settled'.users, Settled'.deposits)
    <2>1. PICK lps, q : Begin(lps, q) /\ Opens(q)
      BY <1>2, CallsBegin
    <2>2. QED
      BY <2>1, BeginSettles
  <1>3. ASSUME NEW u \in Users, NEW lps \in ClaimLists, ExecuteClaimRewards(u, lps)
        PROVE  /\ Journey'
               /\ Passes(Settled.users, Settled.deposits, Settled'.users, Settled'.deposits)
    <2>1. PICK q : Begin(lps, q) /\ Opens(q)
      BY <1>3, ClaimBegins
    <2>2. QED
      BY <2>1, BeginSettles
  <1>4. CASE \/ GeneratorClaim \/ AfterBondClaimed \/ CallbackClaimRewards
             \/ CallbackDeposit \/ CallbackWithdraw
             \/ GeneratorDeposit \/ GeneratorWithdraw \/ AfterBondChanged
    <2>1. Stage(queue', undo.users, undo.deposits, users', deposits')
      BY <1>4, ClaimStages, DepositStage, WithdrawStage, DepositedStage, LastStage
    <2>2. queue # << >> /\ (queue' # << >> => undo' = undo)
      BY <1>4 DEF GeneratorClaim, AfterBondClaimed, CallbackClaimRewards, CallbackDeposit,
                  CallbackWithdraw, GeneratorDeposit, GeneratorWithdraw, AfterBondChanged,
                  Executes, Proceed
    <2>3. QED
      BY <2>1, <2>2, MessageSettles
  <1>5. ASSUME NEW lp \in LpTokens,
               CheckpointUserBoost(lp) \/ \E a \in Amounts : DepositFor(lp, a)
        PROVE  /\ Journey'
               /\ Passes(Settled.users, Settled.deposits, Settled'.users, Settled'.deposits)
    <2>1. /\ queue = << >> /\ queue' = << >> /\ users' = users
          /\ SamePots(deposits, deposits') \/
                \E n \in Nat \ {0} : PotIs(deposits, deposits', lp, deposits[lp].amount + n)
      BY <1>5, OthersGain
    <2>2. QED
      BY <2>1, RestSettles
  <1>6. CASE \/ \E t \in Tokens : Donate(t)
             \/ Tick \/ SendIncome
             \/ \E f \in BoostFees : UpdateConfig(f)
             \/ \E r \in StakerRates : UpdateParameters(r)
    <2>1. queue = << >> /\ queue' = << >> /\ users' = users /\ deposits' = deposits
      BY <1>6 DEF Donate, Tick, SendIncome, UpdateConfig, UpdateParameters, bond
    <2>2. SamePots(deposits, deposits')
      BY <2>1 DEF SamePots
    <2>3. QED
      BY <2>1, <2>2, RestSettles
  <1>7. CASE Revert
    BY <1>7, RevertSettles
  <1>8. QED
    BY <1>1, <1>2, <1>3, <1>4, <1>5, <1>6, <1>7 DEF Next

\* One pool of what has passed.
LEMMA PoolPasses ==
    ASSUME NEW lp \in LpTokens,
           NEW k \in [LpTokens \X Users -> UserInfo], NEW w \in [LpTokens \X Users -> UserInfo],
           NEW d \in [LpTokens -> Deposits], NEW e \in [LpTokens -> Deposits],
           k = Settled.users, d = Settled.deposits, w = Settled'.users, e = Settled'.deposits,
           Passes(k, d, w, e)
    PROVE  [Pool(lp)!Next]_(Pool(lp)!pool_vars)
  <1> DEFINE a == [u \in Users |-> k[<<lp, u>>].bond_share]
             b == [u \in Users |-> w[<<lp, u>>].bond_share]
             x == d[lp].amount
             y == e[lp].amount
  <1>1. /\ a \in [Users -> Nat] /\ b \in [Users -> Nat] /\ x \in Nat /\ y \in Nat
    BY DEF UserInfo, Deposits
  <1>2. a = Shares(k, lp)
    BY DEF Shares
  <1>3. Pool(lp)!TotalShares = Total(Shares(k, lp)) /\ Total(Shares(k, lp)) \in Nat
    <2>1. Pool(lp)!TotalShares = Total(a)
      BY DEF Pool!TotalShares, Pool!Total, Pool!Units, Total, Units, Pool!Cardinality, Cardinality
    <2>2. IsFiniteSet(Users)
      BY BondAssumption
    <2>3. Total(a) \in Nat
      BY <1>1, <2>2, TotalType
    <2>4. QED
      BY <1>2, <2>1, <2>3
  <1>4. ASSUME a = b, x = y PROVE UNCHANGED Pool(lp)!pool_vars
    BY <1>4 DEF Pool!pool_vars
  <1>5. ASSUME SameShares(k, w) PROVE a = b
    BY <1>5 DEF SameShares
  <1>6. ASSUME NEW l \in LpTokens, l # lp, NEW u \in Users, OnlyShareOf(k, w, <<l, u>>) PROVE a = b
    <2>1. \A v \in Users : w[<<lp, v>>].bond_share = k[<<lp, v>>].bond_share
      BY <1>6 DEF OnlyShareOf
    <2>2. QED
      BY <2>1
  <1>7. CASE Same(k, d, w, e)
    BY <1>4, <1>5, <1>7 DEF Same, SamePots
  <1>8. ASSUME NEW l \in LpTokens, Gained(k, d, w, e, l)
        PROVE  [Pool(lp)!Next]_(Pool(lp)!pool_vars)
    <2>1. a = b
      BY <1>5, <1>8 DEF Gained
    <2>2. CASE l # lp
      <3>1. x = y
        BY <1>8, <2>2 DEF Gained, PotIs
      <3>2. QED
        BY <1>4, <2>1, <3>1
    <2>3. CASE l = lp
      <3>1. y > x
        BY <1>1, <1>8, <2>3 DEF Gained, PotIs
      <3>2. Pool(lp)!Gain
        BY <2>1, <3>1 DEF Pool!Gain
      <3>3. QED
        BY <3>2 DEF Pool!Next
    <2>4. QED
      BY <2>2, <2>3
  <1>9. ASSUME NEW l \in LpTokens, NEW u \in Users, Entered(k, d, w, e, l, u)
        PROVE  [Pool(lp)!Next]_(Pool(lp)!pool_vars)
    <2>1. PICK n \in Nat : Minting(k, d, w, l, u, n) /\ PotIs(d, e, l, d[l].amount + n)
      BY <1>9 DEF Entered
    <2>2. CASE l # lp
      <3>1. x = y
        BY <2>1, <2>2 DEF PotIs
      <3>2. a = b
        BY <1>6, <2>1, <2>2 DEF Minting
      <3>3. QED
        BY <1>4, <3>1, <3>2
    <2>3. CASE l = lp
      <3>1. y = x + n /\ n > 0 /\ y - x = n
        BY <1>1, <2>1, <2>3 DEF PotIs, Minting
      <3>2. \A v \in Users \ {u} : b[v] = a[v]
        BY <2>1, <2>3 DEF Minting, OnlyShareOf
      <3>3. b[u] = a[u] + Minted(Total(Shares(k, lp)), x, n)
        BY <2>1, <2>3 DEF Minting
      <3>4. b[u] - a[u] = Minted(Total(Shares(k, lp)), x, n)
        <4>1. Minted(Total(Shares(k, lp)), x, n) \in Nat
          BY <1>1, <1>3, MulRatioBounds DEF Minted
        <4>2. a[u] \in Nat
          BY <1>1
        <4>3. QED
          BY <3>3, <4>1, <4>2
      <3>5. Pool(lp)!Enter(u)
        BY <1>3, <3>1, <3>2, <3>4 DEF Pool!Enter, Pool!Only, Minted, MulRatio, Pool!MulRatio
      <3>6. QED
        BY <3>5 DEF Pool!Next
    <2>4. QED
      BY <2>2, <2>3
  <1>10. ASSUME NEW l \in LpTokens, NEW u \in Users, Left(k, d, w, e, l, u)
         PROVE  [Pool(lp)!Next]_(Pool(lp)!pool_vars)
    <2>1. PICK n \in Nat : Burning(k, d, w, l, u, n) /\ PotIs(d, e, l, d[l].amount - n)
      BY <1>10 DEF Left
    <2>2. CASE l # lp
      <3>1. x = y
        BY <2>1, <2>2 DEF PotIs
      <3>2. a = b
        BY <1>6, <2>1, <2>2 DEF Burning
      <3>3. QED
        BY <1>4, <3>1, <3>2
    <2>3. CASE l = lp
      <3>1. y = x - n /\ x - y = n /\ x - y >= 0 /\ y >= 0
        BY <1>1, <2>1, <2>3 DEF PotIs
      <3>2. \A v \in Users \ {u} : b[v] = a[v]
        BY <2>1, <2>3 DEF Burning, OnlyShareOf
      <3>3. n * Total(Shares(k, lp)) <= (a[u] - b[u]) * x /\ b[u] >= 0
        BY <1>1, <2>1, <2>3 DEF Burning
      <3>4. Pool(lp)!Leave(u)
        BY <1>3, <3>1, <3>2, <3>3 DEF Pool!Leave, Pool!Only
      <3>5. QED
        BY <3>4 DEF Pool!Next
    <2>4. QED
      BY <2>2, <2>3
  <1>11. QED
    BY <1>4, <1>7, <1>8, <1>9, <1>10 DEF Passes

LEMMA SettledType ==
    ASSUME IInv, IInv'
    PROVE  /\ Settled.users \in [LpTokens \X Users -> UserInfo]
           /\ Settled.deposits \in [LpTokens -> Deposits]
           /\ Settled'.users \in [LpTokens \X Users -> UserInfo]
           /\ Settled'.deposits \in [LpTokens -> Deposits]
  <1>1. /\ users \in [LpTokens \X Users -> UserInfo] /\ deposits \in [LpTokens -> Deposits]
        /\ users' \in [LpTokens \X Users -> UserInfo] /\ deposits' \in [LpTokens -> Deposits]
    BY DEF IInv, Sound, Accounts
  <1>2. queue # << >> => /\ undo.users \in [LpTokens \X Users -> UserInfo]
                         /\ undo.deposits \in [LpTokens -> Deposits]
    BY DEF IInv, Undone, Accounts
  <1>3. queue' # << >> => /\ undo'.users \in [LpTokens \X Users -> UserInfo]
                          /\ undo'.deposits \in [LpTokens -> Deposits]
    BY DEF IInv, Undone, Accounts
  <1>4. QED
    BY <1>1, <1>2, <1>3 DEF Settled, State

\* Over whole transactions each pool is a fair pool of the LP that the
\* generator holds for it (calc_bond_share): shares are minted and burned at
\* their price, whatever claims, callbacks and failures lie between the
\* message that changes the shares and the one that changes the deposit.
THEOREM Refines == Spec => ImplementsSharePools
  <1>1. Init => Journey /\ \A lp \in LpTokens : Pool(lp)!Init
    <2> SUFFICES ASSUME Init PROVE Journey /\ \A lp \in LpTokens : Pool(lp)!Init
      OBVIOUS
    <2>1. queue = << >> /\ Settled = State
      BY DEF Init, Settled
    <2>2. Settled.users = users /\ Settled.deposits = deposits
      BY <2>1 DEF State
    <2>3. ASSUME NEW lp \in LpTokens PROVE Pool(lp)!Init
      <3>1. Settled.deposits[lp].amount = 0
        BY <2>2 DEF Init, NoDeposit
      <3>2. \A u \in Users : Settled.users[<<lp, u>>].bond_share = 0
        BY <2>2 DEF Init, NoUser
      <3>3. QED
        BY <3>1, <3>2 DEF Pool!Init
    <2>4. QED
      BY <2>1, <2>3 DEF Journey
  <1>2. IInv /\ IInv' /\ Journey /\ [Next]_vars
           => Journey' /\ \A lp \in LpTokens : [Pool(lp)!Next]_(Pool(lp)!pool_vars)
    <2> SUFFICES ASSUME IInv, IInv', Journey, [Next]_vars
                 PROVE  Journey' /\ \A lp \in LpTokens : [Pool(lp)!Next]_(Pool(lp)!pool_vars)
      OBVIOUS
    <2>1. PICK k, d, w, e : /\ k = Settled.users /\ d = Settled.deposits
                            /\ w = Settled'.users /\ e = Settled'.deposits
      OBVIOUS
    <2>2. Journey' /\ Passes(k, d, w, e)
      BY <2>1, StepSettles
    <2>3. /\ k \in [LpTokens \X Users -> UserInfo] /\ d \in [LpTokens -> Deposits]
          /\ w \in [LpTokens \X Users -> UserInfo] /\ e \in [LpTokens -> Deposits]
      BY <2>1, SettledType
    <2>5. \A lp \in LpTokens : [Pool(lp)!Next]_(Pool(lp)!pool_vars)
      BY <2>1, <2>2, <2>3, PoolPasses
    <2>6. QED
      BY <2>2, <2>5
  <1>3. QED
    BY <1>1, <1>2, Invariance, PTL DEF Spec, ImplementsSharePools

\* A step of a SharePool leaves the price of a share where it was or raises it.
LEMMA PoolIsFair ==
    ASSUME IInv, IInv', NEW lp \in LpTokens, [Pool(lp)!Next]_(Pool(lp)!pool_vars)
    PROVE  Pool(lp)!PriceKept
  <1> DEFINE a == [u \in Users |-> Settled.users[<<lp, u>>].bond_share]
             b == [u \in Users |-> Settled'.users[<<lp, u>>].bond_share]
             x == Settled.deposits[lp].amount
             y == Settled'.deposits[lp].amount
  <1>1. a \in [Users -> Nat] /\ b \in [Users -> Nat] /\ x \in Nat /\ y \in Nat
    BY SettledType DEF UserInfo, Deposits
  <1> DEFINE s == Total(a)
             t == Total(b)
  <1>2. Pool(lp)!TotalShares = s /\ Pool(lp)!TotalShares' = t
    BY DEF Pool!TotalShares, Pool!Total, Pool!Units, Total, Units, Pool!Cardinality, Cardinality
  <1> HIDE DEF a, b, x, y
  <1>3. IsFiniteSet(Users)
    BY BondAssumption
  <1>4. s \in Nat /\ t \in Nat
    BY <1>1, <1>3, TotalType
  <1>5. ASSUME NEW u \in Users, \A v \in Users : v # u => b[v] = a[v]
        PROVE  t = s - a[u] + b[u]
    BY <1>1, <1>3, <1>5, TotalReplaced
  <1>6. ASSUME a = b PROVE s = t
    BY <1>6
  <1>7. ASSUME NEW g \in Users, NEW h \in Users, g # h, a[g] + a[h] = b[g] + b[h],
               \A v \in Users : v # g /\ v # h => b[v] = a[v]
        PROVE  s = t
    BY <1>1, <1>3, <1>7, TotalMoved
  <1> HIDE DEF s, t
  <1>8. SUFFICES ASSUME s > 0 PROVE y * s >= x * t
    BY <1>2 DEF Pool!PriceKept, x, y
  <1>9. CASE UNCHANGED Pool(lp)!pool_vars
    <2>1. a = b /\ x = y
      BY <1>9 DEF Pool!pool_vars, a, b, x, y
    <2>2. QED
      BY <1>1, <1>4, <1>6, <2>1
  <1>10. ASSUME NEW u \in Users, Pool(lp)!Enter(u) PROVE y * s >= x * t
    <2> DEFINE m == b[u] - a[u]
    <2>1. y - x > 0 /\ \A v \in Users : v # u => b[v] = a[v]
      BY <1>10 DEF Pool!Enter, Pool!Only, a, b, x, y
    <2>2. m = IF s = 0 \/ x = 0 THEN y - x ELSE MulRatio(y - x, s, x)
      BY <1>2, <1>10 DEF Pool!Enter, Pool!MulRatio, MulRatio, a, b, x, y
    <2>3. t = s + m
      <3>1. t = s - a[u] + b[u]
        BY <1>5, <2>1
      <3>2. QED
        BY <1>1, <1>4, <3>1
    <2> HIDE DEF m
    <2>4. m \in Nat
      <3>1. y - x \in Nat
        BY <1>1, <2>1
      <3>2. CASE x = 0
        BY <2>2, <3>1, <3>2
      <3>3. CASE x # 0
        BY <1>1, <1>4, <1>8, <2>2, <3>1, <3>3, MulRatioBounds
      <3>4. QED
        BY <3>2, <3>3
    <2>5. x # 0 => m = MulRatio(y - x, s, x)
      BY <1>4, <1>8, <2>2
    <2>6. y > x /\ s \in Nat \ {0}
      BY <1>1, <1>4, <1>8, <2>1
    <2>7. QED
      BY <1>1, <2>3, <2>4, <2>5, <2>6, MintingIsFair
  <1>11. ASSUME NEW u \in Users, Pool(lp)!Leave(u) PROVE y * s >= x * t
    <2>1. /\ \A v \in Users : v # u => b[v] = a[v]
          /\ (x - y) * s <= (a[u] - b[u]) * x
      BY <1>2, <1>11 DEF Pool!Leave, Pool!Only, a, b, x, y
    <2>2. t = s - a[u] + b[u]
      BY <1>5, <2>1
    <2>3. a[u] - b[u] = s - t
      BY <1>1, <1>4, <2>2
    <2>4. (x - y) * s <= (s - t) * x
      BY <2>1, <2>3
    <2>5. QED
      BY <1>1, <1>4, <2>4, BurningIsFair
  <1>12. ASSUME NEW g \in Users, NEW h \in Users, g # h, Pool(lp)!Move(g, h) PROVE y * s >= x * t
    <2> DEFINE m == a[g] - b[g]
    <2>1. /\ m \in 1 .. a[g] /\ x = y
          /\ b = [a EXCEPT ![g] = @ - m, ![h] = @ + m]
      BY <1>12 DEF Pool!Move, a, b, x, y
    <2> HIDE DEF m
    <2>2. /\ b[g] = a[g] - m /\ b[h] = a[h] + m
          /\ \A v \in Users : v # g /\ v # h => b[v] = a[v]
      BY <1>1, <1>12, <2>1
    <2>3. a[g] + a[h] = b[g] + b[h]
      BY <1>1, <2>1, <2>2
    <2>4. s = t
      BY <1>7, <1>12, <2>2, <2>3
    <2>5. QED
      BY <1>1, <1>4, <2>1, <2>4
  <1>13. CASE Pool(lp)!Gain
    <2>1. a = b /\ y > x
      BY <1>13 DEF Pool!Gain, a, b, x, y
    <2>2. QED
      BY <1>1, <1>4, <1>6, <2>1, TimesMonotone
  <1>14. CASE Pool(lp)!Donate
    <2>1. a = b /\ x = y
      BY <1>14 DEF Pool!Donate, a, b, x, y
    <2>2. QED
      BY <1>1, <1>4, <1>6, <2>1
  <1>15. QED
    BY <1>9, <1>10, <1>11, <1>12, <1>13, <1>14 DEF Pool!Next

\* The LP behind a share of any pool never becomes less (calc_bond_share,
\* calc_bond_amount), over whole transactions: no deposit, withdrawal, claim or
\* failure between the messages of a transaction dilutes those who hold on.
THEOREM PricesNeverFall == Spec => SharePricesNeverFall
  <1>1. IInv /\ IInv' /\ [\A lp \in LpTokens : [Pool(lp)!Next]_(Pool(lp)!pool_vars)]_vars
           => \A lp \in LpTokens : Pool(lp)!PriceKept
    <2> SUFFICES ASSUME IInv, IInv', NEW lp \in LpTokens,
                        [\A l \in LpTokens : [Pool(l)!Next]_(Pool(l)!pool_vars)]_vars
                 PROVE  Pool(lp)!PriceKept
      OBVIOUS
    <2>1. CASE UNCHANGED vars
      <3>1. State' = State /\ queue' = queue /\ undo' = undo
        BY <2>1 DEF vars, bond, State
      <3>2. Settled' = Settled
        BY <3>1 DEF Settled
      <3>3. UNCHANGED Pool(lp)!pool_vars
        BY <3>2 DEF Pool!pool_vars
      <3>4. QED
        BY <3>3, PoolIsFair
    <2>2. QED
      BY <2>1, PoolIsFair
  <1>2. QED
    BY <1>1, Invariance, Refines, PTL DEF ImplementsSharePools, SharePricesNeverFall
=============================================================================
