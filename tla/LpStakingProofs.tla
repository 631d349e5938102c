-------------------------- MODULE LpStakingProofs --------------------------
(***************************************************************************)
(* Theorems about LpStaking for every set of stakers, every schedule and   *)
(* every scale of the decimals.                                            *)
(***************************************************************************)
EXTENDS LpStaking, RatiosTheorems

-----------------------------------------------------------------------------
(* Decimals and distributions *)

\* A ratio of naturals is a natural.
LEMMA FromRatioType ==
    ASSUME NEW num \in Nat, NEW den \in Nat \ {0}
    PROVE  FromRatio(num, den) \in Nat
  <1>1. SCALE \in Nat
    BY DecimalAssumption
  <1>2. num * SCALE \in Nat
    BY <1>1
  <1>3. QED
    BY <1>2, DivBounds DEF FromRatio

\* What an amount is worth grows with the index.
LEMMA TimesDecimalMonotone ==
    ASSUME NEW amount \in Nat, NEW low \in Nat, NEW high \in Nat, low <= high
    PROVE  /\ TimesDecimal(amount, low) \in Nat /\ TimesDecimal(amount, high) \in Nat
           /\ TimesDecimal(amount, low) <= TimesDecimal(amount, high)
  <1>1. SCALE \in Nat \ {0}
    BY DecimalAssumption
  <1>2. amount * low \in Nat /\ amount * high \in Nat /\ amount * low <= amount * high
    BY TimesMonotone
  <1>3. QED
    BY <1>1, <1>2, DivBounds, DivMonotone DEF TimesDecimal

\* Where compute_reward does not fail, what it distributes is a natural.
LEMMA DistributedType ==
    ASSUME NEW sch \in [Schedules -> Nat], NEW from \in Nat, NEW to \in Nat, from <= to,
           Computable(sch, from, to)
    PROVE  DistributedAmount(sch, from, to) \in Nat
  <1> DEFINE seconds(s) == AtMost(s.end, to) - Later(s.start, from)
             part(s) == IF sch[s] > 0 /\ Active(s, from, to)
                        THEN sch[s] * Released(s, seconds(s)) ELSE 0
             parts == [s \in Schedules |-> part(s)]
  <1>1. ASSUME NEW s \in Schedules PROVE part(s) \in Nat
    <2>1. CASE sch[s] > 0 /\ Active(s, from, to)
      <3>1. s.start \in Nat /\ s.end \in Nat /\ s.amount \in Nat
        BY StakingAssumption
      <3>2. s.start < s.end /\ s.start <= to /\ s.end >= from
        BY <2>1 DEF Computable, Active
      <3>3. seconds(s) \in Nat
        BY <3>1, <3>2 DEF AtMost, Later
      <3>4. s.end - s.start \in Nat \ {0}
        BY <3>1, <3>2
      <3> HIDE DEF seconds
      <3>5. FromRatio(s.amount, s.end - s.start) \in Nat
        BY <3>1, <3>4, FromRatioType
      <3>6. Released(s, seconds(s)) \in Nat
        BY <3>3, <3>5, TimesDecimalMonotone DEF Released
      <3>7. sch[s] \in Nat
        OBVIOUS
      <3>8. QED
        BY <2>1, <3>6, <3>7
    <2>2. CASE ~(sch[s] > 0 /\ Active(s, from, to))
      BY <2>2
    <2>3. QED
      BY <2>1, <2>2
  <1> HIDE DEF part
  <1>2. parts \in [Schedules -> Nat]
    BY <1>1
  <1>3. Total(parts) \in Nat
    BY <1>2, TotalType, StakingAssumption
  <1>4. QED
    BY <1>3 DEF DistributedAmount, part, seconds

\* A credit brings the record to the index and takes nothing back.
LEMMA CreditedRecord ==
    ASSUME NEW info \in RewardInfo, NEW index \in Nat, info.reward_index <= index
    PROVE  /\ Credited(info, index) \in RewardInfo
           /\ Credited(info, index).reward_index = index
           /\ Credited(info, index).bond_amount = info.bond_amount
           /\ Credited(info, index).pending_reward >= info.pending_reward
  <1> DEFINE was == TimesDecimal(info.bond_amount, info.reward_index)
             is == TimesDecimal(info.bond_amount, index)
  <1>1. info.bond_amount \in Nat /\ info.reward_index \in Nat /\ info.pending_reward \in Nat
    BY DEF RewardInfo
  <1>2. was \in Nat /\ is \in Nat /\ was <= is
    BY <1>1, TimesDecimalMonotone
  <1> HIDE DEF was, is
  <1>3. info.pending_reward + (is - was) \in Nat
        /\ info.pending_reward + (is - was) >= info.pending_reward
    BY <1>1, <1>2
  <1>4. QED
    BY <1>1, <1>3 DEF Credited, RewardInfo, was, is

-----------------------------------------------------------------------------
(***************************************************************************)
(* The inductive invariant.  That a credit is a natural number needs every *)
(* record's index to be behind the global one; that an unbond is covered   *)
(* by the total needs the total to be the sum of the stakes.               *)
(***************************************************************************)
IndexBehind == \A u \in Users : reward_infos[u].reward_index <= global_reward_index

SInv == TypeOK /\ BondConservation /\ IndexBehind

Bonds(infos) == [u \in Users |-> infos[u].bond_amount]

\* The total of the stakes after one record is replaced.
LEMMA StakeUpdate ==
    ASSUME NEW infos \in [Users -> RewardInfo], NEW u \in Users, NEW r \in RewardInfo,
           NEW new, new = [infos EXCEPT ![u] = r]
    PROVE  /\ new \in [Users -> RewardInfo]
           /\ Total(Bonds(infos)) \in Nat
           /\ infos[u].bond_amount <= Total(Bonds(infos))
           /\ Total(Bonds(new)) = Total(Bonds(infos)) - infos[u].bond_amount + r.bond_amount
  <1>1. IsFiniteSet(Users)
    BY StakingAssumption
  <1>2. Bonds(infos) \in [Users -> Nat] /\ r.bond_amount \in Nat
    BY DEF Bonds, RewardInfo
  <1>3. Bonds(new) = [Bonds(infos) EXCEPT ![u] = r.bond_amount]
    BY DEF Bonds
  <1>4. Bonds(infos)[u] = infos[u].bond_amount
    BY DEF Bonds
  <1>5. Total(Bonds(infos)) \in Nat /\ Bonds(infos)[u] <= Total(Bonds(infos))
    BY <1>1, <1>2, TotalType, TotalBoundsEach
  <1>6. Total([Bonds(infos) EXCEPT ![u] = r.bond_amount])
          = Total(Bonds(infos)) - Bonds(infos)[u] + r.bond_amount
    BY <1>1, <1>2, TotalUpdate
  <1>7. QED
    BY <1>3, <1>4, <1>5, <1>6

\* compute_reward never lowers the index.
LEMMA ComputeRewardStep ==
    ASSUME SInv, ComputeReward
    PROVE  /\ last_distributed' = now
           /\ global_reward_index' \in Nat /\ global_reward_index <= global_reward_index'
           /\ distributed' \in Nat
  <1>1. /\ last_distributed \in Nat /\ now \in Nat /\ last_distributed <= now
        /\ total_bond_amount \in Nat /\ global_reward_index \in Nat /\ distributed \in Nat
        /\ schedule \in [Schedules -> Nat]
    BY DEF SInv, TypeOK
  <1>2. CASE total_bond_amount = 0
    BY <1>1, <1>2 DEF ComputeReward
  <1>3. CASE total_bond_amount # 0
    <2> DEFINE amount == DistributedAmount(schedule, last_distributed, now)
    <2>1. /\ Computable(schedule, last_distributed, now) /\ last_distributed' = now
          /\ global_reward_index' = global_reward_index + FromRatio(amount, total_bond_amount)
          /\ distributed' = distributed + amount
      BY <1>3 DEF ComputeReward, NextIndex
    <2>2. amount \in Nat
      <3> DEFINE sch == schedule
                 from == last_distributed
                 to == now
      <3>1. sch \in [Schedules -> Nat] /\ from \in Nat /\ to \in Nat /\ from <= to
            /\ Computable(sch, from, to)
        BY <1>1, <2>1
      <3> HIDE DEF sch, from, to
      <3>2. DistributedAmount(sch, from, to) \in Nat
        BY <3>1, DistributedType
      <3>3. QED
        BY <3>2 DEF sch, from, to
    <2> HIDE DEF amount
    <2>3. FromRatio(amount, total_bond_amount) \in Nat
      BY <1>1, <1>3, <2>2, FromRatioType
    <2>4. QED
      BY <1>1, <2>1, <2>2, <2>3
  <1>4. QED
    BY <1>2, <1>3

\* A record of no stake and no reward is the record of an account never seen.
LEMMA StoredRecord ==
    ASSUME NEW info \in RewardInfo
    PROVE  /\ Stored(info) \in RewardInfo
           /\ Stored(info).bond_amount = info.bond_amount
           /\ Stored(info).reward_index <= info.reward_index
  BY DEF Stored, NoInfo, RewardInfo

-----------------------------------------------------------------------------
(* Every step *)

\* One record changes, and the total by as much as its stake.
LEMMA StakerStep ==
    ASSUME SInv, NEW user \in Users, NEW r \in RewardInfo,
           global_reward_index' \in Nat, global_reward_index <= global_reward_index',
           r.reward_index <= global_reward_index',
           reward_infos' = [reward_infos EXCEPT ![user] = r],
           total_bond_amount' = total_bond_amount - reward_infos[user].bond_amount + r.bond_amount
    PROVE  /\ reward_infos' \in [Users -> RewardInfo]
           /\ total_bond_amount' \in Nat
           /\ BondConservation'
           /\ IndexBehind'
  <1>1. reward_infos \in [Users -> RewardInfo] /\ global_reward_index \in Nat
        /\ total_bond_amount \in Nat
    BY DEF SInv, TypeOK
  <1>2. Total(Bonds(reward_infos)) = total_bond_amount
    BY DEF SInv, BondConservation, Bonds
  <1>3. r.bond_amount \in Nat /\ reward_infos[user].bond_amount \in Nat
    BY <1>1 DEF RewardInfo
  <1> DEFINE infos == reward_infos
             new == reward_infos'
  <1>4. infos \in [Users -> RewardInfo] /\ new = [infos EXCEPT ![user] = r]
    BY <1>1
  <1> HIDE DEF infos, new
  <1>5. /\ new \in [Users -> RewardInfo]
        /\ infos[user].bond_amount <= Total(Bonds(infos))
    BY <1>4, StakeUpdate
  <1>6. Total(Bonds(new)) = Total(Bonds(infos)) - infos[user].bond_amount + r.bond_amount
    BY <1>4, StakeUpdate
  <1>7. /\ total_bond_amount' \in Nat
        /\ Total(Bonds(new)) = total_bond_amount'
    BY <1>1, <1>2, <1>3, <1>5, <1>6 DEF infos
  <1>8. BondConservation'
    BY <1>7 DEF BondConservation, Bonds, new
  <1>9. \A u \in Users : reward_infos[u].reward_index \in Nat
    BY <1>1 DEF RewardInfo
  <1>10. \A u \in Users : reward_infos'[u].reward_index <= global_reward_index'
    <2>1. SUFFICES ASSUME NEW u \in Users
                   PROVE  reward_infos'[u].reward_index <= global_reward_index'
      OBVIOUS
    <2>2. CASE u = user
      BY <1>1, <2>2
    <2>3. CASE u # user
      <3>1. reward_infos'[u] = reward_infos[u]
        BY <1>1, <2>3
      <3>2. reward_infos[u].reward_index <= global_reward_index
        BY DEF SInv, IndexBehind
      <3>3. QED
        BY <1>1, <1>9, <3>1, <3>2
    <2>4. QED
      BY <2>2, <2>3
  <1>11. QED
    BY <1>5, <1>7, <1>8, <1>10 DEF new, IndexBehind

\* Nothing is bonded at first.
LEMMA InitInvariant == Init => SInv
  <1> SUFFICES ASSUME Init PROVE SInv
    OBVIOUS
  <1> USE DEF Init
  <1>1. MaxCopies \in Nat
    BY StakingAssumption
  <1>2. schedule \in [Schedules -> Nat]
    BY <1>1
  <1>3. TypeOK
    BY <1>2 DEF TypeOK, NoInfo, RewardInfo
  <1>4. [u \in Users |-> reward_infos[u].bond_amount] = [u \in Users |-> 0]
    BY DEF NoInfo
  <1>5. BondConservation
    BY <1>4, TotalOfZeros DEF BondConservation
  <1>6. IndexBehind
    BY DEF IndexBehind, NoInfo
  <1>7. QED
    BY <1>3, <1>5, <1>6 DEF SInv

\* Every step keeps the invariant.
LEMMA NextInvariant == ASSUME SInv, [Next]_vars PROVE SInv'
  <1>1. /\ last_distributed \in Nat /\ now \in Nat /\ last_distributed <= now
        /\ total_bond_amount \in Nat /\ global_reward_index \in Nat /\ distributed \in Nat
        /\ reward_infos \in [Users -> RewardInfo] /\ schedule \in [Schedules -> Nat]
        /\ paid \in [Users -> Nat] /\ changes \in Nat
    BY DEF SInv, TypeOK
  <1>2. Amounts \subseteq Nat /\ MaxCopies \in Nat
    BY StakingAssumption
  <1>3. ASSUME NEW u \in Users, ComputeReward
        PROVE  LET info == Credited(reward_infos[u], global_reward_index')
               IN  /\ info \in RewardInfo /\ info.reward_index = global_reward_index'
                   /\ info.bond_amount = reward_infos[u].bond_amount
                   /\ info.pending_reward >= reward_infos[u].pending_reward
    <2> DEFINE old == reward_infos[u]
               index == global_reward_index'
    <2>1. old \in RewardInfo /\ old.reward_index \in Nat /\ old.reward_index <= global_reward_index
      BY <1>1 DEF SInv, IndexBehind, RewardInfo
    <2>2. index \in Nat /\ old.reward_index <= index
      BY <1>1, <1>3, <2>1, ComputeRewardStep
    <2> HIDE DEF old, index
    <2>3. Credited(old, index) \in RewardInfo /\ Credited(old, index).reward_index = index
      BY <2>1, <2>2, CreditedRecord
    <2>4. Credited(old, index).bond_amount = old.bond_amount
          /\ Credited(old, index).pending_reward >= old.pending_reward
      BY <2>1, <2>2, CreditedRecord
    <2>5. QED
      BY <2>3, <2>4 DEF old, index
  <1>4. ASSUME NEW u \in Users, NEW a \in Amounts, Bond(u, a) PROVE SInv'
    <2> DEFINE info == Credited(reward_infos[u], global_reward_index')
               new == [info EXCEPT !.bond_amount = info.bond_amount + a]
    <2>1. /\ ComputeReward /\ total_bond_amount' = total_bond_amount + a
          /\ reward_infos' = [reward_infos EXCEPT ![u] = new]
          /\ changes' = changes + 1 /\ schedule' = schedule /\ now' = now /\ paid' = paid
      BY <1>4 DEF Bond
    <2>2. /\ last_distributed' = now /\ global_reward_index' \in Nat
          /\ global_reward_index <= global_reward_index' /\ distributed' \in Nat
      BY <2>1, ComputeRewardStep
    <2>3. info \in RewardInfo /\ info.reward_index = global_reward_index'
          /\ info.bond_amount = reward_infos[u].bond_amount
      BY <1>3, <2>1
    <2> HIDE DEF info
    <2>4. new \in RewardInfo /\ new.bond_amount = info.bond_amount + a
          /\ new.reward_index <= global_reward_index'
      BY <1>2, <2>2, <2>3 DEF RewardInfo
    <2> HIDE DEF new
    <2>5. reward_infos[u].bond_amount \in Nat
      BY <1>1 DEF RewardInfo
    <2>6. total_bond_amount' = total_bond_amount - reward_infos[u].bond_amount + new.bond_amount
      BY <1>1, <1>2, <2>1, <2>3, <2>4, <2>5
    <2>7. /\ reward_infos' \in [Users -> RewardInfo] /\ total_bond_amount' \in Nat
          /\ BondConservation' /\ IndexBehind'
      BY <2>1, <2>2, <2>4, <2>6, StakerStep
    <2>8. QED
      BY <1>1, <2>1, <2>2, <2>7 DEF SInv, TypeOK
  <1>5. ASSUME NEW u \in Users, NEW a \in Amounts, Unbond(u, a) PROVE SInv'
    <2> DEFINE info == Credited(reward_infos[u], global_reward_index')
               left == [info EXCEPT !.bond_amount = info.bond_amount - a]
               new == Stored(left)
    <2>1. /\ ComputeReward /\ total_bond_amount' = total_bond_amount - a
          /\ a <= reward_infos[u].bond_amount
          /\ reward_infos' = [reward_infos EXCEPT ![u] = new]
          /\ changes' = changes + 1 /\ schedule' = schedule /\ now' = now /\ paid' = paid
      BY <1>5 DEF Unbond
    <2>2. /\ last_distributed' = now /\ global_reward_index' \in Nat
          /\ global_reward_index <= global_reward_index' /\ distributed' \in Nat
      BY <2>1, ComputeRewardStep
    <2>3. info \in RewardInfo /\ info.reward_index = global_reward_index'
          /\ info.bond_amount = reward_infos[u].bond_amount
      BY <1>3, <2>1
    <2> HIDE DEF info
    <2>4. left \in RewardInfo /\ left.reward_index = info.reward_index
          /\ left.bond_amount = info.bond_amount - a
      BY <1>2, <2>1, <2>3 DEF RewardInfo
    <2> HIDE DEF left
    <2>5. new \in RewardInfo /\ new.bond_amount = info.bond_amount - a
          /\ new.reward_index <= global_reward_index'
      BY <2>3, <2>4, StoredRecord
    <2> HIDE DEF new
    <2>6. reward_infos[u].bond_amount \in Nat
      BY <1>1 DEF RewardInfo
    <2>7. total_bond_amount' = total_bond_amount - reward_infos[u].bond_amount + new.bond_amount
      BY <1>1, <1>2, <2>1, <2>3, <2>5, <2>6
    <2>8. /\ reward_infos' \in [Users -> RewardInfo] /\ total_bond_amount' \in Nat
          /\ BondConservation' /\ IndexBehind'
      BY <2>1, <2>2, <2>5, <2>7, StakerStep
    <2>9. QED
      BY <1>1, <2>1, <2>2, <2>8 DEF SInv, TypeOK
  <1>6. ASSUME NEW u \in Users, Withdraw(u) PROVE SInv'
    <2> DEFINE info == Credited(reward_infos[u], global_reward_index')
    <2>1. ComputeReward /\ total_bond_amount' = total_bond_amount
          /\ schedule' = schedule /\ now' = now /\ changes' = changes
      BY <1>6 DEF Withdraw
    <2>2. PICK a \in {b \in Amounts : b <= info.pending_reward} \cup {info.pending_reward} :
             /\ a > 0
             /\ reward_infos' = [reward_infos EXCEPT ![u] =
                   Stored([info EXCEPT !.pending_reward = info.pending_reward - a])]
             /\ paid' = [paid EXCEPT ![u] = @ + a]
      BY <1>6 DEF Withdraw
    <2>3. /\ last_distributed' = now /\ global_reward_index' \in Nat
          /\ global_reward_index <= global_reward_index' /\ distributed' \in Nat
      BY <2>1, ComputeRewardStep
    <2>4. info \in RewardInfo /\ info.reward_index = global_reward_index'
          /\ info.bond_amount = reward_infos[u].bond_amount
      BY <1>3, <2>1
    <2> HIDE DEF info
    <2>5. info.pending_reward \in Nat
      BY <2>4 DEF RewardInfo
    <2>6. a \in Nat /\ a <= info.pending_reward
      BY <1>2, <2>5
    <2> DEFINE left == [info EXCEPT !.pending_reward = info.pending_reward - a]
               new == Stored(left)
    <2>7. left \in RewardInfo /\ left.reward_index = info.reward_index
          /\ left.bond_amount = info.bond_amount
      BY <2>4, <2>5, <2>6 DEF RewardInfo
    <2>8. reward_infos' = [reward_infos EXCEPT ![u] = new]
      BY <2>2
    <2> HIDE DEF left
    <2>9. new \in RewardInfo /\ new.bond_amount = info.bond_amount
          /\ new.reward_index <= global_reward_index'
      BY <2>4, <2>7, StoredRecord
    <2> HIDE DEF new
    <2>10. reward_infos[u].bond_amount \in Nat
      BY <1>1 DEF RewardInfo
    <2>11. total_bond_amount' = total_bond_amount - reward_infos[u].bond_amount + new.bond_amount
      BY <1>1, <2>1, <2>4, <2>9, <2>10
    <2>12. /\ reward_infos' \in [Users -> RewardInfo] /\ total_bond_amount' \in Nat
           /\ BondConservation' /\ IndexBehind'
      BY <2>3, <2>8, <2>9, <2>11, StakerStep
    <2>13. paid' \in [Users -> Nat]
      BY <1>1, <2>2, <2>6
    <2>14. QED
      BY <1>1, <2>1, <2>3, <2>12, <2>13 DEF SInv, TypeOK
  <1>7. ASSUME NEW new \in [Schedules -> 0 .. MaxCopies], UpdateConfig(new) PROVE SInv'
    <2>1. schedule' \in [Schedules -> Nat]
      BY <1>2, <1>7 DEF UpdateConfig
    <2>2. QED
      BY <1>1, <1>7, <2>1
      DEF UpdateConfig, state, SInv, TypeOK, BondConservation, IndexBehind
  <1>8. CASE Tick
    BY <1>1, <1>8 DEF Tick, state, SInv, TypeOK, BondConservation, IndexBehind
  <1>9. CASE UNCHANGED vars
    BY <1>9 DEF vars, state, SInv, TypeOK, BondConservation, IndexBehind
  <1>10. QED
    BY <1>4, <1>5, <1>6, <1>7, <1>8, <1>9 DEF Next

-----------------------------------------------------------------------------
(* The theorems *)

\* The inductive invariant holds in every state.
THEOREM Invariance == Spec => []SInv
  BY InitInvariant, NextInvariant, PTL DEF Spec

\* Every variable keeps its type: no subtraction of the code leaves the
\* naturals, and last_distributed never runs ahead of the clock.
THEOREM TypeCorrect == Spec => []TypeOK
  <1>1. SInv => TypeOK
    BY DEF SInv
  <1>2. QED
    BY <1>1, Invariance, PTL

\* total_bond_amount is the sum of the stakes (increase_bond_amount and
\* decrease_bond_amount write the two apart).
THEOREM StakesConserved == Spec => []BondConservation
  <1>1. SInv => BondConservation
    BY DEF SInv
  <1>2. QED
    BY <1>1, Invariance, PTL

\* The subtractions on the way to unbond's transfer do not fail.
THEOREM NobodyIsKept == Spec => []StakersCanLeave
  <1>1. SInv => StakersCanLeave
    <2> SUFFICES ASSUME SInv, NEW u \in Users
                 PROVE  /\ reward_infos[u].bond_amount <= total_bond_amount
                        /\ reward_infos[u].reward_index <= global_reward_index
      BY DEF StakersCanLeave
    <2>1. IsFiniteSet(Users)
      BY StakingAssumption
    <2>2. Bonds(reward_infos) \in [Users -> Nat]
      BY DEF SInv, TypeOK, Bonds, RewardInfo
    <2>3. Bonds(reward_infos)[u] <= Total(Bonds(reward_infos))
      BY <2>1, <2>2, TotalBoundsEach
    <2>4. QED
      BY <2>3 DEF SInv, BondConservation, Bonds, IndexBehind
  <1>2. QED
    BY <1>1, Invariance, PTL

-----------------------------------------------------------------------------
(***************************************************************************)
(* lp_staking never owes its stakers more than it has distributed, but for *)
(* less than one token per bond or unbond: for every set of stakers, every *)
(* schedule and every scale of the decimals.                               *)
(*                                                                         *)
(* The argument: SCALE times what was paid and credited, and the stakes at *)
(* the present index, are covered by SCALE times what was distributed and  *)
(* what each record had at its own index.  A distribution adds to both     *)
(* sides, a credit moves a part from one to the other whatever it          *)
(* truncates, and only a change of a stake truncates anew.                 *)
(***************************************************************************)

Pending(infos) == [u \in Users |-> infos[u].pending_reward]

\* What each record has been credited up to its own index.
Base(infos) == [u \in Users |-> TimesDecimal(infos[u].bond_amount, infos[u].reward_index)]

Accounted ==
    SCALE * (Total(paid) + Total(Pending(reward_infos))) + total_bond_amount * global_reward_index
        <= SCALE * (distributed + changes + Total(Base(reward_infos)))

LEMMA TimesType == \A a, b \in Nat : a * b \in Nat
  OBVIOUS

\* What is left of the products when a stake changes, by `d' at the index.
LEMMA StakeChange ==
    ASSUME NEW is \in Nat, NEW base \in Nat, NEW stake \in Nat, NEW total \in Nat,
           NEW d \in Int, NEW done \in Nat, NEW one \in Nat,
           is <= stake, stake + d < base + one
    PROVE  is + (total + d) + done <= total + (done + one) + base
  OBVIOUS

\* A product with a decimal, truncated.
LEMMA TimesDecimalBounds ==
    ASSUME NEW amount \in Nat, NEW index \in Nat
    PROVE  /\ TimesDecimal(amount, index) \in Nat
           /\ SCALE * TimesDecimal(amount, index) <= amount * index
           /\ amount * index < SCALE * TimesDecimal(amount, index) + SCALE
  <1>1. amount * index \in Nat
    OBVIOUS
  <1>2. QED
    BY <1>1, DivBounds, DecimalAssumption DEF TimesDecimal

LEMMA TimesDecimalOfZero == ASSUME NEW index \in Nat PROVE TimesDecimal(0, index) = 0
  <1>1. SCALE * TimesDecimal(0, index) <= 0 /\ TimesDecimal(0, index) \in Nat
    BY TimesDecimalBounds
  <1>2. QED
    BY <1>1, DecimalAssumption

\* The ledgers of a set of records.
LEMMA LedgerTypes ==
    ASSUME NEW infos \in [Users -> RewardInfo]
    PROVE  /\ Pending(infos) \in [Users -> Nat] /\ Base(infos) \in [Users -> Nat]
           /\ Total(Pending(infos)) \in Nat /\ Total(Base(infos)) \in Nat
  <1>1. IsFiniteSet(Users)
    BY StakingAssumption
  <1>2. Pending(infos) \in [Users -> Nat]
    BY DEF Pending, RewardInfo
  <1>3. \A u \in Users : infos[u].bond_amount \in Nat /\ infos[u].reward_index \in Nat
    BY DEF RewardInfo
  <1>4. Base(infos) \in [Users -> Nat]
    BY <1>3, TimesDecimalBounds DEF Base
  <1>5. QED
    BY <1>1, <1>2, <1>4, TotalType

\* The totals after one record is replaced.
LEMMA LedgerUpdate ==
    ASSUME NEW infos \in [Users -> RewardInfo], NEW u \in Users, NEW r \in RewardInfo,
           NEW new, new = [infos EXCEPT ![u] = r]
    PROVE  /\ Total(Pending(new))
                = Total(Pending(infos)) - infos[u].pending_reward + r.pending_reward
           /\ Total(Base(new))
                = Total(Base(infos)) - TimesDecimal(infos[u].bond_amount, infos[u].reward_index)
                    + TimesDecimal(r.bond_amount, r.reward_index)
  <1>1. IsFiniteSet(Users)
    BY StakingAssumption
  <1>2. Pending(infos) \in [Users -> Nat] /\ Base(infos) \in [Users -> Nat]
    BY LedgerTypes
  <1>3. r.pending_reward \in Nat /\ TimesDecimal(r.bond_amount, r.reward_index) \in Nat
    BY TimesDecimalBounds DEF RewardInfo
  <1>4. Pending(new) = [Pending(infos) EXCEPT ![u] = r.pending_reward]
        /\ Pending(infos)[u] = infos[u].pending_reward
    BY DEF Pending
  <1>5. Base(new) = [Base(infos) EXCEPT ![u] = TimesDecimal(r.bond_amount, r.reward_index)]
        /\ Base(infos)[u] = TimesDecimal(infos[u].bond_amount, infos[u].reward_index)
    BY DEF Base
  <1>6. Total([Pending(infos) EXCEPT ![u] = r.pending_reward])
          = Total(Pending(infos)) - Pending(infos)[u] + r.pending_reward
    BY <1>1, <1>2, <1>3, TotalUpdate
  <1>7. Total([Base(infos) EXCEPT ![u] = TimesDecimal(r.bond_amount, r.reward_index)])
          = Total(Base(infos)) - Base(infos)[u] + TimesDecimal(r.bond_amount, r.reward_index)
    BY <1>1, <1>2, <1>3, TotalUpdate
  <1>8. QED
    BY <1>4, <1>5, <1>6, <1>7

\* A distribution raises the index by no more than it distributes.
LEMMA DistributionCovered ==
    ASSUME SInv, ComputeReward
    PROVE  /\ total_bond_amount * global_reward_index' + SCALE * distributed
                <= total_bond_amount * global_reward_index + SCALE * distributed'
           /\ global_reward_index' \in Nat /\ distributed' \in Nat
  <1>1. global_reward_index' \in Nat /\ distributed' \in Nat
    BY ComputeRewardStep
  <1>2. /\ last_distributed \in Nat /\ now \in Nat /\ last_distributed <= now
        /\ total_bond_amount \in Nat /\ global_reward_index \in Nat /\ distributed \in Nat
        /\ schedule \in [Schedules -> Nat] /\ SCALE \in Nat
    BY DecimalAssumption DEF SInv, TypeOK
  <1>3. CASE total_bond_amount = 0
    BY <1>1, <1>2, <1>3 DEF ComputeReward
  <1>4. CASE total_bond_amount # 0
    <2> DEFINE amount == DistributedAmount(schedule, last_distributed, now)
               part == FromRatio(amount, total_bond_amount)
    <2>1. /\ Computable(schedule, last_distributed, now)
          /\ global_reward_index' = global_reward_index + part
          /\ distributed' = distributed + amount
      BY <1>4 DEF ComputeReward, NextIndex
    <2>2. amount \in Nat
      BY <1>2, <2>1, DistributedType
    <2> HIDE DEF amount
    <2>3. amount * SCALE \in Nat
      BY <1>2, <2>2
    <2>4. part \in Nat /\ total_bond_amount * part <= amount * SCALE
      BY <1>2, <1>4, <2>3, DivBounds DEF FromRatio
    <2> HIDE DEF part
    <2>5. /\ total_bond_amount * (global_reward_index + part)
               = total_bond_amount * global_reward_index + total_bond_amount * part
          /\ SCALE * (distributed + amount) = SCALE * distributed + amount * SCALE
          /\ total_bond_amount * global_reward_index \in Nat
          /\ total_bond_amount * part \in Nat /\ SCALE * distributed \in Nat
      BY <1>2, <2>2, <2>4
    <2>6. QED
      BY <1>1, <2>1, <2>3, <2>4, <2>5
  <1>5. QED
    BY <1>3, <1>4

\* One record changes: `drawn' is paid, the rest of the credit is pending,
\* and what the new record has at its index makes up for the change of the
\* total, but for one token if a stake changed.
LEMMA AccountedStep ==
    ASSUME SInv, Accounted, ComputeReward,
           NEW u \in Users, NEW r \in RewardInfo, NEW drawn \in Nat,
           total_bond_amount' \in Nat, changes' \in Nat,
           reward_infos' = [reward_infos EXCEPT ![u] = r],
           Total(paid') = Total(paid) + drawn,
           r.pending_reward + drawn
               = reward_infos[u].pending_reward
                   + (TimesDecimal(reward_infos[u].bond_amount, global_reward_index')
                      - TimesDecimal(reward_infos[u].bond_amount, reward_infos[u].reward_index)),
           SCALE * TimesDecimal(reward_infos[u].bond_amount, global_reward_index')
               + total_bond_amount' * global_reward_index' + SCALE * changes
               <= total_bond_amount * global_reward_index' + SCALE * changes'
                  + SCALE * TimesDecimal(r.bond_amount, r.reward_index)
    PROVE  Accounted'
  <1> DEFINE old  == reward_infos[u]
             is   == TimesDecimal(old.bond_amount, global_reward_index')
             was  == TimesDecimal(old.bond_amount, old.reward_index)
             base == TimesDecimal(r.bond_amount, r.reward_index)
             P  == Total(paid)
             Q  == Total(Pending(reward_infos))
             B  == Total(Base(reward_infos))
             PP == Total(paid')
             QQ == Total(Pending(reward_infos'))
             BB == Total(Base(reward_infos'))
             S  == SCALE
             TG == total_bond_amount * global_reward_index
             TI == total_bond_amount * global_reward_index'
             TT == total_bond_amount' * global_reward_index'
  <1>1. /\ total_bond_amount \in Nat /\ global_reward_index \in Nat /\ distributed \in Nat
        /\ changes \in Nat /\ S \in Nat /\ paid \in [Users -> Nat]
        /\ reward_infos \in [Users -> RewardInfo] /\ IsFiniteSet(Users)
    BY DecimalAssumption, StakingAssumption DEF SInv, TypeOK
  <1>2. /\ old \in RewardInfo
        /\ old.bond_amount \in Nat /\ old.reward_index \in Nat /\ old.pending_reward \in Nat
        /\ r.bond_amount \in Nat /\ r.reward_index \in Nat /\ r.pending_reward \in Nat
    BY <1>1 DEF RewardInfo
  <1>3. global_reward_index' \in Nat /\ distributed' \in Nat
        /\ TI + S * distributed <= TG + S * distributed'
    BY DistributionCovered
  <1>4. is \in Nat /\ was \in Nat /\ base \in Nat
    BY <1>2, <1>3, TimesDecimalBounds
  <1>5. P \in Nat /\ Q \in Nat /\ B \in Nat
    BY <1>1, TotalType, LedgerTypes
  <1>6. QQ = Q - old.pending_reward + r.pending_reward /\ BB = B - was + base
    BY <1>1, LedgerUpdate
  <1>7. PP = P + drawn
        /\ r.pending_reward + drawn = old.pending_reward + (is - was)
    OBVIOUS
  <1>8. S * (P + Q) + TG <= S * (distributed + changes + B)
    BY DEF Accounted
  <1>9. S * is + TT + S * changes <= TI + S * changes' + S * base
    OBVIOUS
  <1>10. TG \in Nat /\ TI \in Nat /\ TT \in Nat
    BY <1>1, <1>3, TimesType
  <1>11. Accounted' <=> S * (PP + QQ) + TT <= S * (distributed' + changes' + BB)
    BY DEF Accounted, Pending, Base
  <1>12. PP + QQ = P + Q + is - was
    BY <1>2, <1>4, <1>5, <1>6, <1>7
  <1> HIDE DEF old, is, was, base, P, Q, B, PP, QQ, BB, S, TG, TI, TT
  <1>13. /\ S * (P + Q + is - was) = S * (P + Q) + S * is - S * was
         /\ S * (distributed' + changes' + (B - was + base))
              = S * distributed' + S * changes' + S * B - S * was + S * base
         /\ S * (distributed + changes + B) = S * distributed + S * changes + S * B
    BY <1>1, <1>3, <1>4, <1>5
  <1>14. /\ S * (P + Q) \in Nat /\ S * is \in Nat /\ S * was \in Nat /\ S * base \in Nat
         /\ S * distributed \in Nat /\ S * distributed' \in Nat
         /\ S * changes \in Nat /\ S * changes' \in Nat /\ S * B \in Nat
    <2>1. P + Q \in Nat
      BY <1>5
    <2>2. QED
      BY <1>1, <1>3, <1>4, <1>5, <2>1, TimesType, Zenon
  <1>15. S * (P + Q) + S * is - S * was + TT
           <= S * distributed' + S * changes' + S * B - S * was + S * base
    BY <1>3, <1>8, <1>9, <1>10, <1>13, <1>14
  <1>16. S * (PP + QQ) = S * (P + Q) + S * is - S * was
    BY <1>12, <1>13
  <1>17. S * (distributed' + changes' + BB)
           = S * distributed' + S * changes' + S * B - S * was + S * base
    BY <1>6, <1>13
  <1>18. QED
    BY <1>11, <1>15, <1>16, <1>17
-----------------------------------------------------------------------------
(* Every step *)

\* The credit every handler of a staker computes.
LEMMA CreditOf ==
    ASSUME SInv, ComputeReward, NEW u \in Users
    PROVE  LET old  == reward_infos[u]
               info == Credited(old, global_reward_index')
           IN  /\ old.bond_amount \in Nat /\ old.reward_index \in Nat
               /\ info \in RewardInfo
               /\ info.reward_index = global_reward_index'
               /\ info.bond_amount = old.bond_amount
               /\ info.pending_reward = old.pending_reward
                    + (TimesDecimal(old.bond_amount, global_reward_index')
                       - TimesDecimal(old.bond_amount, old.reward_index))
  <1> DEFINE old == reward_infos[u]
             index == global_reward_index'
  <1>1. /\ old \in RewardInfo /\ old.bond_amount \in Nat /\ old.reward_index \in Nat
        /\ global_reward_index \in Nat /\ old.reward_index <= global_reward_index
    BY DEF SInv, TypeOK, IndexBehind, RewardInfo
  <1>2. index \in Nat /\ old.reward_index <= index
    BY <1>1, ComputeRewardStep
  <1> HIDE DEF old, index
  <1>3. Credited(old, index) \in RewardInfo /\ Credited(old, index).reward_index = index
        /\ Credited(old, index).bond_amount = old.bond_amount
    BY <1>1, <1>2, CreditedRecord
  <1>4. Credited(old, index).pending_reward = old.pending_reward
            + (TimesDecimal(old.bond_amount, index)
               - TimesDecimal(old.bond_amount, old.reward_index))
    BY DEF Credited
  <1>5. QED
    BY <1>1, <1>3, <1>4 DEF old, index

\* Removing a record of nothing changes none of the ledgers.
LEMMA StoredLedgers ==
    ASSUME NEW info \in RewardInfo
    PROVE  /\ Stored(info).pending_reward = info.pending_reward
           /\ TimesDecimal(Stored(info).bond_amount, Stored(info).reward_index)
                = TimesDecimal(info.bond_amount, info.reward_index)
  <1>1. info.reward_index \in Nat
    BY DEF RewardInfo
  <1>2. TimesDecimal(0, 0) = 0 /\ TimesDecimal(0, info.reward_index) = 0
    BY <1>1, TimesDecimalOfZero
  <1>3. QED
    BY <1>2 DEF Stored, NoInfo

LEMMA BondAccounted ==
    ASSUME SInv, Accounted, NEW u \in Users, NEW a \in Amounts, Bond(u, a)
    PROVE  Accounted'
  <1> DEFINE old  == reward_infos[u]
             info == Credited(old, global_reward_index')
             new  == [info EXCEPT !.bond_amount = info.bond_amount + a]
             is   == TimesDecimal(old.bond_amount, global_reward_index')
             base == TimesDecimal(old.bond_amount + a, global_reward_index')
  <1>1. /\ ComputeReward /\ total_bond_amount' = total_bond_amount + a
        /\ reward_infos' = [reward_infos EXCEPT ![u] = new]
        /\ changes' = changes + 1 /\ paid' = paid
    BY DEF Bond
  <1>2. /\ a \in Nat /\ total_bond_amount \in Nat /\ changes \in Nat /\ SCALE \in Nat
        /\ paid \in [Users -> Nat] /\ IsFiniteSet(Users)
        /\ total_bond_amount' \in Nat /\ changes' \in Nat
    BY <1>1, StakingAssumption, DecimalAssumption DEF SInv, TypeOK
  <1>3. /\ old.bond_amount \in Nat /\ info \in RewardInfo
        /\ info.reward_index = global_reward_index' /\ info.bond_amount = old.bond_amount
        /\ info.pending_reward = old.pending_reward
             + (is - TimesDecimal(old.bond_amount, old.reward_index))
    BY <1>1, CreditOf
  <1>4. global_reward_index' \in Nat /\ old.bond_amount + a \in Nat
    BY <1>1, <1>2, <1>3, DistributionCovered
  <1>5. /\ new \in RewardInfo /\ new.pending_reward = info.pending_reward
        /\ new.bond_amount = old.bond_amount + a /\ new.reward_index = global_reward_index'
        /\ info.pending_reward \in Nat
    BY <1>2, <1>3 DEF RewardInfo
  <1>6. /\ is \in Nat /\ base \in Nat
        /\ SCALE * is <= old.bond_amount * global_reward_index'
        /\ (old.bond_amount + a) * global_reward_index' < SCALE * base + SCALE
    BY <1>2, <1>3, <1>4, TimesDecimalBounds
  <1>7. Total(paid') = Total(paid) + 0
    BY <1>1, <1>2, TotalType
  <1>8. new.pending_reward + 0 = old.pending_reward
            + (is - TimesDecimal(old.bond_amount, old.reward_index))
    BY <1>3, <1>5
  <1>9. SCALE * is + total_bond_amount' * global_reward_index' + SCALE * changes
          <= total_bond_amount * global_reward_index' + SCALE * changes' + SCALE * base
    <2> DEFINE I == global_reward_index'
               b == old.bond_amount
    <2>1. /\ (total_bond_amount + a) * I = total_bond_amount * I + a * I
          /\ (b + a) * I = b * I + a * I
          /\ SCALE * (changes + 1) = SCALE * changes + SCALE
      BY <1>2, <1>3, <1>4
    <2>2. /\ total_bond_amount * I \in Nat /\ a * I \in Nat /\ b * I \in Nat
          /\ SCALE * changes \in Nat /\ SCALE * is \in Nat /\ SCALE * base \in Nat
      BY <1>2, <1>3, <1>4, <1>6, TimesType
    <2> HIDE DEF I, b, is, base
    <2> DEFINE d == a * I
    <2>3. total_bond_amount' * I = total_bond_amount * I + d
          /\ SCALE * changes' = SCALE * changes + SCALE
          /\ d \in Int
      BY <1>1, <2>1, <2>2
    <2>4. SCALE * is <= b * I /\ b * I + d < SCALE * base + SCALE
      BY <1>6, <2>1 DEF I, b
    <2> HIDE DEF d
    <2>5. SCALE * is + total_bond_amount' * I + SCALE * changes
            <= total_bond_amount * I + SCALE * changes' + SCALE * base
      BY <1>2, <2>2, <2>3, <2>4, StakeChange
    <2>6. QED
      BY <2>5 DEF I, is, base
  <1>10. TimesDecimal(new.bond_amount, new.reward_index) = base
    BY <1>5
  <1> HIDE DEF new
  <1>11. QED
    BY <1>1, <1>2, <1>5, <1>7, <1>8, <1>9, <1>10, AccountedStep

LEMMA UnbondAccounted ==
    ASSUME SInv, Accounted, NEW u \in Users, NEW a \in Amounts, Unbond(u, a)
    PROVE  Accounted'
  <1> DEFINE old  == reward_infos[u]
             info == Credited(old, global_reward_index')
             left == [info EXCEPT !.bond_amount = info.bond_amount - a]
             new  == Stored(left)
             is   == TimesDecimal(old.bond_amount, global_reward_index')
             base == TimesDecimal(old.bond_amount - a, global_reward_index')
  <1>1. /\ ComputeReward /\ total_bond_amount' = total_bond_amount - a
        /\ a <= old.bond_amount /\ a <= total_bond_amount
        /\ reward_infos' = [reward_infos EXCEPT ![u] = new]
        /\ changes' = changes + 1 /\ paid' = paid
    BY DEF Unbond
  <1>2. /\ a \in Nat /\ total_bond_amount \in Nat /\ changes \in Nat /\ SCALE \in Nat
        /\ paid \in [Users -> Nat] /\ IsFiniteSet(Users)
        /\ total_bond_amount' \in Nat /\ changes' \in Nat
    BY <1>1, StakingAssumption, DecimalAssumption DEF SInv, TypeOK
  <1>3. /\ old.bond_amount \in Nat /\ info \in RewardInfo
        /\ info.reward_index = global_reward_index' /\ info.bond_amount = old.bond_amount
        /\ info.pending_reward = old.pending_reward
             + (is - TimesDecimal(old.bond_amount, old.reward_index))
    BY <1>1, CreditOf
  <1>4. global_reward_index' \in Nat /\ old.bond_amount - a \in Nat
    BY <1>1, <1>2, <1>3, DistributionCovered
  <1>5. /\ left \in RewardInfo /\ left.pending_reward = info.pending_reward
        /\ left.bond_amount = old.bond_amount - a /\ left.reward_index = global_reward_index'
        /\ info.pending_reward \in Nat
    BY <1>3, <1>4 DEF RewardInfo
  <1>6. /\ is \in Nat /\ base \in Nat
        /\ SCALE * is <= old.bond_amount * global_reward_index'
        /\ (old.bond_amount - a) * global_reward_index' < SCALE * base + SCALE
    BY <1>2, <1>3, <1>4, TimesDecimalBounds
  <1>7. Total(paid') = Total(paid) + 0
    BY <1>1, <1>2, TotalType
  <1> HIDE DEF left
  <1>8. /\ new \in RewardInfo /\ new.pending_reward = left.pending_reward
        /\ TimesDecimal(new.bond_amount, new.reward_index) = base
    BY <1>5, StoredRecord, StoredLedgers
  <1>9. new.pending_reward + 0 = old.pending_reward
            + (is - TimesDecimal(old.bond_amount, old.reward_index))
    BY <1>3, <1>5, <1>8
  <1>10. SCALE * is + total_bond_amount' * global_reward_index' + SCALE * changes
          <= total_bond_amount * global_reward_index' + SCALE * changes' + SCALE * base
    <2> DEFINE I == global_reward_index'
               b == old.bond_amount
    <2>1. /\ (total_bond_amount - a) * I = total_bond_amount * I - a * I
          /\ (b - a) * I = b * I - a * I
          /\ SCALE * (changes + 1) = SCALE * changes + SCALE
      BY <1>2, <1>3, <1>4
    <2>2. /\ total_bond_amount * I \in Nat /\ a * I \in Nat /\ b * I \in Nat
          /\ SCALE * changes \in Nat /\ SCALE * is \in Nat /\ SCALE * base \in Nat
      BY <1>2, <1>3, <1>4, <1>6, TimesType
    <2> HIDE DEF I, b, is, base
    <2> DEFINE d == -(a * I)
    <2>3. total_bond_amount' * I = total_bond_amount * I + d
          /\ SCALE * changes' = SCALE * changes + SCALE
          /\ d \in Int
      BY <1>1, <2>1, <2>2
    <2>4. SCALE * is <= b * I /\ b * I + d < SCALE * base + SCALE
      BY <1>6, <2>1, <2>2 DEF I, b
    <2> HIDE DEF d
    <2>5. SCALE * is + total_bond_amount' * I + SCALE * changes
            <= total_bond_amount * I + SCALE * changes' + SCALE * base
      BY <1>2, <2>2, <2>3, <2>4, StakeChange
    <2>6. QED
      BY <2>5 DEF I, is, base
  <1> HIDE DEF new
  <1>11. QED
    BY <1>1, <1>2, <1>7, <1>8, <1>9, <1>10, AccountedStep

LEMMA WithdrawAccounted ==
    ASSUME SInv, Accounted, NEW u \in Users, Withdraw(u)
    PROVE  Accounted'
  <1> DEFINE old  == reward_infos[u]
             info == Credited(old, global_reward_index')
             is   == TimesDecimal(old.bond_amount, global_reward_index')
  <1>1. /\ ComputeReward /\ total_bond_amount' = total_bond_amount /\ changes' = changes
    BY DEF Withdraw
  <1>2. PICK a \in {b \in Amounts : b <= info.pending_reward} \cup {info.pending_reward} :
           /\ reward_infos' = [reward_infos EXCEPT ![u] =
                 Stored([info EXCEPT !.pending_reward = info.pending_reward - a])]
           /\ paid' = [paid EXCEPT ![u] = @ + a]
    BY DEF Withdraw
  <1>3. /\ old.bond_amount \in Nat /\ info \in RewardInfo
        /\ info.reward_index = global_reward_index' /\ info.bond_amount = old.bond_amount
        /\ info.pending_reward = old.pending_reward
             + (is - TimesDecimal(old.bond_amount, old.reward_index))
    BY <1>1, CreditOf
  <1>4. /\ total_bond_amount \in Nat /\ changes \in Nat /\ SCALE \in Nat
        /\ paid \in [Users -> Nat] /\ IsFiniteSet(Users) /\ Amounts \subseteq Nat
        /\ global_reward_index' \in Nat /\ total_bond_amount' \in Nat /\ changes' \in Nat
    BY <1>1, StakingAssumption, DecimalAssumption, DistributionCovered DEF SInv, TypeOK
  <1>5. info.pending_reward \in Nat
    BY <1>3 DEF RewardInfo
  <1>6. a \in Nat /\ a <= info.pending_reward
    BY <1>4, <1>5
  <1> DEFINE left == [info EXCEPT !.pending_reward = info.pending_reward - a]
             new  == Stored(left)
  <1>7. /\ left \in RewardInfo /\ left.pending_reward = info.pending_reward - a
        /\ left.bond_amount = old.bond_amount /\ left.reward_index = global_reward_index'
    BY <1>3, <1>5, <1>6 DEF RewardInfo
  <1>8. reward_infos' = [reward_infos EXCEPT ![u] = new]
    BY <1>2
  <1> HIDE DEF left
  <1>9. /\ new \in RewardInfo /\ new.pending_reward = left.pending_reward
        /\ TimesDecimal(new.bond_amount, new.reward_index) = is
    BY <1>7, StoredRecord, StoredLedgers
  <1>10. Total(paid') = Total(paid) + a
    <2>1. paid[u] \in Nat /\ paid[u] + a \in Nat /\ Total(paid) \in Nat
      BY <1>4, <1>6, TotalType
    <2> DEFINE v == paid[u] + a
    <2>2. paid' = [paid EXCEPT ![u] = v]
      BY <1>2, <1>4
    <2>3. v \in Nat /\ v = paid[u] + a
      BY <2>1
    <2> HIDE DEF v
    <2>4. Total([paid EXCEPT ![u] = v]) = Total(paid) - paid[u] + v
      BY <1>4, <2>3, TotalUpdate
    <2>5. QED
      BY <1>6, <2>1, <2>2, <2>3, <2>4
  <1>11. new.pending_reward + a = old.pending_reward
            + (is - TimesDecimal(old.bond_amount, old.reward_index))
    BY <1>3, <1>5, <1>6, <1>7, <1>9
  <1>12. SCALE * is + total_bond_amount' * global_reward_index' + SCALE * changes
          <= total_bond_amount * global_reward_index' + SCALE * changes' + SCALE * is
    <2>1. is \in Nat
      BY <1>3, <1>4, TimesDecimalBounds
    <2>2. SCALE * is \in Nat /\ total_bond_amount * global_reward_index' \in Nat
          /\ SCALE * changes \in Nat
      BY <1>4, <2>1, TimesType
    <2> HIDE DEF is
    <2>3. QED
      BY <1>1, <2>2
  <1> HIDE DEF new
  <1>13. QED
    BY <1>1, <1>4, <1>6, <1>8, <1>9, <1>10, <1>11, <1>12, AccountedStep

LEMMA InitAccounted == Init => Accounted
  <1> SUFFICES ASSUME Init PROVE Accounted
    OBVIOUS
  <1>1. Pending(reward_infos) = [u \in Users |-> 0]
    BY DEF Init, NoInfo, Pending
  <1>2. Base(reward_infos) = [u \in Users |-> 0]
    BY TimesDecimalOfZero DEF Init, NoInfo, Base
  <1>3. paid = [u \in Users |-> 0]
    BY DEF Init
  <1>4. /\ Total(paid) = 0 /\ Total(Pending(reward_infos)) = 0
        /\ Total(Base(reward_infos)) = 0
    BY <1>1, <1>2, <1>3, TotalOfZeros
  <1>5. QED
    BY <1>4, DecimalAssumption DEF Init, Accounted

LEMMA NextAccounted == ASSUME SInv, Accounted, [Next]_vars PROVE Accounted'
  <1>1. ASSUME NEW new \in [Schedules -> 0 .. MaxCopies], UpdateConfig(new)
        PROVE  Accounted'
    BY <1>1 DEF UpdateConfig, state, Accounted, Pending, Base
  <1>2. CASE Tick
    BY <1>2 DEF Tick, state, Accounted, Pending, Base
  <1>3. CASE UNCHANGED vars
    BY <1>3 DEF vars, state, Accounted, Pending, Base
  <1>4. QED
    BY <1>1, <1>2, <1>3, BondAccounted, UnbondAccounted, WithdrawAccounted DEF Next

-----------------------------------------------------------------------------
(* The theorem *)

\* What follows for the stakers.
LEMMA AccountedIsSolvent == ASSUME SInv, Accounted PROVE SolventUpToRounding
  <1> DEFINE owed == [u \in Users |-> Uncredited(u)]
             P == Total(paid)
             O == Total(owed)
             Q == Total(Pending(reward_infos))
             B == Total(Base(reward_infos))
             G == global_reward_index
  <1>1. /\ IsFiniteSet(Users) /\ reward_infos \in [Users -> RewardInfo] /\ G \in Nat
        /\ total_bond_amount \in Nat /\ paid \in [Users -> Nat]
        /\ distributed \in Nat /\ changes \in Nat /\ SCALE \in Nat \ {0}
    BY StakingAssumption, DecimalAssumption DEF SInv, TypeOK
  <1>2. /\ Pending(reward_infos) \in [Users -> Nat] /\ Base(reward_infos) \in [Users -> Nat]
        /\ Q \in Nat /\ B \in Nat
    BY <1>1, LedgerTypes
  <1>3. Bonds(reward_infos) \in [Users -> Nat]
        /\ Total(Bonds(reward_infos)) = total_bond_amount
    BY <1>1 DEF Bonds, RewardInfo, SInv, BondConservation
  <1>4. ASSUME NEW u \in Users
        PROVE  /\ owed[u] \in Nat
               /\ SCALE * owed[u] + SCALE * Base(reward_infos)[u]
                    <= SCALE * Pending(reward_infos)[u] + G * Bonds(reward_infos)[u]
    <2> DEFINE info == reward_infos[u]
               is   == TimesDecimal(info.bond_amount, G)
               was  == TimesDecimal(info.bond_amount, info.reward_index)
    <2>1. /\ info.bond_amount \in Nat /\ info.reward_index \in Nat
          /\ info.pending_reward \in Nat /\ info.reward_index <= G
      BY <1>1 DEF RewardInfo, SInv, IndexBehind
    <2>2. is \in Nat /\ was \in Nat /\ was <= is
      BY <1>1, <2>1, TimesDecimalMonotone
    <2>3. SCALE * is <= info.bond_amount * G
      BY <1>1, <2>1, TimesDecimalBounds
    <2>4. owed[u] = info.pending_reward + (is - was)
      BY DEF Uncredited, Credited
    <2>5. Base(reward_infos)[u] = was /\ Pending(reward_infos)[u] = info.pending_reward
          /\ Bonds(reward_infos)[u] = info.bond_amount
      BY DEF Base, Pending, Bonds
    <2> HIDE DEF info, is, was, owed
    <2>6. SCALE * (info.pending_reward + (is - was)) + SCALE * was
            = SCALE * info.pending_reward + SCALE * is
      BY <1>1, <2>1, <2>2
    <2>7. SCALE * is \in Nat /\ SCALE * info.pending_reward \in Nat
          /\ info.bond_amount * G = G * info.bond_amount /\ G * info.bond_amount \in Nat
      BY <1>1, <2>1, <2>2
    <2>8. owed[u] \in Nat
      BY <2>1, <2>2, <2>4
    <2>9. QED
      BY <2>3, <2>4, <2>5, <2>6, <2>7, <2>8
  <1>5. owed \in [Users -> Nat]
    BY <1>4
  <1>6. P \in Nat /\ O \in Nat
    BY <1>1, <1>5, TotalType
  <1> HIDE DEF owed
  <1>7. SCALE * O + SCALE * B <= SCALE * Q + G * total_bond_amount
    <2>1. SCALE * Total(owed) + SCALE * Total(Base(reward_infos))
            <= SCALE * Total(Pending(reward_infos)) + G * Total(Bonds(reward_infos))
      BY <1>1, <1>2, <1>3, <1>4, <1>5, TotalsRelated
    <2>2. QED
      BY <1>3, <2>1
  <1>8. SCALE * (P + Q) + total_bond_amount * G <= SCALE * (distributed + changes + B)
    BY DEF Accounted
  <1> HIDE DEF P, O, Q, B, G
  <1>9. /\ SCALE * (P + Q) = SCALE * P + SCALE * Q
        /\ SCALE * (distributed + changes + B) = (distributed + changes) * SCALE + SCALE * B
        /\ (P + O) * SCALE = SCALE * P + SCALE * O
        /\ total_bond_amount * G = G * total_bond_amount
    BY <1>1, <1>2, <1>6
  <1>10. /\ SCALE * P \in Nat /\ SCALE * Q \in Nat /\ SCALE * B \in Nat /\ SCALE * O \in Nat
         /\ G * total_bond_amount \in Nat /\ (distributed + changes) * SCALE \in Nat
    BY <1>1, <1>2, <1>6, TimesType
  <1>11. (P + O) * SCALE <= (distributed + changes) * SCALE
    BY <1>7, <1>8, <1>9, <1>10
  <1>12. P + O <= distributed + changes
    BY <1>1, <1>6, <1>11, TimesCancel
  <1>13. QED
    BY <1>12 DEF SolventUpToRounding, P, O, owed

\* All that stakers were paid or may withdraw was distributed, but for less
\* than one token per bond or unbond.
THEOREM StakersAreSolvent == Spec => []SolventUpToRounding
  <1>1. Init => SInv /\ Accounted
    BY InitInvariant, InitAccounted
  <1>2. SInv /\ Accounted /\ [Next]_vars => SInv' /\ Accounted'
    BY NextInvariant, NextAccounted
  <1>3. SInv /\ Accounted => SolventUpToRounding
    BY AccountedIsSolvent
  <1>4. QED
    BY <1>1, <1>2, <1>3, PTL DEF Spec

-----------------------------------------------------------------------------
(***************************************************************************)
(* What lp_staking distributes and when: no second of the schedule is      *)
(* distributed twice, whatever the owner replaces, and nobody's reward     *)
(* shrinks.  Both need entries that end after they start; compute_reward   *)
(* divides by zero on any other.                                           *)
(***************************************************************************)

WellFormed == \A s \in Schedules : s.start < s.end

-----------------------------------------------------------------------------
(* Parts of the schedule *)

\* The seconds that an entry is paid for.
Seconds(s, from, to) == AtMost(s.end, to) - Later(s.start, from)

\* What an entry adds to the distribution from one second to another.
EntryPart(sch, from, to, s) ==
    IF sch[s] > 0 /\ Active(s, from, to) THEN sch[s] * Released(s, Seconds(s, from, to)) ELSE 0

EntryParts(sch, from, to) == [s \in Schedules |-> EntryPart(sch, from, to, s)]

\* The distribution is the total of the parts.
LEMMA DistributedIsTotal ==
    ASSUME NEW sch, NEW from, NEW to
    PROVE  DistributedAmount(sch, from, to) = Total(EntryParts(sch, from, to))
  BY DEF DistributedAmount, EntryParts, EntryPart, Seconds

\* An entry's release per second is a number.
LEMMA EntryType ==
    ASSUME WellFormed, NEW s \in Schedules
    PROVE  /\ s.start \in Nat /\ s.end \in Nat /\ s.amount \in Nat /\ s.start < s.end
           /\ FromRatio(s.amount, s.end - s.start) \in Nat
  <1>1. s.start \in Nat /\ s.end \in Nat /\ s.amount \in Nat /\ s.start < s.end
    BY StakingAssumption DEF WellFormed
  <1>2. s.end - s.start \in Nat \ {0}
    BY <1>1
  <1>3. QED
    BY <1>1, <1>2, FromRatioType

\* A truncated product of a sum is at least the sum of the truncated products.
LEMMA TimesDecimalOfSum ==
    ASSUME NEW x \in Nat, NEW y \in Nat, NEW decimal \in Nat
    PROVE  TimesDecimal(x, decimal) + TimesDecimal(y, decimal) <= TimesDecimal(x + y, decimal)
  <1> DEFINE p == TimesDecimal(x, decimal)
             q == TimesDecimal(y, decimal)
             r == TimesDecimal(x + y, decimal)
  <1>1. SCALE \in Nat \ {0}
    BY DecimalAssumption
  <1>2. p \in Nat /\ SCALE * p <= x * decimal
    BY TimesDecimalBounds
  <1>3. q \in Nat /\ SCALE * q <= y * decimal
    BY TimesDecimalBounds
  <1>4. r \in Nat /\ (x + y) * decimal < SCALE * r + SCALE
    <2>1. x + y \in Nat
      OBVIOUS
    <2>2. QED
      BY <2>1, TimesDecimalBounds
  <1>5. (x + y) * decimal = x * decimal + y * decimal
    OBVIOUS
  <1>6. x * decimal \in Nat /\ y * decimal \in Nat
    OBVIOUS
  <1> HIDE DEF p, q, r
  <1>7. SCALE * p \in Nat /\ SCALE * q \in Nat /\ SCALE * r \in Nat
    BY <1>1, <1>2, <1>3, <1>4
  <1>8. SCALE * p + SCALE * q < SCALE * r + SCALE
    BY <1>1, <1>2, <1>3, <1>4, <1>5, <1>6, <1>7
  <1>9. SUFFICES ASSUME r + 1 <= p + q PROVE FALSE
    BY <1>2, <1>3, <1>4 DEF p, q, r
  <1>10. SCALE * (r + 1) <= SCALE * (p + q)
    <2>1. r + 1 \in Nat /\ p + q \in Nat
      BY <1>2, <1>3, <1>4
    <2>2. QED
      BY <1>1, <1>9, <2>1, TimesMonotone
  <1>11. SCALE * (r + 1) = SCALE * r + SCALE /\ SCALE * (p + q) = SCALE * p + SCALE * q
    BY <1>1, <1>2, <1>3, <1>4
  <1>12. QED
    BY <1>1, <1>7, <1>8, <1>10, <1>11

\* The seconds before and after a point in time are those of the whole.
LEMMA SecondsSplit ==
    ASSUME WellFormed, NEW s \in Schedules, NEW sch \in [Schedules -> Nat],
           NEW from \in Nat, NEW mid \in Nat, NEW to \in Nat, from <= mid, mid <= to
    PROVE  /\ EntryPart(sch, from, mid, s) \in Nat
           /\ EntryPart(sch, from, mid, s) + EntryPart(sch, mid, to, s)
                <= EntryPart(sch, from, to, s)
  <1> DEFINE decimal == FromRatio(s.amount, s.end - s.start)
             x == Seconds(s, from, mid)
             y == Seconds(s, mid, to)
             z == Seconds(s, from, to)
             copies == sch[s]
             p == TimesDecimal(x, decimal)
             q == TimesDecimal(y, decimal)
             r == TimesDecimal(z, decimal)
  <1>1. /\ s.start \in Nat /\ s.end \in Nat /\ s.start < s.end
        /\ decimal \in Nat /\ copies \in Nat
    BY EntryType
  <1> HIDE DEF decimal, copies
  <1>2. Active(s, from, mid) => x \in Nat /\ p \in Nat
    <2>1. Active(s, from, mid) => x \in Nat
      BY <1>1 DEF Active, Seconds, AtMost, Later
    <2> HIDE DEF x
    <2>2. QED
      BY <1>1, <2>1, TimesDecimalBounds
  <1>3. Active(s, mid, to) => y \in Nat /\ q \in Nat
    <2>1. Active(s, mid, to) => y \in Nat
      BY <1>1 DEF Active, Seconds, AtMost, Later
    <2> HIDE DEF y
    <2>2. QED
      BY <1>1, <2>1, TimesDecimalBounds
  <1>4. Active(s, from, to) => z \in Nat /\ r \in Nat
    <2>1. Active(s, from, to) => z \in Nat
      BY <1>1 DEF Active, Seconds, AtMost, Later
    <2> HIDE DEF z
    <2>2. QED
      BY <1>1, <2>1, TimesDecimalBounds
  <1>5. (Active(s, from, mid) \/ Active(s, mid, to)) => Active(s, from, to)
    BY <1>1 DEF Active
  <1>6. Active(s, from, mid) /\ Active(s, mid, to) => z = x + y
    BY <1>1 DEF Active, Seconds, AtMost, Later
  <1>7. Active(s, from, mid) /\ ~Active(s, mid, to) => z = x
    BY <1>1 DEF Active, Seconds, AtMost, Later
  <1>8. ~Active(s, from, mid) /\ Active(s, mid, to) => z = y
    BY <1>1 DEF Active, Seconds, AtMost, Later
  <1>9. /\ EntryPart(sch, from, mid, s) = IF copies > 0 /\ Active(s, from, mid) THEN copies * p ELSE 0
        /\ EntryPart(sch, mid, to, s) = IF copies > 0 /\ Active(s, mid, to) THEN copies * q ELSE 0
        /\ EntryPart(sch, from, to, s) = IF copies > 0 /\ Active(s, from, to) THEN copies * r ELSE 0
    BY DEF EntryPart, Released, copies, decimal
  <1>10. Active(s, from, mid) /\ Active(s, mid, to) => p + q <= r
    <2> HIDE DEF x, y, z
    <2>1. QED
      BY <1>1, <1>2, <1>3, <1>6, TimesDecimalOfSum
  <1>11. Active(s, from, mid) /\ ~Active(s, mid, to) => r = p
    BY <1>7
  <1>12. ~Active(s, from, mid) /\ Active(s, mid, to) => r = q
    BY <1>8
  <1> HIDE DEF p, q, r
  <1>13. /\ Active(s, from, mid) => copies * p \in Nat
         /\ Active(s, mid, to) => copies * q \in Nat
         /\ Active(s, from, to) => copies * r \in Nat
    BY <1>1, <1>2, <1>3, <1>4, TimesType
  <1>14. CASE Active(s, from, mid) /\ Active(s, mid, to)
    <2>1. copies * (p + q) <= copies * r
      <3>1. p + q \in Nat /\ r \in Nat /\ p + q <= r
        BY <1>2, <1>3, <1>4, <1>5, <1>10, <1>14
      <3>2. QED
        BY <1>1, <3>1, TimesMonotone
    <2>2. copies * (p + q) = copies * p + copies * q
      BY <1>1, <1>2, <1>3, <1>14
    <2>3. QED
      BY <1>5, <1>9, <1>13, <1>14, <2>1, <2>2
  <1>15. CASE Active(s, from, mid) /\ ~Active(s, mid, to)
    BY <1>5, <1>9, <1>11, <1>13, <1>15
  <1>16. CASE ~Active(s, from, mid) /\ Active(s, mid, to)
    BY <1>5, <1>9, <1>12, <1>13, <1>16
  <1>17. CASE ~Active(s, from, mid) /\ ~Active(s, mid, to)
    BY <1>9, <1>13, <1>17
  <1>18. QED
    BY <1>14, <1>15, <1>16, <1>17

\* What two distributions in a row pay is no more than one for the whole time.
LEMMA DistributedSplit ==
    ASSUME WellFormed, NEW sch \in [Schedules -> Nat],
           NEW from \in Nat, NEW mid \in Nat, NEW to \in Nat, from <= mid, mid <= to
    PROVE  /\ DistributedAmount(sch, from, mid) \in Nat
           /\ DistributedAmount(sch, mid, to) \in Nat
           /\ DistributedAmount(sch, from, to) \in Nat
           /\ DistributedAmount(sch, from, mid) + DistributedAmount(sch, mid, to)
                <= DistributedAmount(sch, from, to)
  <1> DEFINE f == EntryParts(sch, from, mid)
             g == EntryParts(sch, mid, to)
             h == EntryParts(sch, from, to)
             k == [s \in Schedules |-> 0]
             one == 1
             none == 0
  <1>1. IsFiniteSet(Schedules)
    BY StakingAssumption
  <1>2. ASSUME NEW s \in Schedules
        PROVE  /\ f[s] \in Nat /\ g[s] \in Nat /\ h[s] \in Nat
               /\ f[s] + g[s] <= h[s]
    <2>1. f[s] = EntryPart(sch, from, mid, s) /\ g[s] = EntryPart(sch, mid, to, s)
          /\ h[s] = EntryPart(sch, from, to, s)
      BY DEF EntryParts
    <2>2. EntryPart(sch, from, mid, s) \in Nat
      BY SecondsSplit
    <2>3. to <= to /\ from <= to
      OBVIOUS
    <2>4. EntryPart(sch, mid, to, s) \in Nat /\ EntryPart(sch, from, to, s) \in Nat
      BY <2>3, SecondsSplit
    <2>5. EntryPart(sch, from, mid, s) + EntryPart(sch, mid, to, s)
            <= EntryPart(sch, from, to, s)
      BY SecondsSplit
    <2>6. QED
      BY <2>1, <2>2, <2>4, <2>5
  <1>3. f \in [Schedules -> Nat] /\ g \in [Schedules -> Nat] /\ h \in [Schedules -> Nat]
    <2>1. f = [s \in Schedules |-> f[s]] /\ g = [s \in Schedules |-> g[s]]
          /\ h = [s \in Schedules |-> h[s]]
      BY DEF EntryParts
    <2> HIDE DEF f, g, h
    <2>2. QED
      BY <1>2, <2>1
  <1>4. k \in [Schedules -> Nat] /\ Total(k) = 0
    BY TotalOfZeros
  <1> HIDE DEF f, g, h
  <1>5. Total(f) \in Nat /\ Total(g) \in Nat /\ Total(h) \in Nat
    BY <1>1, <1>3, TotalType
  <1>6. one * Total(f) + one * Total(g) <= one * Total(h) + none * Total(k)
    <2>1. one \in Nat /\ none \in Nat
          /\ \A s \in Schedules : one * f[s] + one * g[s] <= one * h[s] + none * k[s]
      BY <1>2
    <2> HIDE DEF k, one, none
    <2>2. QED
      BY <1>1, <1>3, <1>4, <2>1, TotalsRelated
  <1>7. Total(f) + Total(g) <= Total(h)
    BY <1>4, <1>5, <1>6
  <1>8. QED
    BY <1>5, <1>7, DistributedIsTotal DEF f, g, h

-----------------------------------------------------------------------------
(* What was distributed was scheduled *)

\* A distribution up to now keeps the schedule ahead.
LEMMA ComputeRewardScheduled ==
    ASSUME WellFormed, SInv, DistributedIsScheduled, ComputeReward, schedule' = schedule
    PROVE  DistributedIsScheduled'
  <1> DEFINE sch == schedule
             mid == last_distributed
             to == now
             before == DistributedAmount(sch, 0, mid)
             amount == DistributedAmount(sch, mid, to)
             after == DistributedAmount(sch, 0, to)
  <1>1. /\ sch \in [Schedules -> Nat] /\ mid \in Nat /\ to \in Nat /\ 0 <= mid /\ mid <= to
        /\ distributed \in Nat /\ distributed <= before
    BY DEF SInv, TypeOK, DistributedIsScheduled
  <1>2. before \in Nat /\ amount \in Nat /\ after \in Nat /\ before + amount <= after
    <2> HIDE DEF sch, mid, to
    <2>1. QED
      BY <1>1, DistributedSplit
  <1>3. last_distributed' = now /\ (distributed' = distributed \/ distributed' = distributed + amount)
    BY DEF ComputeReward
  <1> HIDE DEF before, amount, after
  <1>4. distributed' <= after
    BY <1>1, <1>2, <1>3
  <1>5. QED
    BY <1>3, <1>4 DEF DistributedIsScheduled, after

\* What the owner may replace has not been distributed.
LEMMA UpdateConfigScheduled ==
    ASSUME SInv, DistributedIsScheduled, NEW new \in [Schedules -> Nat], UpdateConfig(new)
    PROVE  DistributedIsScheduled'
  <1>1. /\ \A s \in Schedules : s.start <= last_distributed => new[s] = schedule[s]
        /\ schedule' = new /\ last_distributed' = last_distributed /\ distributed' = distributed
    BY DEF UpdateConfig, AssertNewSchedules, state
  <1>2. \A s \in Schedules :
           EntryPart(new, 0, last_distributed, s) = EntryPart(schedule, 0, last_distributed, s)
    BY <1>1 DEF EntryPart, Active
  <1>3. EntryParts(new, 0, last_distributed) = EntryParts(schedule, 0, last_distributed)
    BY <1>2 DEF EntryParts
  <1>4. QED
    BY <1>1, <1>3, DistributedIsTotal DEF DistributedIsScheduled

\* Every step keeps what was distributed scheduled.
LEMMA NextScheduled ==
    ASSUME WellFormed, SInv, DistributedIsScheduled, [Next]_vars
    PROVE  DistributedIsScheduled'
  <1>1. ASSUME NEW u \in Users, NEW a \in Amounts, Bond(u, a) \/ Unbond(u, a)
        PROVE  DistributedIsScheduled'
    BY <1>1, ComputeRewardScheduled DEF Bond, Unbond
  <1>2. ASSUME NEW u \in Users, Withdraw(u) PROVE DistributedIsScheduled'
    BY <1>2, ComputeRewardScheduled DEF Withdraw
  <1>3. ASSUME NEW new \in [Schedules -> 0 .. MaxCopies], UpdateConfig(new)
        PROVE  DistributedIsScheduled'
    <2>1. new \in [Schedules -> Nat]
      BY StakingAssumption
    <2>2. QED
      BY <1>3, <2>1, UpdateConfigScheduled
  <1>4. CASE Tick \/ UNCHANGED vars
    BY <1>4 DEF Tick, vars, state, DistributedIsScheduled
  <1>5. QED
    BY <1>1, <1>2, <1>3, <1>4 DEF Next

\* Whatever the owner did to the schedule, no more was ever distributed than
\* the present one has released: update_config cannot take out of it what was
\* paid for, and no second is paid twice.
THEOREM DistributionIsScheduled ==
    ASSUME WellFormed
    PROVE  Spec => []DistributedIsScheduled
  <1>1. Init => DistributedIsScheduled
    <2>1. SUFFICES ASSUME Init PROVE DistributedIsScheduled
      OBVIOUS
    <2>2. schedule \in [Schedules -> Nat] /\ distributed = 0 /\ last_distributed = 0
      BY <2>1, StakingAssumption DEF Init
    <2>3. DistributedAmount(schedule, 0, 0) \in Nat
      BY <2>2, DistributedSplit
    <2>4. QED
      BY <2>2, <2>3 DEF DistributedIsScheduled
  <1>2. SInv /\ DistributedIsScheduled /\ [Next]_vars => DistributedIsScheduled'
    BY NextScheduled
  <1>3. QED
    BY <1>1, <1>2, Invariance, PTL DEF Spec

-----------------------------------------------------------------------------
(* What was earned stays *)

\* The index that compute_reward would bring now.
PresentIndex ==
    IF total_bond_amount = 0 THEN global_reward_index
    ELSE NextIndex(DistributedAmount(schedule, last_distributed, now))

\* The query credits at that index.
LEMMA PendingAtPresentIndex ==
    \A u \in Users : PendingNow(u) = Credited(reward_infos[u], PresentIndex).pending_reward
  BY DEF PendingNow, PresentIndex

\* It is never behind the index on record.
LEMMA PresentIndexAhead ==
    ASSUME WellFormed, SInv
    PROVE  PresentIndex \in Nat /\ global_reward_index <= PresentIndex
  <1> DEFINE sch == schedule
             from == last_distributed
             to == now
             amount == DistributedAmount(sch, from, to)
  <1>1. /\ sch \in [Schedules -> Nat] /\ from \in Nat /\ to \in Nat /\ from <= to
        /\ total_bond_amount \in Nat /\ global_reward_index \in Nat
    BY DEF SInv, TypeOK
  <1>2. amount \in Nat
    <2> HIDE DEF sch, from, to
    <2>1. from <= from
      BY <1>1
    <2>2. QED
      BY <1>1, <2>1, DistributedSplit
  <1>3. total_bond_amount # 0 => FromRatio(amount, total_bond_amount) \in Nat
    <2> HIDE DEF amount
    <2>1. QED
      BY <1>1, <1>2, FromRatioType
  <1>4. PresentIndex = IF total_bond_amount = 0 THEN global_reward_index
                       ELSE global_reward_index + FromRatio(amount, total_bond_amount)
    BY DEF PresentIndex, NextIndex
  <1> HIDE DEF amount
  <1>5. QED
    BY <1>1, <1>3, <1>4

\* A record is credited more at a higher index.
LEMMA CreditedMonotone ==
    ASSUME NEW info \in RewardInfo, NEW low \in Nat, NEW high \in Nat,
           info.reward_index <= low, low <= high
    PROVE  /\ Credited(info, low).pending_reward \in Nat
           /\ Credited(info, high).pending_reward \in Nat
           /\ Credited(info, low).pending_reward <= Credited(info, high).pending_reward
  <1> DEFINE was == TimesDecimal(info.bond_amount, info.reward_index)
             p == TimesDecimal(info.bond_amount, low)
             q == TimesDecimal(info.bond_amount, high)
  <1>1. info.bond_amount \in Nat /\ info.reward_index \in Nat /\ info.pending_reward \in Nat
    BY DEF RewardInfo
  <1>2. was \in Nat /\ p \in Nat /\ was <= p
    BY <1>1, TimesDecimalMonotone
  <1>3. q \in Nat /\ p <= q
    BY <1>1, TimesDecimalMonotone
  <1>4. Credited(info, low).pending_reward = info.pending_reward + (p - was)
        /\ Credited(info, high).pending_reward = info.pending_reward + (q - was)
    BY DEF Credited
  <1> HIDE DEF was, p, q
  <1>5. QED
    BY <1>1, <1>2, <1>3, <1>4

EarnedStep == \A u \in Users : (paid[u] + PendingNow(u))' >= paid[u] + PendingNow(u)

\* While the records and the payments stay, a higher index earns more.
LEMMA IndexGrows ==
    ASSUME SInv, NEW u \in Users, reward_infos'[u] = reward_infos[u], paid'[u] = paid[u],
           PresentIndex \in Nat, PresentIndex' \in Nat,
           global_reward_index <= PresentIndex, PresentIndex <= PresentIndex'
    PROVE  (paid[u] + PendingNow(u))' >= paid[u] + PendingNow(u)
  <1> DEFINE info == reward_infos[u]
             low == PresentIndex
             high == PresentIndex'
  <1>1. /\ info \in RewardInfo /\ info.reward_index \in Nat /\ paid[u] \in Nat
        /\ info.reward_index <= global_reward_index /\ global_reward_index \in Nat
    BY DEF SInv, TypeOK, IndexBehind, RewardInfo
  <1>2. low \in Nat /\ high \in Nat /\ info.reward_index <= low /\ low <= high
    BY <1>1
  <1>3. PendingNow(u) = Credited(info, low).pending_reward
    BY PendingAtPresentIndex
  <1>4. PendingNow(u)' = Credited(info, high).pending_reward
    BY DEF PendingNow, PresentIndex
  <1> HIDE DEF info, low, high
  <1>5. /\ Credited(info, low).pending_reward \in Nat
        /\ Credited(info, high).pending_reward \in Nat
        /\ Credited(info, low).pending_reward <= Credited(info, high).pending_reward
    BY <1>1, <1>2, CreditedMonotone
  <1>6. QED
    BY <1>1, <1>3, <1>4, <1>5

\* The same of the state after a step.
LEMMA PresentIndexAheadNext ==
    ASSUME WellFormed, SInv'
    PROVE  PresentIndex' \in Nat /\ global_reward_index' <= PresentIndex'
  <1> DEFINE sch == schedule'
             from == last_distributed'
             to == now'
             total == total_bond_amount'
             index == global_reward_index'
             amount == DistributedAmount(sch, from, to)
  <1>1. /\ sch \in [Schedules -> Nat] /\ from \in Nat /\ to \in Nat /\ from <= to
        /\ total \in Nat /\ index \in Nat
    BY DEF SInv, TypeOK
  <1>2. amount \in Nat
    <2> HIDE DEF sch, from, to
    <2>1. from <= from
      BY <1>1
    <2>2. QED
      BY <1>1, <2>1, DistributedSplit
  <1>3. PresentIndex' = IF total = 0 THEN index ELSE index + FromRatio(amount, total)
    BY DEF PresentIndex, NextIndex
  <1> HIDE DEF amount, total, index
  <1>4. total # 0 => FromRatio(amount, total) \in Nat
    BY <1>1, <1>2, FromRatioType
  <1>5. PresentIndex' \in Nat /\ index <= PresentIndex'
    BY <1>1, <1>3, <1>4
  <1>6. QED
    BY <1>5 DEF index

\* A handler credits one staker at the present index and pays no more than
\* it takes from his record; the others could withdraw the same before it.
LEMMA HandlerKeepsEarned ==
    ASSUME WellFormed, SInv, SInv', ComputeReward, NEW user \in Users, NEW drawn \in Nat,
           reward_infos'[user].pending_reward + drawn
              >= Credited(reward_infos[user], global_reward_index').pending_reward,
           \A v \in Users \ {user} : reward_infos'[v] = reward_infos[v],
           paid'[user] = paid[user] + drawn,
           \A v \in Users \ {user} : paid'[v] = paid[v]
    PROVE  EarnedStep
  <1>1. global_reward_index' = PresentIndex
    BY DEF ComputeReward, PresentIndex
  <1>2. PresentIndex \in Nat /\ global_reward_index <= PresentIndex
    BY PresentIndexAhead
  <1>3. PresentIndex' \in Nat /\ global_reward_index' <= PresentIndex'
    BY PresentIndexAheadNext
  <1>4. ASSUME NEW v \in Users \ {user}
        PROVE  (paid[v] + PendingNow(v))' >= paid[v] + PendingNow(v)
    BY <1>1, <1>2, <1>3, IndexGrows
  <1>5. (paid[user] + PendingNow(user))' >= paid[user] + PendingNow(user)
    <2> DEFINE old == reward_infos[user]
               new == reward_infos'[user]
               low == PresentIndex
               high == PresentIndex'
    <2>1. /\ old \in RewardInfo /\ old.reward_index <= global_reward_index
          /\ new \in RewardInfo /\ new.reward_index <= global_reward_index'
          /\ old.reward_index \in Nat /\ new.reward_index \in Nat
          /\ global_reward_index \in Nat /\ global_reward_index' \in Nat
          /\ paid[user] \in Nat
      BY DEF SInv, TypeOK, IndexBehind, RewardInfo
    <2>2. PendingNow(user) = Credited(old, low).pending_reward
      BY PendingAtPresentIndex
    <2>3. PendingNow(user)' = Credited(new, high).pending_reward
      BY DEF PendingNow, PresentIndex
    <2>4. new.pending_reward + drawn >= Credited(old, low).pending_reward
      BY <1>1
    <2>5. low \in Nat /\ high \in Nat /\ old.reward_index <= low /\ new.reward_index <= high
      BY <1>2, <1>3, <2>1
    <2>6. paid'[user] = paid[user] + drawn
      OBVIOUS
    <2> HIDE DEF old, new, low, high
    <2>7. Credited(old, low).pending_reward \in Nat
      BY <2>1, <2>5, CreditedRecord DEF RewardInfo
    <2>8. /\ Credited(new, high).pending_reward \in Nat /\ new.pending_reward \in Nat
          /\ Credited(new, high).pending_reward >= new.pending_reward
      BY <2>1, <2>5, CreditedRecord DEF RewardInfo
    <2>9. QED
      BY <2>1, <2>2, <2>3, <2>4, <2>6, <2>7, <2>8
  <1>6. QED
    BY <1>4, <1>5 DEF EarnedStep

\* Removing an empty record takes no reward.
LEMMA StoredPending == \A info : Stored(info).pending_reward = info.pending_reward
  BY DEF Stored, NoInfo

\* More to distribute raises the index by no less.
LEMMA FromRatioMonotone ==
    ASSUME NEW p \in Nat, NEW q \in Nat, p <= q, NEW den \in Nat \ {0}
    PROVE  /\ FromRatio(p, den) \in Nat /\ FromRatio(q, den) \in Nat
           /\ FromRatio(p, den) <= FromRatio(q, den)
  <1>1. SCALE \in Nat
    BY DecimalAssumption
  <1>2. p * SCALE \in Nat /\ q * SCALE \in Nat /\ p * SCALE <= q * SCALE
    <2>1. SCALE * p <= SCALE * q
      BY <1>1, TimesMonotone
    <2>2. QED
      BY <1>1, <2>1
  <1>3. QED
    BY <1>2, DivMonotone, FromRatioType DEF FromRatio

\* A later second releases no less.
LEMMA TickKeepsEarned ==
    ASSUME WellFormed, SInv, SInv', Tick
    PROVE  EarnedStep
  <1> DEFINE sch == schedule
             from == last_distributed
             mid == now
             to == now'
             low == DistributedAmount(sch, from, mid)
             high == DistributedAmount(sch, from, to)
  <1>1. /\ UNCHANGED <<last_distributed, total_bond_amount, global_reward_index,
                       reward_infos, schedule, paid>>
        /\ now' = now + 1
    BY DEF Tick, state
  <1>2. /\ sch \in [Schedules -> Nat] /\ from \in Nat /\ mid \in Nat /\ to \in Nat
        /\ from <= mid /\ mid <= to
        /\ total_bond_amount \in Nat /\ global_reward_index \in Nat
    BY <1>1 DEF SInv, TypeOK
  <1>3. low \in Nat /\ high \in Nat /\ low <= high
    <2> HIDE DEF sch, from, mid, to
    <2>1. /\ low \in Nat /\ DistributedAmount(sch, mid, to) \in Nat /\ high \in Nat
          /\ low + DistributedAmount(sch, mid, to) <= high
      BY <1>2, DistributedSplit
    <2> HIDE DEF low, high
    <2>2. QED
      BY <2>1
  <1>4. total_bond_amount # 0 =>
            /\ FromRatio(low, total_bond_amount) \in Nat
            /\ FromRatio(high, total_bond_amount) \in Nat
            /\ FromRatio(low, total_bond_amount) <= FromRatio(high, total_bond_amount)
    <2> HIDE DEF low, high
    <2>1. QED
      BY <1>2, <1>3, FromRatioMonotone
  <1>5. /\ PresentIndex = IF total_bond_amount = 0 THEN global_reward_index
                          ELSE global_reward_index + FromRatio(low, total_bond_amount)
        /\ PresentIndex' = IF total_bond_amount = 0 THEN global_reward_index
                           ELSE global_reward_index + FromRatio(high, total_bond_amount)
    BY <1>1 DEF PresentIndex, NextIndex
  <1> HIDE DEF low, high
  <1>6. /\ PresentIndex \in Nat /\ PresentIndex' \in Nat
        /\ global_reward_index <= PresentIndex /\ PresentIndex <= PresentIndex'
    BY <1>2, <1>4, <1>5
  <1>7. ASSUME NEW u \in Users
        PROVE  (paid[u] + PendingNow(u))' >= paid[u] + PendingNow(u)
    BY <1>1, <1>6, IndexGrows
  <1>8. QED
    BY <1>7 DEF EarnedStep

\* A change of nothing.
LEMMA UnchangedKeepsEarned ==
    ASSUME WellFormed, SInv, SInv', UNCHANGED vars
    PROVE  EarnedStep
  <1>1. /\ PresentIndex' = PresentIndex /\ UNCHANGED <<reward_infos, paid>>
    BY DEF vars, state, PresentIndex, NextIndex
  <1>2. PresentIndex \in Nat /\ global_reward_index <= PresentIndex
    BY PresentIndexAhead
  <1>3. ASSUME NEW u \in Users
        PROVE  (paid[u] + PendingNow(u))' >= paid[u] + PendingNow(u)
    BY <1>1, <1>2, IndexGrows
  <1>4. QED
    BY <1>3 DEF EarnedStep

\* Every step but a change of the schedule.
LEMMA NextKeepsEarned ==
    ASSUME WellFormed, SInv, SInv', Next, schedule' = schedule
    PROVE  EarnedStep
  <1>1. /\ reward_infos \in [Users -> RewardInfo] /\ paid \in [Users -> Nat]
        /\ Amounts \subseteq Nat
    BY StakingAssumption DEF SInv, TypeOK
  <1>2. ASSUME ComputeReward, NEW user \in Users
        PROVE  Credited(reward_infos[user], global_reward_index') \in RewardInfo
    <2>1. /\ reward_infos[user] \in RewardInfo
          /\ reward_infos[user].reward_index <= global_reward_index
          /\ reward_infos[user].reward_index \in Nat /\ global_reward_index \in Nat
      BY DEF SInv, TypeOK, IndexBehind, RewardInfo
    <2>2. global_reward_index' \in Nat /\ global_reward_index <= global_reward_index'
      BY <1>2, ComputeRewardStep
    <2>3. reward_infos[user].reward_index <= global_reward_index'
      BY <2>1, <2>2
    <2>4. QED
      BY <2>1, <2>2, <2>3, CreditedRecord
  <1>3. ASSUME NEW user \in Users, NEW amount \in Amounts, Bond(user, amount)
        PROVE  EarnedStep
    <2> DEFINE info == Credited(reward_infos[user], global_reward_index')
               none == 0
    <2>1. /\ ComputeReward /\ paid' = paid
          /\ reward_infos' = [reward_infos EXCEPT ![user] =
                                 [info EXCEPT !.bond_amount = info.bond_amount + amount]]
      BY <1>3 DEF Bond
    <2>2. info \in RewardInfo
      BY <1>2, <2>1
    <2> HIDE DEF info
    <2>3. reward_infos'[user].pending_reward = info.pending_reward /\ info.pending_reward \in Nat
      BY <1>1, <2>1, <2>2 DEF RewardInfo
    <2>4. /\ none \in Nat /\ reward_infos'[user].pending_reward + none >= info.pending_reward
          /\ paid'[user] = paid[user] + none
      BY <1>1, <2>1, <2>3
    <2>5. \A v \in Users \ {user} : reward_infos'[v] = reward_infos[v] /\ paid'[v] = paid[v]
      BY <1>1, <2>1
    <2> HIDE DEF none
    <2>6. QED
      BY <2>1, <2>4, <2>5, HandlerKeepsEarned DEF info
  <1>4. ASSUME NEW user \in Users, NEW amount \in Amounts, Unbond(user, amount)
        PROVE  EarnedStep
    <2> DEFINE info == Credited(reward_infos[user], global_reward_index')
               new == [info EXCEPT !.bond_amount = info.bond_amount - amount]
               none == 0
    <2>1. /\ ComputeReward /\ paid' = paid
          /\ reward_infos' = [reward_infos EXCEPT ![user] = Stored(new)]
      BY <1>4 DEF Unbond
    <2>2. info \in RewardInfo
      BY <1>2, <2>1
    <2> HIDE DEF info
    <2>3. new.pending_reward = info.pending_reward /\ info.pending_reward \in Nat
      BY <2>2 DEF RewardInfo
    <2> HIDE DEF new
    <2>4. reward_infos'[user].pending_reward = info.pending_reward
      BY <1>1, <2>1, <2>3, StoredPending
    <2>5. /\ none \in Nat /\ reward_infos'[user].pending_reward + none >= info.pending_reward
          /\ paid'[user] = paid[user] + none
      BY <1>1, <2>1, <2>3, <2>4
    <2>6. \A v \in Users \ {user} : reward_infos'[v] = reward_infos[v] /\ paid'[v] = paid[v]
      BY <1>1, <2>1
    <2> HIDE DEF none
    <2>7. QED
      BY <2>1, <2>5, <2>6, HandlerKeepsEarned DEF info
  <1>5. ASSUME NEW user \in Users, Withdraw(user)
        PROVE  EarnedStep
    <2> DEFINE info == Credited(reward_infos[user], global_reward_index')
    <2>1. ComputeReward
      BY <1>5 DEF Withdraw
    <2>2. info \in RewardInfo
      BY <1>2, <2>1
    <2>3. PICK amount \in {a \in Amounts : a <= info.pending_reward} \cup {info.pending_reward} :
             /\ reward_infos' = [reward_infos EXCEPT ![user] =
                   Stored([info EXCEPT !.pending_reward = info.pending_reward - amount])]
             /\ paid' = [paid EXCEPT ![user] = @ + amount]
      BY <1>5 DEF Withdraw
    <2> DEFINE new == [info EXCEPT !.pending_reward = info.pending_reward - amount]
    <2> HIDE DEF info
    <2>4. amount \in Nat /\ info.pending_reward \in Nat
      BY <1>1, <2>2, <2>3 DEF RewardInfo
    <2>5. new.pending_reward = info.pending_reward - amount
      BY <2>2 DEF RewardInfo
    <2>6. reward_infos' = [reward_infos EXCEPT ![user] = Stored(new)]
      BY <2>3
    <2> HIDE DEF new
    <2>7. reward_infos'[user].pending_reward + amount >= info.pending_reward
      <3>1. reward_infos'[user].pending_reward = info.pending_reward - amount
        BY <1>1, <2>5, <2>6, StoredPending
      <3>2. QED
        BY <2>4, <3>1
    <2>8. /\ paid'[user] = paid[user] + amount
          /\ \A v \in Users \ {user} : reward_infos'[v] = reward_infos[v] /\ paid'[v] = paid[v]
      BY <1>1, <2>3, <2>6
    <2>9. QED
      BY <2>1, <2>4, <2>7, <2>8, HandlerKeepsEarned DEF info
  <1>6. ASSUME NEW new \in [Schedules -> 0 .. MaxCopies], UpdateConfig(new)
        PROVE  EarnedStep
    <2>1. UNCHANGED vars
      BY <1>6 DEF UpdateConfig, vars, state
    <2>2. QED
      BY <2>1, UnchangedKeepsEarned
  <1>7. QED
    BY <1>3, <1>4, <1>5, <1>6, TickKeepsEarned DEF Next

\* While the schedule stays, what an account was paid or could withdraw never
\* falls, whatever the others do.
THEOREM EarnedStays ==
    ASSUME WellFormed
    PROVE  Spec => EarnedNeverFalls
  <1>1. SInv /\ SInv' /\ [Next]_vars => [schedule' = schedule => EarnedStep]_vars
    BY NextKeepsEarned
  <1>2. QED
    BY <1>1, Invariance, PTL DEF Spec, EarnedNeverFalls, EarnedStep
=============================================================================
