-------------------------- MODULE SpecProxyProofs --------------------------
(***************************************************************************)
(* Theorems about generator_proxy_to_spec and its reward contract: what    *)
(* holds of lp_staking alone holds behind the proxy, and the proxy keeps   *)
(* the generator's deposits apart from everything else.                    *)
(***************************************************************************)
EXTENDS SpecProxy, LpStakingProofs

-----------------------------------------------------------------------------
(* The composition runs lp_staking as it is *)

LEMMA ProxyStep == ASSUME ProxyNext PROVE Next \/ UNCHANGED vars
  <1>1. proxy \in Users
    BY ProxyAssumption
  <1>2. ASSUME NEW a \in Amounts, Deposit(a) PROVE Next
    BY <1>1, <1>2 DEF Deposit, Next
  <1>3. ASSUME NEW a \in Amounts, SendRewards(a) PROVE UNCHANGED vars
    BY <1>3 DEF SendRewards
  <1>4. ASSUME NEW a \in Amounts, WithdrawLp(a) PROVE Next
    BY <1>1, <1>4 DEF WithdrawLp, Next
  <1>5. CASE UpdateRewards
    BY <1>1, <1>5 DEF UpdateRewards, Next
  <1>6. CASE TransferLpTokensAfterWithdraw
    BY <1>6 DEF TransferLpTokensAfterWithdraw
  <1>7. CASE OtherCalls
    BY <1>7 DEF OtherCalls, Next
  <1>8. CASE DonateLp
    BY <1>8 DEF DonateLp
  <1>9. QED
    BY <1>2, <1>3, <1>4, <1>5, <1>6, <1>7, <1>8 DEF ProxyNext

\* Whatever the generator and the proxy do, the reward contract behaves as
\* LpStaking says: all that is proved of it alone holds in the composition.
THEOREM RunsLpStaking == ProxySpec => Spec
  <1>1. ProxyInit => Init
    BY DEF ProxyInit
  <1>2. [ProxyNext]_all_vars => [Next]_vars
    BY ProxyStep DEF all_vars
  <1>3. QED
    BY <1>1, <1>2, PTL DEF ProxySpec, Spec

-----------------------------------------------------------------------------
(* The generator's deposits *)

\* The callback knows what there was before the LP tokens came.
CallbackKnows == callback # NoCallback => lp_held = callback.prev_lp_balance + callback.asked

PInv ==
    /\ SInv
    /\ ProxyTypeOK
    /\ DepositsCovered
    /\ CallbackKnows

\* Of the record of another staker, a bond changes nothing, and of his own
\* stake it is the only thing besides unbond that changes any.
LEMMA StakeAfterBond ==
    ASSUME SInv, NEW u \in Users, NEW a \in Amounts, Bond(u, a)
    PROVE  \A v \in Users : reward_infos'[v].bond_amount >= reward_infos[v].bond_amount
                            /\ (v = u => reward_infos'[v].bond_amount
                                         = reward_infos[v].bond_amount + a)
  <1>1. reward_infos \in [Users -> RewardInfo] /\ a \in Nat
    BY StakingAssumption DEF SInv, TypeOK
  <1>2. reward_infos'[u].bond_amount = reward_infos[u].bond_amount + a
    BY <1>1 DEF Bond, Credited
  <1>3. \A v \in Users \ {u} : reward_infos'[v] = reward_infos[v]
    BY <1>1 DEF Bond
  <1>4. \A v \in Users : reward_infos[v].bond_amount \in Nat
    BY <1>1 DEF RewardInfo
  <1>5. QED
    BY <1>1, <1>2, <1>3, <1>4

LEMMA StakeAfterUnbond ==
    ASSUME SInv, NEW u \in Users, NEW a \in Amounts, Unbond(u, a)
    PROVE  /\ reward_infos'[u].bond_amount = reward_infos[u].bond_amount - a
           /\ \A v \in Users \ {u} : reward_infos'[v] = reward_infos[v]
  <1>1. reward_infos \in [Users -> RewardInfo] /\ a \in Nat
    BY StakingAssumption DEF SInv, TypeOK
  <1>2. /\ reward_infos'[u].bond_amount
             = (IF reward_infos[u].bond_amount - a = 0 THEN 0 ELSE reward_infos[u].bond_amount - a)
        /\ \A v \in Users \ {u} : reward_infos'[v] = reward_infos[v]
    BY <1>1 DEF Unbond, Credited, Stored, NoInfo
  <1>3. QED
    BY <1>2

LEMMA StakeAfterWithdraw ==
    ASSUME SInv, NEW u \in Users, Withdraw(u)
    PROVE  \A v \in Users : reward_infos'[v].bond_amount = reward_infos[v].bond_amount
  <1>1. reward_infos \in [Users -> RewardInfo]
    BY DEF SInv, TypeOK
  <1>2. reward_infos'[u].bond_amount = reward_infos[u].bond_amount
    BY <1>1 DEF Withdraw, Credited, Stored, NoInfo
  <1>3. \A v \in Users \ {u} : reward_infos'[v] = reward_infos[v]
    BY <1>1 DEF Withdraw
  <1>4. QED
    BY <1>2, <1>3

LEMMA ProxyInitInvariant == ProxyInit => PInv
  <1> SUFFICES ASSUME ProxyInit PROVE PInv
    OBVIOUS
  <1>1. SInv
    BY InitInvariant DEF ProxyInit
  <1>2. ProxyTypeOK /\ CallbackKnows
    BY DEF ProxyInit, ProxyTypeOK, CallbackKnows
  <1>3. reward_infos[proxy].bond_amount = 0 /\ deposit = 0
    BY ProxyAssumption DEF ProxyInit, Init, NoInfo
  <1>4. QED
    BY <1>1, <1>2, <1>3 DEF PInv, DepositsCovered

LEMMA ProxyNextInvariant == ASSUME PInv, [ProxyNext]_all_vars PROVE PInv'
  <1>1. SInv'
    BY ProxyStep, NextInvariant DEF PInv, all_vars
  <1>2. /\ proxy \in Users /\ reward_infos \in [Users -> RewardInfo] /\ SInv
        /\ reward_infos[proxy].bond_amount \in Nat
        /\ lp_held \in Nat /\ reward_held \in Nat /\ deposit \in Nat
        /\ callback \in Callback \cup {NoCallback}
        /\ deposit <= reward_infos[proxy].bond_amount
        /\ Amounts \subseteq Nat
    BY ProxyAssumption, StakingAssumption
       DEF PInv, SInv, TypeOK, RewardInfo, ProxyTypeOK, DepositsCovered
  <1>3. paid \in [Users -> Nat] /\ paid' \in [Users -> Nat]
    BY <1>1 DEF PInv, SInv, TypeOK
  <1>4. /\ callback = NoCallback \/ callback.pending = TRUE
        /\ NoCallback.pending = FALSE
    BY <1>2 DEF NoCallback, Callback
  <1> DEFINE Goal == ProxyTypeOK' /\ DepositsCovered' /\ CallbackKnows'
  <1>5. ASSUME NEW a \in Amounts, Deposit(a) PROVE Goal
    <2>1. reward_infos'[proxy].bond_amount = reward_infos[proxy].bond_amount + a
      BY <1>2, <1>5, StakeAfterBond DEF Deposit
    <2>2. QED
      BY <1>2, <1>5, <2>1 DEF Deposit, ProxyTypeOK, DepositsCovered, CallbackKnows
  <1>6. ASSUME NEW a \in Amounts, SendRewards(a) PROVE Goal
    <2>1. reward_held' \in Nat /\ UNCHANGED <<reward_infos, lp_held, deposit, callback>>
      BY <1>2, <1>6 DEF SendRewards, vars
    <2>2. QED
      BY <1>2, <1>6, <2>1 DEF SendRewards, ProxyTypeOK, DepositsCovered, CallbackKnows
  <1>7. ASSUME NEW a \in Amounts, WithdrawLp(a) PROVE Goal
    <2>1. reward_infos'[proxy].bond_amount = reward_infos[proxy].bond_amount - a
      BY <1>2, <1>7, StakeAfterUnbond DEF WithdrawLp
    <2>2. callback' \in Callback /\ callback'.prev_lp_balance = lp_held /\ callback'.asked = a
      BY <1>2, <1>7 DEF WithdrawLp, Callback
    <2>3. /\ lp_held' = lp_held + a /\ deposit' = deposit - a /\ reward_held' = reward_held
          /\ a \in Nat /\ a <= deposit
      BY <1>2, <1>7 DEF WithdrawLp
    <2>4. QED
      BY <1>2, <2>1, <2>2, <2>3 DEF ProxyTypeOK, DepositsCovered, CallbackKnows
  <1>8. ASSUME UpdateRewards PROVE Goal
    <2>1. reward_infos'[proxy].bond_amount = reward_infos[proxy].bond_amount
      BY <1>2, <1>8, StakeAfterWithdraw DEF UpdateRewards
    <2>2. PICK amount \in Nat : paid' = [paid EXCEPT ![proxy] = @ + amount]
      <3>1. PICK amount : /\ amount > 0
                          /\ paid' = [paid EXCEPT ![proxy] = @ + amount]
                          /\ amount \in Amounts
                             \/ amount = Credited(reward_infos[proxy], global_reward_index').pending_reward
        BY <1>8 DEF UpdateRewards, Withdraw
      <3>2. Credited(reward_infos[proxy], global_reward_index') \in RewardInfo
        <4>1. /\ global_reward_index' \in Nat
              /\ global_reward_index <= global_reward_index'
          BY <1>2, <1>8, ComputeRewardStep DEF UpdateRewards, Withdraw
        <4>2. /\ reward_infos[proxy] \in RewardInfo
              /\ reward_infos[proxy].reward_index \in Nat /\ global_reward_index \in Nat
              /\ reward_infos[proxy].reward_index <= global_reward_index
          BY <1>2 DEF SInv, IndexBehind, TypeOK, RewardInfo
        <4>3. QED
          BY <4>1, <4>2, CreditedRecord
      <3>3. amount \in Nat
        BY <1>2, <3>1, <3>2 DEF RewardInfo
      <3>4. QED
        BY <3>1, <3>3
    <2>3. reward_held' \in Nat
      BY <1>2, <1>3, <1>8, <2>2 DEF UpdateRewards
    <2>4. QED
      BY <1>2, <1>8, <2>1, <2>3 DEF UpdateRewards, ProxyTypeOK, DepositsCovered, CallbackKnows
  <1>9. ASSUME TransferLpTokensAfterWithdraw PROVE Goal
    <2>1. callback \in Callback /\ lp_held = callback.prev_lp_balance + callback.asked
      BY <1>2, <1>9 DEF TransferLpTokensAfterWithdraw, PInv, CallbackKnows
    <2>2. /\ lp_held' = callback.prev_lp_balance /\ callback' = NoCallback
          /\ UNCHANGED <<reward_infos, reward_held, deposit>>
      BY <1>2, <1>9, <2>1 DEF TransferLpTokensAfterWithdraw, vars, Callback
    <2>3. QED
      BY <1>2, <2>1, <2>2 DEF ProxyTypeOK, DepositsCovered, CallbackKnows, Callback
  <1>10. ASSUME OtherCalls PROVE Goal
    <2>1. UNCHANGED <<lp_held, reward_held, deposit, callback>> /\ callback = NoCallback
      BY <1>10 DEF OtherCalls, proxy_vars
    <2>2. reward_infos'[proxy].bond_amount \in Nat
          /\ reward_infos'[proxy].bond_amount >= reward_infos[proxy].bond_amount
      <3>1. ASSUME NEW u \in Users, NEW a \in Amounts, Bond(u, a)
            PROVE  reward_infos'[proxy].bond_amount >= reward_infos[proxy].bond_amount
        BY <1>2, <3>1, StakeAfterBond
      <3>2. ASSUME NEW u \in Users \ {proxy}, NEW a \in Amounts, Unbond(u, a)
            PROVE  reward_infos'[proxy] = reward_infos[proxy]
        BY <1>2, <3>2, StakeAfterUnbond
      <3>3. ASSUME NEW u \in Users \ {proxy}, Withdraw(u)
            PROVE  reward_infos'[proxy].bond_amount = reward_infos[proxy].bond_amount
        BY <1>2, <3>3, StakeAfterWithdraw
      <3>4. ASSUME NEW new \in [Schedules -> 0 .. MaxCopies], UpdateConfig(new)
            PROVE  reward_infos' = reward_infos
        BY <3>4 DEF UpdateConfig
      <3>5. Tick => reward_infos' = reward_infos
        BY DEF Tick
      <3>6. reward_infos'[proxy].bond_amount \in Nat
        BY <1>1, <1>2 DEF SInv, TypeOK, RewardInfo
      <3>7. reward_infos[proxy].bond_amount >= reward_infos[proxy].bond_amount
        BY <1>2
      <3>8. reward_infos'[proxy].bond_amount >= reward_infos[proxy].bond_amount
        BY <3>7, <1>10, <3>1, <3>2, <3>3, <3>4, <3>5, ZenonT(30) DEF OtherCalls
      <3>9. QED
        BY <3>6, <3>8
    <2>3. QED
      BY <1>2, <2>1, <2>2 DEF ProxyTypeOK, DepositsCovered, CallbackKnows
  <1>11. ASSUME DonateLp PROVE Goal
    BY <1>2, <1>11 DEF DonateLp, vars, ProxyTypeOK, DepositsCovered, CallbackKnows
  <1>12. ASSUME UNCHANGED all_vars PROVE Goal
    BY <1>12 DEF PInv, all_vars, vars, proxy_vars, ProxyTypeOK, DepositsCovered, CallbackKnows
  <1>13. Goal
    BY <1>5, <1>6, <1>7, <1>8, <1>9, <1>10, <1>11, <1>12 DEF ProxyNext
  <1>14. QED
    BY <1>1, <1>13 DEF PInv

-----------------------------------------------------------------------------
(* The theorems *)

\* The proxy's invariant holds in every state: its deposits in the reward
\* contract are covered, and a callback knows the balance it was sent with.
THEOREM ProxyInvariance == ProxySpec => []PInv
  BY ProxyInitInvariant, ProxyNextInvariant, PTL DEF ProxySpec

\* The reward contract always holds for the proxy what the generator has
\* deposited, whoever else stakes, unbonds or bonds for the proxy.
THEOREM DepositsAreCovered == ProxySpec => []DepositsCovered
  <1>1. PInv => DepositsCovered
    BY DEF PInv
  <1>2. QED
    BY <1>1, ProxyInvariance, PTL

\* The callback of a withdrawal forwards exactly what the generator asked
\* for, whatever LP tokens lay on the proxy.
THEOREM WithdrawalsAreExact == ProxySpec => WithdrawsWhatWasAsked
  <1>1. ASSUME PInv, [ProxyNext]_all_vars, callback # NoCallback, callback' = NoCallback
        PROVE  lp_held - lp_held' = callback.asked
    <2>1. TransferLpTokensAfterWithdraw
      BY <1>1 DEF ProxyNext, all_vars, proxy_vars, Deposit, SendRewards, WithdrawLp,
                  UpdateRewards, OtherCalls, DonateLp
    <2>2. /\ callback \in Callback /\ lp_held \in Nat
          /\ lp_held = callback.prev_lp_balance + callback.asked
      BY <1>1 DEF PInv, ProxyTypeOK, CallbackKnows
    <2>3. QED
      BY <2>1, <2>2 DEF TransferLpTokensAfterWithdraw, Callback
  <1>2. PInv /\ [ProxyNext]_all_vars
        => [callback # NoCallback /\ callback' = NoCallback
            => lp_held - lp_held' = callback.asked]_all_vars
    BY <1>1
  <1>3. QED
    BY <1>2, ProxyInvariance, PTL DEF ProxySpec, WithdrawsWhatWasAsked

\* update_rewards brings what the reward contract's query shows: the handler
\* computes the index the query uses, and a withdrawal that leaves nothing
\* pending pays all of the credit.
LEMMA UpdateRewardsPays ==
    ASSUME PInv, UpdateRewards
    PROVE  reward_held' - reward_held = PendingNow(proxy)
  <1> DEFINE info == Credited(reward_infos[proxy], global_reward_index')
  <1>1. /\ SInv /\ proxy \in Users /\ reward_held \in Nat
        /\ reward_infos \in [Users -> RewardInfo] /\ paid \in [Users -> Nat]
    BY ProxyAssumption DEF PInv, SInv, TypeOK, ProxyTypeOK
  <1>2. ComputeReward /\ reward_infos'[proxy].pending_reward = 0
        /\ reward_held' = reward_held + (paid'[proxy] - paid[proxy])
    BY DEF UpdateRewards, Withdraw
  <1>3. info \in RewardInfo
    <2>1. /\ global_reward_index' \in Nat /\ global_reward_index <= global_reward_index'
      BY <1>1, <1>2, ComputeRewardStep
    <2>2. /\ reward_infos[proxy] \in RewardInfo
          /\ reward_infos[proxy].reward_index \in Nat /\ global_reward_index \in Nat
          /\ reward_infos[proxy].reward_index <= global_reward_index
      BY <1>1 DEF SInv, IndexBehind, TypeOK, RewardInfo
    <2>3. QED
      BY <2>1, <2>2, CreditedRecord
  <1>4. info.pending_reward = PendingNow(proxy)
    BY <1>1, <1>2, PendingAtPresentIndex DEF ComputeReward, PresentIndex
  <1>5. PICK amount :
           /\ amount \in Amounts \/ amount = info.pending_reward
           /\ reward_infos' = [reward_infos EXCEPT ![proxy] =
                 Stored([info EXCEPT !.pending_reward = info.pending_reward - amount])]
           /\ paid' = [paid EXCEPT ![proxy] = @ + amount]
    BY DEF UpdateRewards, Withdraw
  <1> HIDE DEF info
  <1>6. amount \in Nat /\ info.pending_reward \in Nat
    BY <1>3, <1>5, StakingAssumption DEF RewardInfo
  <1>7. info.pending_reward - amount = 0
    <2>1. reward_infos'[proxy].pending_reward
             = [info EXCEPT !.pending_reward = info.pending_reward - amount].pending_reward
      BY <1>1, <1>5, StoredPending
    <2>2. QED
      BY <1>2, <1>3, <2>1 DEF RewardInfo
  <1>8. paid'[proxy] = paid[proxy] + amount /\ paid[proxy] \in Nat
    BY <1>1, <1>5
  <1>9. QED
    BY <1>1, <1>2, <1>4, <1>6, <1>7, <1>8

\* The generator gets exactly the reward it was shown: what update_rewards
\* brings is the pending reward that the query would have named before it.
THEOREM PendingPaid == ProxySpec => PendingIsPaid
  <1>1. ASSUME PInv, [ProxyNext]_all_vars, reward_held' > reward_held
        PROVE  reward_held' - reward_held = PendingNow(proxy)
    <2>1. reward_held \in Nat
      BY <1>1 DEF PInv, ProxyTypeOK
    <2>2. ASSUME NEW a \in Amounts, SendRewards(a) PROVE FALSE
      BY <1>1, <2>1, <2>2 DEF SendRewards
    <2>3. UpdateRewards
      BY <1>1, <2>1, <2>2 DEF ProxyNext, all_vars, proxy_vars, Deposit, WithdrawLp,
                  TransferLpTokensAfterWithdraw, OtherCalls, DonateLp
    <2>4. QED
      BY <1>1, <2>3, UpdateRewardsPays
  <1>2. PInv /\ [ProxyNext]_all_vars
        => [reward_held' > reward_held
            => reward_held' - reward_held = PendingNow(proxy)]_all_vars
    BY <1>1
  <1>3. QED
    BY <1>2, ProxyInvariance, PTL DEF ProxySpec, PendingIsPaid
=============================================================================
