----------------------------- MODULE LpStaking -----------------------------
(***************************************************************************)
(* contracts/lp_staking: pays reward tokens, released by a schedule, to    *)
(* the stakers of an LP token in proportion to what they have bonded.  The *)
(* contract adds up an index of reward per bonded token, and credits a     *)
(* staker whenever it touches his record.                                  *)
(*                                                                         *)
(* Every handler runs alone and a failing one changes nothing.             *)
(***************************************************************************)
EXTENDS Decimals

CONSTANTS
    Users,          \* accounts that may stake
    Amounts,        \* amounts an account may name in a call
    Schedules,      \* [start, end, amount] the owner may put into the schedule
    MaxCopies,      \* bound: copies of one entry in the schedule
    MaxBond,        \* bound: total_bond_amount
    MaxChanges,     \* bound: bonds and unbonds
    MaxTime         \* bound: the clock

ASSUME StakingAssumption ==
    /\ Amounts \subseteq Nat
    /\ IsFiniteSet(Users) /\ IsFiniteSet(Schedules)
    /\ Schedules \subseteq [start: Nat, end: Nat, amount: Nat]
    /\ MaxCopies \in Nat /\ MaxBond \in Nat /\ MaxChanges \in Nat /\ MaxTime \in Nat

VARIABLES
    last_distributed, total_bond_amount, global_reward_index,   \* STATE
    reward_infos,   \* REWARD_INFOS, a zero record where there is none
    schedule,       \* Config.distribution_schedule, as the copies of each entry
    now,            \* env.block.time
    \* history, not kept by the contract:
    distributed,    \* sum of every distributed_amount
    paid,           \* reward tokens paid to each account
    changes         \* bonds and unbonds so far

state == <<last_distributed, total_bond_amount, global_reward_index, distributed>>
vars == <<state, reward_infos, schedule, now, paid, changes>>

RewardInfo == [reward_index: Nat, bond_amount: Nat, pending_reward: Nat]

NoInfo == [reward_index |-> 0, bond_amount |-> 0, pending_reward |-> 0]

TypeOK ==
    /\ last_distributed \in 0 .. now /\ now \in Nat
    /\ total_bond_amount \in Nat /\ global_reward_index \in Nat
    /\ reward_infos \in [Users -> RewardInfo]
    /\ schedule \in [Schedules -> Nat]
    /\ distributed \in Nat /\ paid \in [Users -> Nat] /\ changes \in Nat

-----------------------------------------------------------------------------
(* contract.rs: the reward of all stakers and of one *)

Later(a, b) == IF a < b THEN b ELSE a

Active(s, from, to) == s.start <= to /\ s.end >= from

\* What an entry releases in `seconds' seconds.
Released(s, seconds) == TimesDecimal(seconds, FromRatio(s.amount, s.end - s.start))

\* The loop of compute_reward: what the schedule releases from one second
\* to another.
DistributedAmount(sch, from, to) ==
    Total([s \in Schedules |->
              IF sch[s] > 0 /\ Active(s, from, to)
              THEN sch[s] * Released(s, AtMost(s.end, to) - Later(s.start, from))
              ELSE 0])

\* The subtractions and the division of that loop do not fail.
Computable(sch, from, to) ==
    \A s \in Schedules : sch[s] > 0 /\ Active(s, from, to) => s.start < s.end

\* A faulty variant: the new part replaces the index.
NextIndexReplaced(amount) == FromRatio(amount, total_bond_amount)

\* The index after compute_reward.
NextIndex(amount) == global_reward_index + FromRatio(amount, total_bond_amount)

\* compute_reward, which every handler of a staker runs first.
ComputeReward ==
    IF total_bond_amount = 0
    THEN last_distributed' = now /\ UNCHANGED <<global_reward_index, distributed>>
    ELSE /\ Computable(schedule, last_distributed, now)
         /\ last_distributed' = now
         /\ LET amount == DistributedAmount(schedule, last_distributed, now)
            IN  /\ global_reward_index' = NextIndex(amount)
                /\ distributed' = distributed + amount

\* A faulty variant: the record keeps its old index.
CreditedKeepIndex(info, index) ==
    [info EXCEPT !.pending_reward =
        @ + (TimesDecimal(info.bond_amount, index)
             - TimesDecimal(info.bond_amount, info.reward_index))]

\* compute_staker_reward.
Credited(info, index) ==
    [reward_index   |-> index,
     bond_amount    |-> info.bond_amount,
     pending_reward |-> info.pending_reward + (TimesDecimal(info.bond_amount, index)
                                               - TimesDecimal(info.bond_amount, info.reward_index))]

\* A record with nothing in it is removed; it reads as NoInfo afterwards.
Stored(info) == IF info.bond_amount = 0 /\ info.pending_reward = 0 THEN NoInfo ELSE info

-----------------------------------------------------------------------------
Init ==
    /\ last_distributed = 0 /\ now = 0
    /\ total_bond_amount = 0 /\ global_reward_index = 0
    /\ reward_infos = [u \in Users |-> NoInfo]
    /\ schedule \in [Schedules -> 0 .. MaxCopies]
    /\ distributed = 0 /\ paid = [u \in Users |-> 0] /\ changes = 0

\* receive_cw20 and bond: for the sender or for another staker.  cw20 does
\* not send 0 tokens.
Bond(staker, amount) ==
    /\ amount > 0
    /\ total_bond_amount + amount <= MaxBond
    /\ changes < MaxChanges
    /\ ComputeReward
    /\ total_bond_amount' = total_bond_amount + amount
    /\ LET info == Credited(reward_infos[staker], global_reward_index')
       IN  reward_infos' = [reward_infos EXCEPT ![staker] =
                               [info EXCEPT !.bond_amount = info.bond_amount + amount]]
    /\ changes' = changes + 1
    /\ UNCHANGED <<schedule, now, paid>>

\* Faulty variants: the record is not credited before it changes; the total
\* is left alone.
UnbondUncredited(user, amount) ==
    /\ amount \in 1 .. reward_infos[user].bond_amount
    /\ changes < MaxChanges
    /\ ComputeReward
    /\ total_bond_amount' = total_bond_amount - amount
    /\ reward_infos' = [reward_infos EXCEPT ![user].bond_amount = @ - amount]
    /\ changes' = changes + 1
    /\ UNCHANGED <<schedule, now, paid>>
UnbondKeepTotal(user, amount) ==
    /\ amount \in 1 .. reward_infos[user].bond_amount
    /\ changes < MaxChanges
    /\ ComputeReward
    /\ reward_infos' = [reward_infos EXCEPT ![user] =
           Stored([Credited(@, global_reward_index') EXCEPT !.bond_amount = @ - amount])]
    /\ changes' = changes + 1
    /\ UNCHANGED <<total_bond_amount, schedule, now, paid>>

\* unbond; the transfer of 0 tokens it would end with fails.
Unbond(user, amount) ==
    /\ amount > 0
    /\ amount <= reward_infos[user].bond_amount
    /\ amount <= total_bond_amount
    /\ changes < MaxChanges
    /\ ComputeReward
    /\ total_bond_amount' = total_bond_amount - amount
    /\ LET info == Credited(reward_infos[user], global_reward_index')
       IN  reward_infos' = [reward_infos EXCEPT ![user] =
                               Stored([info EXCEPT !.bond_amount = info.bond_amount - amount])]
    /\ changes' = changes + 1
    /\ UNCHANGED <<schedule, now, paid>>

\* A faulty variant: pending_reward is not checked.
WithdrawUnchecked(user) ==
    /\ ComputeReward
    /\ \E amount \in Amounts :
          /\ reward_infos' = [reward_infos EXCEPT ![user] =
                 Stored([Credited(@, global_reward_index') EXCEPT !.pending_reward = @ - amount])]
          /\ paid' = [paid EXCEPT ![user] = @ + amount]
    /\ UNCHANGED <<total_bond_amount, schedule, now, changes>>

\* withdraw: a named amount, or all of pending_reward.
Withdraw(user) ==
    /\ ComputeReward
    /\ LET info == Credited(reward_infos[user], global_reward_index')
       IN  \E amount \in {a \in Amounts : a <= info.pending_reward} \cup {info.pending_reward} :
              /\ amount > 0
              /\ reward_infos' = [reward_infos EXCEPT ![user] =
                   Stored([info EXCEPT !.pending_reward = info.pending_reward - amount])]
              /\ paid' = [paid EXCEPT ![user] = @ + amount]
    /\ UNCHANGED <<total_bond_amount, schedule, now, changes>>

\* A faulty variant: entries that have begun may be replaced.
AssertNewSchedulesCount(new) == Total(new) >= Total(schedule)

\* assert_new_schedules: no fewer entries than before, and of an entry that
\* has begun by last_distributed exactly as many copies.
AssertNewSchedules(new) ==
    /\ Total(new) >= Total(schedule)
    /\ \A s \in Schedules : s.start <= last_distributed => new[s] = schedule[s]

\* update_config, called by the owner.
UpdateConfig(new) ==
    /\ AssertNewSchedules(new)
    /\ schedule' = new
    /\ UNCHANGED <<state, reward_infos, now, paid, changes>>

Tick ==
    /\ now < MaxTime
    /\ now' = now + 1
    /\ UNCHANGED <<state, reward_infos, schedule, paid, changes>>

Next ==
    \/ \E u \in Users, a \in Amounts : Bond(u, a) \/ Unbond(u, a)
    \/ \E u \in Users : Withdraw(u)
    \/ \E new \in [Schedules -> 0 .. MaxCopies] : UpdateConfig(new)
    \/ Tick

Spec == Init /\ [][Next]_vars

-----------------------------------------------------------------------------
(* What the contract promises *)

\* The total every distribution is divided by is the sum of the stakes it is
\* divided among.
BondConservation ==
    Total([u \in Users |-> reward_infos[u].bond_amount]) = total_bond_amount

\* Whatever the owner did to the schedule, all that was ever distributed is
\* covered by what the present schedule has released by last_distributed: no
\* second is paid twice, and what was paid for cannot be taken out again.
DistributedIsScheduled ==
    distributed <= DistributedAmount(schedule, 0, last_distributed)

\* What a staker could withdraw if nothing were distributed first.
Uncredited(u) == Credited(reward_infos[u], global_reward_index).pending_reward

\* query_reward_info at the present second.
PendingNow(u) ==
    LET index == IF total_bond_amount = 0 THEN global_reward_index
                 ELSE NextIndex(DistributedAmount(schedule, last_distributed, now))
    IN  Credited(reward_infos[u], index).pending_reward

\* All that stakers were paid or may withdraw was distributed, but for the
\* truncation of each credit: less than one token per bond or unbond.
SolventUpToRounding ==
    Total(paid) + Total([u \in Users |-> Uncredited(u)]) <= distributed + changes

\* No staker can be kept from leaving by a subtraction that fails on the way
\* to unbond's transfer: not the one from the total, and not the one between
\* the indexes.
StakersCanLeave ==
    \A u \in Users :
        /\ reward_infos[u].bond_amount <= total_bond_amount
        /\ reward_infos[u].reward_index <= global_reward_index

\* What an account has been paid or could withdraw now never falls, whoever
\* bonds, unbonds or withdraws, as long as the schedule stays.
EarnedNeverFalls ==
    [][schedule' = schedule =>
          \A u \in Users : (paid[u] + PendingNow(u))' >= paid[u] + PendingNow(u)]_vars

\* contract.rs:399 says of update_config: "if began ensure its in the new
\* schedule".  Here: an entry that began, with stakers to earn it, stays.
BegunEntriesAreKept ==
    [][\A s \in Schedules :
          s.start < now /\ total_bond_amount > 0 => schedule'[s] >= schedule[s]]_vars
=============================================================================
