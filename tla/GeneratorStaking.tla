-------------------------- MODULE GeneratorStaking --------------------------
(***************************************************************************)
(* contracts/generator_proxy, staking (staking.rs, astro_gov.rs): the      *)
(* xASTRO of all stakers is one lock in the voting escrow, created for a   *)
(* week and renewed by a relock.  Who leaves asks first and is paid from   *)
(* the next relock on.  Stakers earn a part of the boosted rewards and the *)
(* fees that the escrow's fee distributor pays per period; others may      *)
(* claim those fees for the contract.                                      *)
(*                                                                         *)
(* A transaction is the sequence `queue' of messages still to be executed, *)
(* as in GeneratorBond, of which only the effect on the shared record of   *)
(* ASTRO appears here.                                                     *)
(***************************************************************************)
EXTENDS Decimals, Sequences

CONSTANTS
    Stakers,        \* accounts that may stake
    Amounts,        \* amounts an account may name in a call
    Quotas,         \* values of max_quota
    Fees,           \* what a period may pay to the contract's lock
    Gifts,          \* values of GeneratorBond's income for stakers
    MaxLock,        \* bound: xASTRO in the lock
    MaxPeriod,      \* bound: the current period
    MaxHeld,        \* bound: ASTRO of the contract
    MaxIndex        \* bound: the index from which GeneratorBond brings no more

ASSUME StakeAssumption ==
    /\ IsFiniteSet(Stakers)
    /\ Amounts \subseteq Nat /\ Quotas \subseteq Nat
    /\ Fees \subseteq Nat /\ Gifts \subseteq Nat
    /\ MaxLock \in Nat /\ MaxPeriod \in Nat /\ MaxHeld \in Nat /\ MaxIndex \in Nat

VARIABLES
    state,          \* STAKING_STATE
    stakers,        \* STAKER_INFO, a default record where there is none
    reward,         \* REWARD_INFO of ASTRO, a default record before the first
    max_quota,      \* Config
    period,         \* get_period(env.block.time)
    queue,          \* messages of the transaction being executed
    undo,           \* the state it began in, while there is one
    \* outside the contract:
    held,           \* its ASTRO
    xastro,         \* its xASTRO
    lp_owed,        \* the part of the reconciled ASTRO that LP holders and the fee have
    lock,           \* its lock in the voting escrow, of 0 if there is none
    last_claim,     \* its last claim at the fee distributor, 0 if there is none
    weekly          \* what the distributor pays it for each period

ours == <<state, stakers, reward>>
theirs == <<held, xastro, lp_owed, lock, last_claim>>
vars == <<ours, max_quota, period, queue, undo, theirs, weekly>>

StakingState == [total_bond_share: Nat, reward_index: Nat, next_claim_period: Nat,
                 total_unstaking_amount: Nat, total_unstaked_amount: Nat,
                 unstaking_period: Nat]

StakerInfo == [exists: BOOLEAN, bond_share: Nat, reward_index: Nat, pending_reward: Nat,
               unstaking_amount: Nat, unstaked_amount: Nat, unstaking_period: Nat]

RewardInfo == [exists: BOOLEAN, reconciled_amount: Nat, staker_income: Nat]

Lock == [amount: Nat, start: Nat, end: Nat]

Message == [type: {"Relock", "FeeClaim", "AfterStakingClaimed", "EscrowWithdraw",
                   "CreateLock", "ExtendLockAmount"},
            amount: Nat]

NoStaker == [exists |-> FALSE, bond_share |-> 0, reward_index |-> 0, pending_reward |-> 0,
             unstaking_amount |-> 0, unstaked_amount |-> 0, unstaking_period |-> 0]
NoReward == [exists |-> FALSE, reconciled_amount |-> 0, staker_income |-> 0]
NoLock == [amount |-> 0, start |-> 0, end |-> 0]
NoUndo == << >>

TypeOK ==
    /\ state \in StakingState
    /\ stakers \in [Stakers -> StakerInfo]
    /\ reward \in RewardInfo
    /\ max_quota \in Nat /\ period \in Nat
    /\ queue \in Seq(Message)
    /\ held \in Nat /\ xastro \in Nat /\ lp_owed \in Nat
    /\ lock \in Lock
    /\ last_claim \in Nat
    /\ weekly \in [1 .. MaxPeriod -> Nat]

-----------------------------------------------------------------------------
(* Shares and income (model.rs, staking.rs) *)

\* The xASTRO of the lock that nobody has asked for.
Bonded(s, amount) == amount - AtMost(s.total_unstaking_amount, amount)

\* StakingState::calc_bond_share, truncating and rounding up.
MintShare(s, locked, amount) ==
    IF s.total_bond_share = 0 \/ Bonded(s, locked) = 0 THEN amount
    ELSE MulRatio(amount, s.total_bond_share, Bonded(s, locked))

\* A faulty variant: of the whole lock.
BurnShareGross(s, locked, amount) ==
    IF s.total_bond_share = 0 \/ locked = 0 THEN amount
    ELSE MulRatioCeil(amount, s.total_bond_share, locked)

BurnShare(s, locked, amount) ==
    IF s.total_bond_share = 0 \/ Bonded(s, locked) = 0 THEN amount
    ELSE MulRatioCeil(amount, s.total_bond_share, Bonded(s, locked))

\* reconcile_staker_income: the index, and what is left to distribute.
IndexAfter(s, r) ==
    IF s.total_bond_share = 0 THEN s.reward_index
    ELSE s.reward_index + FromRatio(r.staker_income, s.total_bond_share)

\* A faulty variant: the income is not taken away.
IncomeAfterKept(s, r) == r.staker_income

IncomeAfter(s, r) == IF s.total_bond_share = 0 THEN r.staker_income ELSE 0

Distributed(s, r) == [s EXCEPT !.reward_index = IndexAfter(s, r)]
Taken(s, r) == [r EXCEPT !.staker_income = IncomeAfter(s, r)]

\* reconcile_to_staker_info.
Earned(s, info) ==
    info.pending_reward + TimesDecimal(info.bond_share, s.reward_index - info.reward_index)

Credited(s, info) ==
    [info EXCEPT !.pending_reward = Earned(s, info), !.reward_index = s.reward_index]

\* A faulty variant: a request is done when it is next looked at.
UpdateStakingEarly(s, info) ==
    IF s.unstaking_period >= info.unstaking_period
    THEN [info EXCEPT !.unstaked_amount = @ + info.unstaking_amount,
                      !.unstaking_amount = 0, !.unstaking_period = s.unstaking_period]
    ELSE info

\* StakerInfo::update_staking: requests older than the last relock are done.
UpdateStaking(s, info) ==
    IF s.unstaking_period > info.unstaking_period
    THEN [info EXCEPT !.unstaked_amount = @ + info.unstaking_amount,
                      !.unstaking_amount = 0, !.unstaking_period = s.unstaking_period]
    ELSE info

\* A faulty variant: whoever stakes gets a new record.
StakerOfFresh(s, info) ==
    [NoStaker EXCEPT !.exists = TRUE, !.reward_index = s.reward_index,
                     !.unstaking_period = s.unstaking_period]

\* The record of a staker; StakerInfo::create makes one from the state.
StakerOf(s, info) ==
    IF info.exists THEN info
    ELSE [NoStaker EXCEPT !.exists = TRUE, !.reward_index = s.reward_index,
                          !.unstaking_period = s.unstaking_period]

-----------------------------------------------------------------------------
(* Transactions *)

State == [state |-> state, stakers |-> stakers, reward |-> reward, held |-> held,
          xastro |-> xastro, lp_owed |-> lp_owed, lock |-> lock, last_claim |-> last_claim]

Msg(type, amount) == [type |-> type, amount |-> amount]

Idle == queue = << >>

\* A call has left `messages' to execute.
Begin(messages) ==
    /\ Idle
    /\ queue' = messages
    /\ undo' = IF messages = << >> THEN NoUndo ELSE State

\* The rest of the transaction is `messages'.
Proceed(messages) ==
    /\ queue' = messages
    /\ undo' = IF messages = << >> THEN NoUndo ELSE undo

\* The message of the given type is next.
Executes(type) == ~Idle /\ Head(queue).type = type

Init ==
    /\ period = 1
    /\ state = [total_bond_share |-> 0, reward_index |-> 0, next_claim_period |-> period,
                total_unstaking_amount |-> 0, total_unstaked_amount |-> 0,
                unstaking_period |-> period]
    /\ stakers = [u \in Stakers |-> NoStaker]
    /\ reward = NoReward
    /\ max_quota \in Quotas
    /\ queue = << >> /\ undo = NoUndo
    /\ held = 0 /\ xastro = 0 /\ lp_owed = 0
    /\ lock = NoLock
    /\ last_claim = 0
    /\ weekly = [p \in 1 .. MaxPeriod |-> 0]

-----------------------------------------------------------------------------
(* Calls *)

\* execute_stake: xASTRO sent to the contract with a Stake hook.  An ended
\* lock is renewed first, by a message; the shares are counted now.
ExecuteStake(u, amount) ==
    LET s     == Distributed(state, reward)
        info  == Credited(s, StakerOf(state, stakers[u]))
        share == MintShare(s, lock.amount, amount)
    IN  /\ amount > 0
        /\ lock.amount + amount <= AtMost(max_quota, MaxLock)
        /\ reward.exists
        /\ Begin(IF lock.amount = 0 THEN <<Msg("CreateLock", amount)>>
                 ELSE IF lock.end <= period
                 THEN <<Msg("Relock", 0), Msg("ExtendLockAmount", amount)>>
                 ELSE <<Msg("ExtendLockAmount", amount)>>)
        /\ xastro' = xastro + amount
        /\ state' = [s EXCEPT !.total_bond_share = @ + share]
        /\ stakers' = [stakers EXCEPT ![u] = [info EXCEPT !.bond_share = @ + share]]
        /\ reward' = Taken(state, reward)
        /\ UNCHANGED <<max_quota, period, held, lp_owed, lock, last_claim, weekly>>

\* A faulty variant: only the total is checked.
BurnableFromTotal(s, info, share) == share <= s.total_bond_share

\* Both subtractions succeed.
Burnable(s, info, share) == share <= info.bond_share /\ share <= s.total_bond_share

\* execute_request_unstake.
ExecuteRequestUnstake(u, amount) ==
    LET s     == Distributed(state, reward)
        info  == UpdateStaking(s, Credited(s, stakers[u]))
        share == BurnShare(s, lock.amount, amount)
    IN  /\ stakers[u].exists
        /\ reward.exists
        /\ Burnable(s, info, share)
        /\ Begin(<< >>)
        /\ state' = [s EXCEPT !.total_bond_share = @ - share,
                              !.total_unstaking_amount = @ + amount]
        /\ stakers' = [stakers EXCEPT ![u] = [info EXCEPT !.bond_share = @ - share,
                                                          !.unstaking_amount = @ + amount]]
        /\ reward' = Taken(state, reward)
        /\ UNCHANGED <<max_quota, period, theirs, weekly>>

\* execute_withdraw_unstaked, with the transfer, which fails for 0.
ExecuteWithdrawUnstaked(u, amount) ==
    LET info == UpdateStaking(state, stakers[u])
    IN  /\ stakers[u].exists
        /\ amount > 0 /\ amount <= xastro
        /\ amount <= info.unstaked_amount /\ amount <= state.total_unstaked_amount
        /\ Begin(<< >>)
        /\ stakers' = [stakers EXCEPT ![u] = [info EXCEPT !.unstaked_amount = @ - amount]]
        /\ state' = [state EXCEPT !.total_unstaked_amount = @ - amount]
        /\ xastro' = xastro - amount
        /\ UNCHANGED <<reward, max_quota, period, held, lp_owed, lock, last_claim, weekly>>

\* execute_claim_income, with the transfer, which fails for 0.
ExecuteClaimIncome(u) ==
    LET s      == Distributed(state, reward)
        amount == Earned(s, stakers[u])
    IN  /\ stakers[u].exists
        /\ reward.exists
        /\ amount > 0 /\ amount <= held
        /\ amount <= reward.reconciled_amount
        /\ Begin(<< >>)
        /\ state' = s
        /\ stakers' = [stakers EXCEPT ![u] = [Credited(s, @) EXCEPT !.pending_reward = 0]]
        /\ reward' = [Taken(state, reward) EXCEPT !.reconciled_amount = @ - amount]
        /\ held' = held - amount
        /\ UNCHANGED <<max_quota, period, xastro, lp_owed, lock, last_claim, weekly>>

\* The controller calls execute_relock.
ControllerRelock ==
    /\ Begin(<<Msg("Relock", 0)>>)
    /\ UNCHANGED <<ours, max_quota, period, theirs, weekly>>

\* execute_update_parameters.
UpdateParameters(quota) ==
    /\ Begin(<< >>)
    /\ max_quota' = quota
    /\ UNCHANGED <<ours, period, theirs, weekly>>

-----------------------------------------------------------------------------
(* The relock *)

\* What the distributor pays for the periods from `first' to before `last'.
Payable(first, last) ==
    Total([p \in 1 .. MaxPeriod |->
              IF p \in first .. last - 1 /\ p <= lock.end THEN weekly[p] ELSE 0])

\* reconcile_staking_claim_by_others: the part of the balance that is not
\* accounted for, up to what others can have claimed since next_claim_period.
ClaimedByOthers ==
    AtMost(IF held > reward.reconciled_amount THEN held - reward.reconciled_amount ELSE 0,
           Payable(state.next_claim_period, last_claim))

\* The record of ASTRO with `amount' more income for the stakers.
WithIncome(amount) ==
    [reward EXCEPT !.staker_income = @ + amount, !.reconciled_amount = @ + amount]

\* A faulty variant: all of the lock is locked again.
RelockAmountAll == lock.amount

RelockAmount == lock.amount - state.total_unstaking_amount

\* execute_relock.
Relock ==
    LET s == [state EXCEPT !.total_unstaked_amount = @ + state.total_unstaking_amount,
                           !.total_unstaking_amount = 0,
                           !.unstaking_period = period,
                           !.next_claim_period = last_claim]
        r == WithIncome(ClaimedByOthers)
    IN  /\ Executes("Relock")
        /\ reward.exists
        /\ last_claim # 0
        /\ state.total_unstaking_amount <= lock.amount
        /\ state' = Distributed(s, r)
        /\ reward' = Taken(s, r)
        /\ Proceed(<<Msg("FeeClaim", 0), Msg("AfterStakingClaimed", held),
                     Msg("EscrowWithdraw", 0), Msg("CreateLock", RelockAmount)>>
                   \o Tail(queue))
        /\ UNCHANGED <<stakers, max_quota, period, theirs, weekly>>

\* A faulty variant: the callback counts the whole balance.
ClaimedWhole == held

\* What the claim before the callback brought.
Claimed == held - Head(queue).amount

\* callback_after_staking_claimed.
AfterStakingClaimed ==
    LET s == [state EXCEPT !.next_claim_period = last_claim]
        r == WithIncome(Claimed)
    IN  /\ Executes("AfterStakingClaimed")
        /\ reward.exists
        /\ Head(queue).amount <= held
        /\ state' = Distributed(s, r)
        /\ reward' = Taken(s, r)
        /\ Proceed(Tail(queue))
        /\ UNCHANGED <<stakers, max_quota, period, theirs, weekly>>

-----------------------------------------------------------------------------
(* The voting escrow and the fee distributor, as the contract uses them *)

\* The distributor pays for past periods, up to the end of the lock.
FeeClaimed ==
    LET first == IF last_claim = 0 THEN lock.start ELSE last_claim
        last  == AtMost(period, lock.end + 1)
    IN  /\ lock.amount > 0
        /\ held' = held + Payable(first, last)
        /\ last_claim' = IF last > first THEN last ELSE first

FeeClaim ==
    /\ Executes("FeeClaim")
    /\ FeeClaimed
    /\ Proceed(Tail(queue))
    /\ UNCHANGED <<ours, max_quota, period, xastro, lp_owed, lock, weekly>>

EscrowWithdraw ==
    /\ Executes("EscrowWithdraw")
    /\ lock.amount > 0 /\ lock.end <= period
    /\ xastro' = xastro + lock.amount
    /\ lock' = NoLock
    /\ Proceed(Tail(queue))
    /\ UNCHANGED <<ours, max_quota, period, held, lp_owed, last_claim, weekly>>

\* For a week; sending 0 fails.
CreateLock ==
    LET amount == Head(queue).amount
    IN  /\ Executes("CreateLock")
        /\ amount > 0 /\ amount <= xastro
        /\ lock.amount = 0
        /\ lock' = [amount |-> amount, start |-> period, end |-> period + 1]
        /\ xastro' = xastro - amount
        /\ Proceed(Tail(queue))
        /\ UNCHANGED <<ours, max_quota, period, held, lp_owed, last_claim, weekly>>

ExtendLockAmount ==
    LET amount == Head(queue).amount
    IN  /\ Executes("ExtendLockAmount")
        /\ amount > 0 /\ amount <= xastro
        /\ lock.amount > 0 /\ lock.end > period
        /\ lock' = [lock EXCEPT !.amount = @ + amount]
        /\ xastro' = xastro - amount
        /\ Proceed(Tail(queue))
        /\ UNCHANGED <<ours, max_quota, period, held, lp_owed, last_claim, weekly>>

\* Others claim the fees for the contract.
ClaimMany ==
    /\ Idle
    /\ FeeClaimed
    /\ UNCHANGED <<ours, max_quota, period, queue, undo, xastro, lp_owed, lock, weekly>>

\* Others add to its lock.
DepositFor ==
    /\ Idle
    /\ lock.amount \in 1 .. MaxLock - 1 /\ lock.end > period
    /\ lock' = [lock EXCEPT !.amount = @ + 1]
    /\ UNCHANGED <<ours, max_quota, period, queue, undo, held, xastro, lp_owed, last_claim, weekly>>

\* GeneratorBond reconciles a reward, a part of which is for the stakers.
BondReward(income, rest) ==
    /\ Idle
    /\ held + income + rest <= MaxHeld /\ state.reward_index < MaxIndex
    /\ held' = held + income + rest
    /\ lp_owed' = lp_owed + rest
    /\ reward' = [WithIncome(income) EXCEPT !.exists = TRUE, !.reconciled_amount = @ + rest]
    /\ UNCHANGED <<state, stakers, max_quota, period, queue, undo, xastro, lock, last_claim, weekly>>

\* It pays LP holders or sends the fee.
BondPays ==
    /\ Idle
    /\ lp_owed > 0
    /\ lp_owed' = 0
    /\ held' = held - lp_owed
    /\ reward' = [reward EXCEPT !.reconciled_amount = @ - lp_owed]
    /\ UNCHANGED <<state, stakers, max_quota, period, queue, undo, xastro, lock, last_claim, weekly>>

\* ASTRO arrives that is nobody's: a gift, or a reward of a pool that others
\* claimed and that GeneratorBond has not seen.
Donate ==
    /\ Idle
    /\ held < MaxHeld
    /\ held' = held + 1
    /\ UNCHANGED <<ours, max_quota, period, queue, undo, xastro, lp_owed, lock, last_claim, weekly>>

\* A period ends, and the distributor knows what it pays the lock for it; a
\* lock that has ended has no voting power.
Tick ==
    /\ Idle
    /\ period < MaxPeriod
    /\ \E fee \in IF lock.amount > 0 /\ period < lock.end THEN Fees ELSE {0} :
          weekly' = [weekly EXCEPT ![period] = fee]
    /\ period' = period + 1
    /\ UNCHANGED <<ours, max_quota, queue, undo, theirs>>

\* Some message fails.
Revert ==
    /\ ~Idle
    /\ state' = undo.state /\ stakers' = undo.stakers /\ reward' = undo.reward
    /\ held' = undo.held /\ xastro' = undo.xastro /\ lp_owed' = undo.lp_owed
    /\ lock' = undo.lock /\ last_claim' = undo.last_claim
    /\ Proceed(<< >>)
    /\ UNCHANGED <<max_quota, period, weekly>>

Next ==
    \/ \E u \in Stakers, a \in Amounts :
          \/ ExecuteStake(u, a)
          \/ ExecuteRequestUnstake(u, a)
          \/ ExecuteWithdrawUnstaked(u, a)
    \/ \E u \in Stakers : ExecuteClaimIncome(u)
    \/ ControllerRelock
    \/ \E quota \in Quotas : UpdateParameters(quota)
    \/ Relock \/ AfterStakingClaimed
    \/ FeeClaim \/ EscrowWithdraw \/ CreateLock \/ ExtendLockAmount
    \/ ClaimMany \/ DepositFor
    \/ \E income, rest \in Gifts : BondReward(income, rest)
    \/ BondPays \/ Donate
    \/ Tick \/ Revert

Spec == Init /\ [][Next]_vars
-----------------------------------------------------------------------------
(* What the contract promises *)

\* The totals are the sums of the stakers' records.  Between transactions this
\* includes the two totals of requests, as the records will say once they are
\* brought up to date, however many relocks a record has missed.  That needs
\* a relock in the period of the last one to fail, which update_staking could
\* not tell from it.
StakeConservation ==
    /\ Total([u \in Stakers |-> stakers[u].bond_share]) = state.total_bond_share
    /\ Idle =>
        /\ Total([u \in Stakers |-> UpdateStaking(state, stakers[u]).unstaking_amount])
               = state.total_unstaking_amount
        /\ Total([u \in Stakers |-> UpdateStaking(state, stakers[u]).unstaked_amount])
               = state.total_unstaked_amount

\* Between transactions, requests of this lock are covered by the lock and
\* those of earlier ones by the xASTRO of the contract.
RequestsCovered ==
    Idle => /\ state.total_unstaking_amount <= lock.amount
            /\ state.total_unstaked_amount <= xastro

\* What stakers have earned, what is still to be distributed, and what LP
\* holders and the fee have, is covered by what is reconciled, and that by
\* the balance, whoever claimed it.
IncomeCovered ==
    /\ Total([u \in Stakers |-> Earned(state, stakers[u])])
           + reward.staker_income + lp_owed <= reward.reconciled_amount
    /\ reward.reconciled_amount <= held

\* (calc_bond_share) Over whole transactions the xASTRO of the lock that
\* nobody has asked for is a SharePool, also when the lock is renewed on the
\* way: relocks and requests move nothing from one staker to another.
Settled == IF Idle THEN State ELSE undo

Pool == INSTANCE SharePool WITH
            Holders <- Stakers,
            shares  <- [u \in Stakers |-> Settled.stakers[u].bond_share],
            pot     <- Settled.lock.amount - Settled.state.total_unstaking_amount,
            idle    <- 0

ImplementsSharePool == Pool!Spec

\* (calc_bond_share, calc_bond_amount) The xASTRO behind a share never becomes
\* less.
SharePriceNeverFalls == Pool!PriceNeverFalls
=============================================================================
