--------------------------- MODULE GeneratorBond ---------------------------
(***************************************************************************)
(* contracts/generator_proxy, bonding (bond.rs, oper.rs): pools the LP of  *)
(* many holders in Astroport's generator, claims the rewards for all of    *)
(* them and splits the boosted part among LP holders, xASTRO stakers and a *)
(* fee.  The generator pays into one balance per token, so the contract    *)
(* tells by the differences of balances what it was paid and for whom;     *)
(* others can make the generator pay as well.                              *)
(*                                                                         *)
(* A transaction is the sequence `queue' of messages that are still to be  *)
(* executed; a handler puts its own messages in front.  Nobody else runs   *)
(* until it is empty, and a failing message reverts everything to `undo'.  *)
(***************************************************************************)
EXTENDS Decimals, Sequences, SequencesExt

CONSTANTS
    Users,          \* accounts that may hold a share of a pool
    NoOne,          \* not an account
    LpTokens,       \* the pools
    ASTRO,          \* the generator's own reward token
    ProxyTokens,    \* reward tokens of the generator's proxies
    Amounts,        \* amounts of LP an account may name in a call
    ClaimLists,     \* lp_tokens an account may name in claim_rewards
    BoostFees,      \* values of boost_fee
    StakerRates,    \* values of staker_rate
    MaxLp,          \* bound: LP of a pool
    MaxIndex,       \* bound: what the generator emits per LP
    MaxHeight,      \* bound: block height
    MaxGift         \* bound: reward tokens that anyone sends to the contract

Tokens == {ASTRO} \cup ProxyTokens

ASSUME BondAssumption ==
    /\ IsFiniteSet(Users) /\ NoOne \notin Users
    /\ IsFiniteSet(LpTokens) /\ LpTokens # {}
    /\ IsFiniteSet(ProxyTokens) /\ ASTRO \notin ProxyTokens
    /\ Amounts \subseteq Nat
    /\ ClaimLists \subseteq Seq(LpTokens)
    /\ BoostFees \subseteq 0 .. SCALE /\ StakerRates \subseteq 0 .. SCALE
    /\ MaxLp \in Nat /\ MaxIndex \in Nat /\ MaxHeight \in Nat /\ MaxGift \in Nat

VARIABLES
    pools,          \* POOL_INFO, a default record where there is none
    users,          \* USER_INFO, likewise
    rewards,        \* REWARD_INFO, a zero record where there is none
    boost_fee, staker_rate,     \* Config
    height,         \* env.block.height
    queue,          \* messages of the transaction being executed
    undo,           \* the state it began in, while there is one
    \* outside the contract:
    held,           \* its balances of reward tokens
    deposits,       \* its record in the generator for each LP token
    emitted         \* the generator's index of each LP token and reward token

bond == <<pools, users, rewards>>
vars == <<bond, boost_fee, staker_rate, height, queue, undo, held, deposits, emitted>>

Indexes == [Tokens -> Nat]

PoolInfo == [exists: BOOLEAN, total_bond_share: Nat, reward_indexes: Indexes,
             prev_reward_user_index: Nat, prev_reward_debt_proxy: [ProxyTokens -> Nat],
             last_reconcile: Nat]

UserInfo == [exists: BOOLEAN, bond_share: Nat, reward_indexes: Indexes, pending_rewards: Indexes]

RewardInfo == [reconciled_amount: Nat, fee: Nat, staker_income: Nat]

Deposits == [amount: Nat, virtual_amount: Nat, reward_user_index: Nat,
             reward_debt_proxy: [ProxyTokens -> Nat]]

Messages == {"GeneratorClaim", "AfterBondClaimed", "Deposit", "GeneratorDeposit",
             "Withdraw", "GeneratorWithdraw", "AfterBondChanged", "ClaimRewards"}

Message == [type: Messages, lp: LpTokens, user: Users \cup {NoOne}, amount: Nat, prev: Indexes]

NoTokens == [t \in Tokens |-> 0]
NoDebt == [t \in ProxyTokens |-> 0]

NoPool == [exists |-> FALSE, total_bond_share |-> 0, reward_indexes |-> NoTokens,
           prev_reward_user_index |-> 0, prev_reward_debt_proxy |-> NoDebt,
           last_reconcile |-> 0]
NoUser == [exists |-> FALSE, bond_share |-> 0, reward_indexes |-> NoTokens,
           pending_rewards |-> NoTokens]
NoReward == [reconciled_amount |-> 0, fee |-> 0, staker_income |-> 0]
NoDeposit == [amount |-> 0, virtual_amount |-> 0, reward_user_index |-> 0,
              reward_debt_proxy |-> NoDebt]

\* What a failing message reverts.
State == [pools |-> pools, users |-> users, rewards |-> rewards, held |-> held,
          deposits |-> deposits]
NoState == [pools |-> [lp \in LpTokens |-> NoPool],
            users |-> [p \in LpTokens \X Users |-> NoUser],
            rewards |-> [t \in Tokens |-> NoReward], held |-> NoTokens,
            deposits |-> [lp \in LpTokens |-> NoDeposit]]

TypeOK ==
    /\ pools \in [LpTokens -> PoolInfo]
    /\ users \in [LpTokens \X Users -> UserInfo]
    /\ rewards \in [Tokens -> RewardInfo]
    /\ boost_fee \in 0 .. SCALE /\ staker_rate \in 0 .. SCALE
    /\ height \in Nat
    /\ queue \in Seq(Message)
    /\ held \in Indexes
    /\ deposits \in [LpTokens -> Deposits]
    /\ emitted \in [LpTokens -> Indexes]

-----------------------------------------------------------------------------
(* The split of a reward (reconcile_astro_reward, reconcile_token_reward) *)

\* The part that the deposit would earn without boost: 40% of the LP.
Based(deposit, net) == MulRatio(net, (deposit.amount * 40) \div 100, deposit.virtual_amount)

Fee(deposit, net) == TimesDecimal(net - Based(deposit, net), boost_fee)

ToStaker(deposit, net) ==
    TimesDecimal(net - Based(deposit, net) - Fee(deposit, net), staker_rate)

\* A faulty variant: the LP holders get the boosted part undivided.
ToLpUndivided(deposit, net) == net - Fee(deposit, net)

ToLp(deposit, net) == net - Fee(deposit, net) - ToStaker(deposit, net)

\* A faulty variant: what came in is booked, but the indexes do not rise.
CreditForgotten(pool, deposit, net) == pool.reward_indexes

\* The pool's indexes when it is credited with `net' of each token.
Credit(pool, deposit, net) ==
    [t \in Tokens |->
        pool.reward_indexes[t] +
            IF net[t] = 0 THEN 0
            ELSE FromRatio(IF t = ASTRO THEN ToLp(deposit, net[t]) ELSE net[t],
                           pool.total_bond_share)]

\* What the contract keeps account of for it.
Book(infos, deposit, net) ==
    [t \in Tokens |->
        LET split == t = ASTRO /\ net[t] # 0
        IN  [reconciled_amount |-> infos[t].reconciled_amount + net[t],
             fee |-> infos[t].fee + IF split THEN Fee(deposit, net[t]) ELSE 0,
             staker_income |-> infos[t].staker_income
                                   + IF split THEN ToStaker(deposit, net[t]) ELSE 0]]

\* No division or subtraction of the two fails.
Creditable(pool, deposit, net) ==
    /\ \A t \in Tokens : net[t] # 0 => pool.total_bond_share > 0
    /\ net[ASTRO] # 0 => /\ deposit.virtual_amount > 0
                         /\ Based(deposit, net[ASTRO]) <= net[ASTRO]

\* The pool with its indexes, and in step with the generator's record.
Synced(pool, indexes, deposit) ==
    [pool EXCEPT !.reward_indexes = indexes,
                 !.prev_reward_user_index = deposit.reward_user_index,
                 !.prev_reward_debt_proxy = deposit.reward_debt_proxy]

-----------------------------------------------------------------------------
(* Rewards that others claimed (reconcile_claimed_by_others) *)

Minus(a, b) == IF a > b THEN a - b ELSE 0

\* What the generator's record says was paid for the pool since it was last
\* looked at.
Paid(pool, deposit, t) ==
    IF t = ASTRO
    THEN (deposit.reward_user_index - pool.prev_reward_user_index) * deposit.virtual_amount
    ELSE Minus(deposit.reward_debt_proxy[t], pool.prev_reward_debt_proxy[t])

\* The part of it that is on the balance and not accounted for yet.
Surplus(infos, pool, deposit, t) ==
    AtMost(Minus(held[t], infos[t].reconciled_amount), Paid(pool, deposit, t))

\* A faulty variant: a claim still counts one block later.
NeedsClaimLate(pool) == pool.total_bond_share = 0 \/ pool.last_reconcile + 1 < height

\* A pool is claimed for once in a block.
NeedsClaim(pool) == pool.total_bond_share = 0 \/ pool.last_reconcile # height

\* s holds the pools and the rewards, and whether all went well so far.
ReconcileClaimedByOthers(s, lp) ==
    LET pool    == s.pools[lp]
        deposit == deposits[lp]
        net     == [t \in Tokens |-> Surplus(s.rewards, pool, deposit, t)]
    IN  IF pool.total_bond_share = 0 \/ ~NeedsClaim(pool) THEN s
        ELSE [pools   |-> [s.pools EXCEPT ![lp] =
                              Synced(pool, Credit(pool, deposit, net), deposit)],
              rewards |-> Book(s.rewards, deposit, net),
              ok      |-> s.ok /\ Creditable(pool, deposit, net)
                               /\ pool.prev_reward_user_index <= deposit.reward_user_index]

NoMessage == [type |-> "GeneratorClaim", lp |-> CHOOSE lp \in LpTokens : TRUE,
              user |-> NoOne, amount |-> 0, prev |-> NoTokens]

\* The messages that claim: withdraw 1 and deposit 1, which is one step of
\* the generator here, and the callback with the balances read now.
ClaimMessages(lp) ==
    IF NeedsClaim(pools[lp])
    THEN <<[NoMessage EXCEPT !.type = "GeneratorClaim", !.lp = lp],
           [NoMessage EXCEPT !.type = "AfterBondClaimed", !.lp = lp, !.prev = held]>>
    ELSE << >>

-----------------------------------------------------------------------------
Init ==
    /\ pools = [lp \in LpTokens |-> NoPool]
    /\ users = [p \in LpTokens \X Users |-> NoUser]
    /\ rewards = [t \in Tokens |-> NoReward]
    /\ boost_fee \in BoostFees /\ staker_rate \in StakerRates
    /\ height = 1
    /\ queue = << >>
    /\ held = NoTokens
    /\ deposits = [lp \in LpTokens |-> NoDeposit]
    /\ emitted = [lp \in LpTokens |-> NoTokens]
    /\ undo = NoState

\* A transaction begins: the claims of others for lps are reconciled and
\* `messages' will be executed.
Begin(lps, messages) ==
    LET s == FoldLeft(ReconcileClaimedByOthers,
                      [pools |-> pools, rewards |-> rewards, ok |-> TRUE], lps)
    IN  /\ queue = << >>
        /\ s.ok
        /\ pools' = s.pools /\ rewards' = s.rewards
        /\ queue' = messages
        /\ undo' = State
        /\ UNCHANGED <<users, boost_fee, staker_rate, height, held, deposits, emitted>>

Call(type, lp, user, amount) ==
    [NoMessage EXCEPT !.type = type, !.lp = lp, !.user = user, !.amount = amount]

\* execute_deposit: LP sent to the contract with a Deposit hook.  Rewards
\* cannot be claimed if there is no record in the generator.
ExecuteDeposit(lp, user, amount) ==
    LET recorded == deposits[lp].amount > 0
    IN  /\ amount > 0
        /\ deposits[lp].amount + amount <= MaxLp
        /\ Begin(IF recorded THEN <<lp>> ELSE << >>,
                 (IF recorded THEN ClaimMessages(lp) ELSE << >>)
                     \o <<Call("Deposit", lp, user, amount)>>)

\* execute_withdraw.
ExecuteWithdraw(lp, user, amount) ==
    /\ deposits[lp].amount > 0
    /\ Begin(<<lp>>, ClaimMessages(lp) \o <<Call("Withdraw", lp, user, amount)>>)

\* execute_claim_rewards: every balance is read before the first claim.
ExecuteClaimRewards(user, lps) ==
    /\ \A i \in DOMAIN lps : deposits[lps[i]].amount > 0
    /\ lps # << >>
    /\ Begin(lps, FlattenSeq([i \in DOMAIN lps |->
                     ClaimMessages(lps[i]) \o <<Call("ClaimRewards", lps[i], user, 0)>>]))
-----------------------------------------------------------------------------
(* Callbacks *)

\* The rest of the transaction is `messages'.
Proceed(messages) ==
    /\ queue' = messages
    /\ undo' = IF messages = << >> THEN NoState ELSE undo

\* The message of the given type is next.
Executes(type) == queue # << >> /\ Head(queue).type = type

\* A faulty variant: the callback counts the whole balance.
ClaimedWhole(message) == held

\* What the claim before this callback brought.
Claimed(message) == [t \in Tokens |-> held[t] - message.prev[t]]

\* callback_after_bond_claimed.
AfterBondClaimed ==
    LET lp      == Head(queue).lp
        pool    == pools[lp]
        deposit == deposits[lp]
        net     == Claimed(Head(queue))
    IN  /\ Executes("AfterBondClaimed")
        /\ pool.exists
        /\ deposit.amount > 0
        /\ \A t \in Tokens : Head(queue).prev[t] <= held[t]
        /\ Creditable(pool, deposit, net)
        /\ pools' = [pools EXCEPT ![lp] =
                        [Synced(pool, Credit(pool, deposit, net), deposit)
                            EXCEPT !.last_reconcile = height]]
        /\ rewards' = Book(rewards, deposit, net)
        /\ Proceed(Tail(queue))
        /\ UNCHANGED <<users, boost_fee, staker_rate, height, held, deposits, emitted>>

\* reconcile_to_user_info: what the user has earned of each token.
Earned(pool, user) ==
    [t \in Tokens |-> user.pending_rewards[t]
        + TimesDecimal(user.bond_share, pool.reward_indexes[t] - user.reward_indexes[t])]

ReconcileToUserInfo(pool, user) ==
    [user EXCEPT !.pending_rewards = Earned(pool, user),
                 !.reward_indexes = pool.reward_indexes]

\* PoolInfo::calc_bond_share, truncating and rounding up.
MintShare(pool, lp, amount) ==
    IF pool.total_bond_share = 0 \/ lp = 0 THEN amount
    ELSE MulRatio(amount, pool.total_bond_share, lp)

\* A faulty variant: truncating.
BurnShareTruncated(pool, lp, amount) == MintShare(pool, lp, amount)

BurnShare(pool, lp, amount) ==
    IF pool.total_bond_share = 0 \/ lp = 0 THEN amount
    ELSE MulRatioCeil(amount, pool.total_bond_share, lp)

\* A faulty variant: whoever deposits gets a new record.
UserOfFresh(pool, old) ==
    [NoUser EXCEPT !.exists = TRUE, !.reward_indexes = pool.reward_indexes]

\* The record of a user; one without starts at the pool's indexes.
UserOf(pool, old) ==
    IF old.exists THEN old
    ELSE [NoUser EXCEPT !.exists = TRUE, !.reward_indexes = pool.reward_indexes]

\* callback_deposit.
CallbackDeposit ==
    LET m     == Head(queue)
        pool  == pools[m.lp]
        user  == ReconcileToUserInfo(pool, UserOf(pool, users[<<m.lp, m.user>>]))
        share == MintShare(pool, deposits[m.lp].amount, m.amount)
    IN  /\ Executes("Deposit")
        /\ users' = [users EXCEPT ![<<m.lp, m.user>>] =
                        [user EXCEPT !.bond_share = user.bond_share + share]]
        /\ pools' = [pools EXCEPT ![m.lp].exists = TRUE,
                                  ![m.lp].total_bond_share = pool.total_bond_share + share]
        /\ Proceed(<<Call("GeneratorDeposit", m.lp, m.user, m.amount),
                      Call("AfterBondChanged", m.lp, NoOne, 0)>> \o Tail(queue))
        /\ UNCHANGED <<rewards, boost_fee, staker_rate, height, held, deposits, emitted>>

\* A faulty variant: only the pool's total is checked.
BurnableFromPool(pool, user, share) == share <= pool.total_bond_share

\* Both subtractions succeed.
Burnable(pool, user, share) ==
    share <= user.bond_share /\ share <= pool.total_bond_share

\* callback_withdraw.
CallbackWithdraw ==
    LET m     == Head(queue)
        pool  == pools[m.lp]
        user  == ReconcileToUserInfo(pool, users[<<m.lp, m.user>>])
        share == BurnShare(pool, deposits[m.lp].amount, m.amount)
    IN  /\ Executes("Withdraw")
        /\ pool.exists /\ user.exists
        /\ Burnable(pool, user, share)
        /\ users' = [users EXCEPT ![<<m.lp, m.user>>] =
                        [user EXCEPT !.bond_share = user.bond_share - share]]
        /\ pools' = [pools EXCEPT ![m.lp].total_bond_share = pool.total_bond_share - share]
        /\ Proceed(<<Call("GeneratorWithdraw", m.lp, m.user, m.amount),
                      Call("AfterBondChanged", m.lp, NoOne, 0)>> \o Tail(queue))
        /\ UNCHANGED <<rewards, boost_fee, staker_rate, height, held, deposits, emitted>>

\* callback_after_bond_changed: the debt is reset after the share changed.
AfterBondChanged ==
    LET lp == Head(queue).lp
    IN  /\ Executes("AfterBondChanged")
        /\ IF deposits[lp].amount = 0 THEN UNCHANGED pools
           ELSE /\ pools[lp].exists
                /\ pools' = [pools EXCEPT ![lp] =
                                Synced(@, pools[lp].reward_indexes, deposits[lp])]
        /\ Proceed(Tail(queue))
        /\ UNCHANGED <<users, rewards, boost_fee, staker_rate, height, held, deposits, emitted>>

\* The user's record once his rewards have been sent to him.
AfterClaim(user, pool) ==
    [user EXCEPT !.pending_rewards = NoTokens, !.reward_indexes = pool.reward_indexes]

\* callback_claim_rewards and the transfers it sends.
CallbackClaimRewards ==
    LET m      == Head(queue)
        user   == users[<<m.lp, m.user>>]
        amount == Earned(pools[m.lp], user)
    IN  /\ Executes("ClaimRewards")
        /\ pools[m.lp].exists /\ user.exists
        /\ \A t \in Tokens : amount[t] <= rewards[t].reconciled_amount /\ amount[t] <= held[t]
        /\ rewards' = [t \in Tokens |->
                          [rewards[t] EXCEPT !.reconciled_amount = @ - amount[t]]]
        /\ users' = [users EXCEPT ![<<m.lp, m.user>>] = AfterClaim(user, pools[m.lp])]
        /\ held' = [t \in Tokens |-> held[t] - amount[t]]
        /\ Proceed(Tail(queue))
        /\ UNCHANGED <<pools, boost_fee, staker_rate, height, deposits, emitted>>
-----------------------------------------------------------------------------
(* The generator, as the contract uses it, and the rest of the world *)

\* What the generator owes the contract.
Owed(lp) ==
    [t \in Tokens |->
        IF t = ASTRO
        THEN (emitted[lp][t] - deposits[lp].reward_user_index) * deposits[lp].virtual_amount
        ELSE emitted[lp][t] * deposits[lp].amount - deposits[lp].reward_debt_proxy[t]]

\* The least and the greatest virtual amount of a deposit.
VirtualAmounts(amount) == {(amount * 40) \div 100, amount}

\* Any call about a deposit pays what is owed and brings the record up to
\* date; a record of nothing is removed.
Settle(lp, amount) ==
    /\ held' = [t \in Tokens |-> held[t] + Owed(lp)[t]]
    /\ \E virtual \in VirtualAmounts(amount) :
          deposits' = [deposits EXCEPT ![lp] =
              IF amount = 0 THEN NoDeposit
              ELSE [amount |-> amount, virtual_amount |-> virtual,
                    reward_user_index |-> emitted[lp][ASTRO],
                    reward_debt_proxy |-> [t \in ProxyTokens |-> emitted[lp][t] * amount]]]

GeneratorClaim ==
    /\ Executes("GeneratorClaim")
    /\ Settle(Head(queue).lp, deposits[Head(queue).lp].amount)
    /\ Proceed(Tail(queue))
    /\ UNCHANGED <<bond, boost_fee, staker_rate, height, emitted>>

GeneratorDeposit ==
    /\ Executes("GeneratorDeposit")
    /\ Settle(Head(queue).lp, deposits[Head(queue).lp].amount + Head(queue).amount)
    /\ Proceed(Tail(queue))
    /\ UNCHANGED <<bond, boost_fee, staker_rate, height, emitted>>

\* With the transfer of the LP to the user, which fails for an amount of 0.
GeneratorWithdraw ==
    /\ Executes("GeneratorWithdraw")
    /\ Head(queue).amount \in 1 .. deposits[Head(queue).lp].amount
    /\ Settle(Head(queue).lp, deposits[Head(queue).lp].amount - Head(queue).amount)
    /\ Proceed(Tail(queue))
    /\ UNCHANGED <<bond, boost_fee, staker_rate, height, emitted>>

\* CheckpointUserBoost, which anyone may call for the contract.
CheckpointUserBoost(lp) ==
    /\ queue = << >>
    /\ deposits[lp].amount > 0
    /\ Settle(lp, deposits[lp].amount)
    /\ UNCHANGED <<bond, boost_fee, staker_rate, height, queue, undo, emitted>>

\* DepositFor: anyone may deposit LP for the contract.
DepositFor(lp, amount) ==
    /\ queue = << >>
    /\ amount > 0 /\ deposits[lp].amount + amount <= MaxLp
    /\ Settle(lp, deposits[lp].amount + amount)
    /\ UNCHANGED <<bond, boost_fee, staker_rate, height, queue, undo, emitted>>

\* Anyone may send reward tokens to the contract.
Donate(t) ==
    /\ queue = << >>
    /\ held[t] < MaxGift
    /\ held' = [held EXCEPT ![t] = @ + 1]
    /\ UNCHANGED <<bond, boost_fee, staker_rate, height, queue, undo, deposits, emitted>>

\* A block passes, in which the generator emits rewards.
Tick ==
    /\ queue = << >>
    /\ height < MaxHeight
    /\ height' = height + 1
    /\ \E more \in [LpTokens -> [Tokens -> {0, 1}]] :
          /\ emitted' = [lp \in LpTokens |-> [t \in Tokens |-> emitted[lp][t] + more[lp][t]]]
          /\ \A lp \in LpTokens, t \in Tokens : emitted'[lp][t] <= MaxIndex
    /\ UNCHANGED <<bond, boost_fee, staker_rate, queue, undo, held, deposits>>

\* Some message fails.
Revert ==
    /\ queue # << >>
    /\ pools' = undo.pools /\ users' = undo.users /\ rewards' = undo.rewards
    /\ held' = undo.held /\ deposits' = undo.deposits
    /\ Proceed(<< >>)
    /\ UNCHANGED <<boost_fee, staker_rate, height, emitted>>
-----------------------------------------------------------------------------
(* oper.rs *)

\* execute_send_income, called by the controller.
SendIncome ==
    LET fee == rewards[ASTRO].fee
    IN  /\ queue = << >>
        /\ fee <= rewards[ASTRO].reconciled_amount /\ fee <= held[ASTRO]
        /\ rewards' = [rewards EXCEPT ![ASTRO].fee = 0, ![ASTRO].reconciled_amount = @ - fee]
        /\ held' = [held EXCEPT ![ASTRO] = @ - fee]
        /\ UNCHANGED <<pools, users, boost_fee, staker_rate, height, queue, undo, deposits, emitted>>

\* execute_update_config and execute_update_parameters.
UpdateConfig(newFee) ==
    /\ queue = << >>
    /\ boost_fee' = newFee
    /\ UNCHANGED <<bond, staker_rate, height, queue, undo, held, deposits, emitted>>

UpdateParameters(newRate) ==
    /\ queue = << >>
    /\ staker_rate' = newRate
    /\ UNCHANGED <<bond, boost_fee, height, queue, undo, held, deposits, emitted>>

Next ==
    \/ \E lp \in LpTokens, u \in Users, a \in Amounts :
          ExecuteDeposit(lp, u, a) \/ ExecuteWithdraw(lp, u, a)
    \/ \E u \in Users, lps \in ClaimLists : ExecuteClaimRewards(u, lps)
    \/ AfterBondClaimed \/ CallbackDeposit \/ CallbackWithdraw
    \/ AfterBondChanged \/ CallbackClaimRewards
    \/ GeneratorClaim \/ GeneratorDeposit \/ GeneratorWithdraw
    \/ \E lp \in LpTokens : CheckpointUserBoost(lp)
    \/ \E lp \in LpTokens, a \in Amounts : DepositFor(lp, a)
    \/ \E t \in Tokens : Donate(t)
    \/ Tick \/ Revert \/ SendIncome
    \/ \E f \in BoostFees : UpdateConfig(f)
    \/ \E r \in StakerRates : UpdateParameters(r)

Spec == Init /\ [][Next]_vars
-----------------------------------------------------------------------------
(* What the contract promises *)

\* A pool's total is the sum of the shares of its users.
PoolConservation ==
    \A lp \in LpTokens :
        Total([u \in Users |-> users[<<lp, u>>].bond_share]) = pools[lp].total_bond_share

\* All that users have earned, the fee and the stakers' part of each token
\* are covered by what has been reconciled: no split hands out more than came
\* in, and no sequence of claims pays one reward twice.
ClaimsReconciled ==
    \A t \in Tokens :
        Total([p \in LpTokens \X Users |-> Earned(pools[p[1]], users[p])[t]])
            + rewards[t].fee + rewards[t].staker_income
        <= rewards[t].reconciled_amount

\* What has been reconciled is there.  test.rs's claim_rewards expects the
\* amount reconciled after a claim to be the balance.
ReconciledHeld == \A t \in Tokens : rewards[t].reconciled_amount <= held[t]

\* What a transaction has found of rewards that others had claimed for the
\* pool, as the generator's record tells it when the transaction begins.
FoundClaimed(lp, t) ==
    IF undo.pools[lp].last_reconcile = height THEN 0
    ELSE AtMost(Minus(undo.held[t], undo.rewards[t].reconciled_amount),
                Paid(undo.pools[lp], undo.deposits[lp], t))

\* What it has given to the pool's shares, as a fee and to the stakers, SCALE times.
HandedOut(lp, t) ==
    (pools[lp].reward_indexes[t] - undo.pools[lp].reward_indexes[t]) * pools[lp].total_bond_share
    + SCALE * ((rewards[t].fee - undo.rewards[t].fee)
               + (rewards[t].staker_income - undo.rewards[t].staker_income))

\* What the truncation of an index may lose when `amount' is credited.
Truncated(lp, amount) == IF amount = 0 THEN 0 ELSE pools[lp].total_bond_share - 1

\* All that came in since the transaction began, and what it found, has been
\* reconciled and, but for what the index truncates, handed out.
CreditedSince(lp, t) ==
    LET came == held[t] - undo.held[t]
        found == FoundClaimed(lp, t)
    IN  /\ rewards[t].reconciled_amount - undo.rewards[t].reconciled_amount = came + found
        /\ HandedOut(lp, t) <= SCALE * (came + found)
        /\ SCALE * (came + found)
              <= HandedOut(lp, t) + Truncated(lp, came) + Truncated(lp, found)

\* When the shares of a pool are about to change, the generator owes nothing
\* to the old shares any more, and all that this transaction's claim brought
\* has been credited to them, each token once.  Of what others had made the
\* generator pay they get what the record tells, which counts the index
\* since the last look at the present virtual amount (bond.rs:187): if that
\* has become less since, the rest stays on the balance, uncredited.
SettledBeforeChange ==
    Executes("Deposit") \/ Executes("Withdraw") =>
        LET lp == Head(queue).lp
        IN  pools[lp].total_bond_share > 0 =>
                /\ pools[lp].prev_reward_user_index = deposits[lp].reward_user_index
                /\ \A t \in Tokens : Owed(lp)[t] = 0 /\ CreditedSince(lp, t)

\* (calc_bond_share) Each pool, over whole transactions, is a SharePool of the
\* LP that the generator holds for it: the claims, callbacks and messages of
\* a transaction add up to one fair deposit or withdrawal, or to nothing.
Settled == IF queue = << >> THEN State ELSE undo

Pool(lp) == INSTANCE SharePool WITH
                Holders <- Users,
                shares  <- [u \in Users |-> Settled.users[<<lp, u>>].bond_share],
                pot     <- Settled.deposits[lp].amount,
                idle    <- 0

ImplementsSharePools ==
    /\ \A lp \in LpTokens : Pool(lp)!Init
    /\ [][\A lp \in LpTokens : [Pool(lp)!Next]_(Pool(lp)!pool_vars)]_vars

\* (calc_bond_share, calc_bond_amount) The LP behind a share of any pool never
\* becomes less.
SharePricesNeverFall ==
    [][\A lp \in LpTokens : Pool(lp)!PriceKept]_vars
=============================================================================
