--------------------------- MODULE AstroportFarm ---------------------------
(***************************************************************************)
(* contracts/astroport_farm: a vault that stakes LP tokens of one pair.    *)
(* Holders own shares of the LP staked on the vault's behalf; compounding  *)
(* adds LP without minting shares; a holder who leaves within a DAY of his *)
(* deposit gives up part of the profit; the shares are also a cw20 token.  *)
(*                                                                         *)
(* A call that fails changes nothing, so it is a step that is not taken.   *)
(* A call whose messages come back as a callback (BondTo, Stake) is a      *)
(* transaction of three steps: the handler, the messages it sent to other  *)
(* contracts, the callback; `tx' holds it, nobody else runs meanwhile, and *)
(* a failure anywhere reverts all of it.                                   *)
(***************************************************************************)
EXTENDS Ratios

CONSTANTS
    Users,          \* accounts that may hold shares
    Spenders,       \* those of them that others may grant an allowance
    NoOne,          \* not an account
    Amounts,        \* amounts of LP or shares an account may name in a call
    Minimums,       \* values of minimum_receive, 0 for None
    Grants,         \* amounts by which an allowance may change
    Rewards,        \* pending rewards the staking contract may report
    Receipts,       \* LP the compound proxy may return; rewards a claim may pay
    Fees,           \* fees the owner may set, in units of 1/FeeUnit
    FeeUnit,        \* 1 as a fee
    PoolInfos,      \* [amount, total_share] the pair may report
    DAY,            \* length of the early-exit period (86400 in the code)
    MaxLp,          \* bound: LP in the system
    MaxMemo,        \* bound: transfer_share and deposit_amount of a record
    MaxReward,      \* bound: reward tokens on the vault
    MaxTime         \* bound: the clock

ASSUME FarmAssumption ==
    /\ Amounts \subseteq Nat /\ Minimums \subseteq Nat /\ Grants \subseteq Nat
    /\ Rewards \subseteq Nat /\ Receipts \subseteq Nat
    /\ Fees \subseteq Nat /\ FeeUnit \in Nat \ {0}
    /\ PoolInfos \subseteq [amount: Nat, total_share: Nat \ {0}]
    /\ DAY \in Nat \ {0}
    /\ MaxLp \in Nat /\ MaxMemo \in Nat /\ MaxReward \in Nat /\ MaxTime \in Nat
    /\ IsFiniteSet(Users) /\ Spenders \subseteq Users /\ NoOne \notin Users

VARIABLES
    total_bond_share,   \* State.total_bond_share
    reward,             \* REWARD, a default record for an account never seen
    allowances,         \* ALLOWANCES, NoAllowance where there is no entry
    fee,                \* Config.fee
    staked,             \* LP deposited for the vault (query_deposit), external
    held,               \* LP balance of the vault itself, external
    reward_held,        \* base reward tokens on the vault, external
    tx,                 \* the transaction being executed, or NoTx
    now                 \* env.block.time

vars == <<total_bond_share, reward, allowances, fee, staked, held, reward_held, tx, now>>

\* An allowance without expiry is one that expires after the clock's bound.
Never == MaxTime + 1

NoAllowance == [exists |-> FALSE, allowance |-> 0, expires |-> Never]

Allowance == [exists: BOOLEAN, allowance: Nat, expires: 0 .. Never]

RewardInfo == [bond_share: Nat, deposit_amount: Nat, deposit_time: Nat,
               transfer_share: Nat, deposit_cost: Nat]

EmptyInfo == [bond_share |-> 0, deposit_amount |-> 0, deposit_time |-> 0,
              transfer_share |-> 0, deposit_cost |-> 0]

NoTx == [step |-> "none", call |-> "none", to |-> NoOne, prev_balance |-> 0,
         minimum_receive |-> 0, spend |-> 0, undo |-> 0]

Tx == [step: {"none", "messages", "callback"}, call: {"none", "BondTo", "Stake"},
       to: Users \cup {NoOne}, prev_balance: Nat, minimum_receive: Nat,
       spend: Nat, undo: Nat]

TypeOK ==
    /\ total_bond_share \in Nat
    /\ reward \in [Users -> RewardInfo]
    /\ allowances \in [Users \X Users -> Allowance]
    /\ fee \in Nat /\ fee <= FeeUnit
    /\ staked \in Nat /\ held \in Nat /\ reward_held \in Nat
    /\ tx \in Tx /\ (tx.call = "BondTo" => tx.to \in Users)
    /\ now \in Nat

-----------------------------------------------------------------------------
(* Shares and amounts (state.rs) *)

\* A faulty variant: the ratio upside down.
CalcBondShareInverted(amount, total, lp) ==
    IF total = 0 \/ lp = 0 THEN amount ELSE MulRatio(amount, lp, total)

\* State::calc_bond_share with ScalingOperation::Truncate.
CalcBondShare(amount, total, lp) ==
    IF total = 0 \/ lp = 0 THEN amount ELSE MulRatio(amount, total, lp)

\* State::calc_bond_amount.
CalcBondAmount(total, lp, share) ==
    IF total = 0 THEN 0 ELSE MulRatio(lp, share, total)

\* A faulty variant: no early-exit rule.
UserBalanceNoPenalty(info, total, lp, time) == CalcBondAmount(total, lp, info.bond_share)

\* RewardInfo::calc_user_balance: what the account may unbond at `time'.
UserBalance(info, total, lp, time) ==
    LET amount == CalcBondAmount(total, lp, info.bond_share)
        elapsed == time - info.deposit_time
    IN  IF elapsed < DAY /\ amount > info.deposit_amount
        THEN info.deposit_amount + MulRatio(amount - info.deposit_amount, elapsed, DAY)
        ELSE amount

\* RewardInfo::bond; the caller has made sure that the new deposit is not 0.
BondInfo(info, share, deposit, time, pool) ==
    [bond_share     |-> info.bond_share + share,
     deposit_amount |-> info.deposit_amount + deposit,
     deposit_time   |-> DepositTime(info.deposit_amount, deposit, info.deposit_time, time),
     transfer_share |-> info.transfer_share,
     deposit_cost   |-> info.deposit_cost + MulRatio(pool.amount, deposit, pool.total_share)]

\* A faulty variant: scales the basis by the bonded shares alone.
UnbondInfoBondedOnly(info, share) ==
    [info EXCEPT
        !.bond_share = @ - share,
        !.deposit_amount = MulRatio(@, info.bond_share + info.transfer_share - share,
                                       info.bond_share + info.transfer_share),
        !.deposit_cost = MulRatio(@, info.bond_share - share, info.bond_share)]

\* RewardInfo::unbond, for 0 < share <= bond_share.
UnbondInfo(info, share) ==
    LET old == info.bond_share + info.transfer_share
        new == old - share
    IN  [bond_share     |-> info.bond_share - share,
         deposit_amount |-> MulRatio(info.deposit_amount, new, old),
         deposit_time   |-> info.deposit_time,
         transfer_share |-> info.transfer_share,
         deposit_cost   |-> MulRatio(info.deposit_cost, new, old)]
-----------------------------------------------------------------------------
Init ==
    /\ total_bond_share = 0
    /\ reward = [u \in Users |-> EmptyInfo]
    /\ allowances = [p \in Users \X Users |-> NoAllowance]
    /\ fee \in {f \in Fees : f <= FeeUnit}
    /\ staked = 0 /\ held = 0 /\ reward_held = 0
    /\ tx = NoTx
    /\ now = 0

(* bond.rs *)

\* bond_internal, with the deposit message it sends: `amount' LP of the
\* vault's balance is staked and the staker is given shares for it.
BondInternal(staker, amount) ==
    LET share   == CalcBondShare(amount, total_bond_share, staked)
        deposit == CalcBondAmount(total_bond_share + share, staked + amount, share)
    IN  /\ amount > 0
        /\ reward[staker].deposit_amount + deposit \in 1 .. MaxMemo
        /\ total_bond_share' = total_bond_share + share
        /\ \E pool \in PoolInfos :
              reward' = [reward EXCEPT ![staker] = BondInfo(@, share, deposit, now, pool)]
        /\ staked' = staked + amount

\* receive_cw20 and bond: LP sent to the vault with a Bond hook, for the
\* sender or for another staker.
Bond(staker, amount) ==
    /\ tx = NoTx
    /\ staked + held + amount <= MaxLp
    /\ BondInternal(staker, amount)
    /\ UNCHANGED <<allowances, fee, held, reward_held, tx, now>>

\* bond_assets: hands the sender's assets to the compound proxy, to be
\* called back at BondTo with the LP balance read now.
BondAssets(sender, minimum) ==
    /\ tx = NoTx
    /\ tx' = [NoTx EXCEPT !.step = "messages", !.call = "BondTo", !.to = sender,
                          !.prev_balance = held, !.minimum_receive = minimum,
                          !.undo = reward_held]
    /\ UNCHANGED <<total_bond_share, reward, allowances, fee, staked, held, reward_held, now>>

\* A faulty variant: the callback takes the whole balance.
WholeBalance == held

\* The LP a callback finds on top of the balance its handler had read.
Received == held - tx.prev_balance

\* bond_to.
BondTo ==
    /\ tx.step = "callback" /\ tx.call = "BondTo"
    /\ Received >= tx.minimum_receive
    /\ BondInternal(tx.to, Received)
    /\ held' = held - Received
    /\ tx' = NoTx
    /\ UNCHANGED <<allowances, fee, reward_held, now>>

\* Faulty variants: the shares given up are truncated; one too many.
UnbondShareTruncated(info, amount, balance) == MulRatio(info.bond_share, amount, balance)
UnbondShareOffByOne(info, amount, balance) == MulRatio(info.bond_share, amount, balance) + 1

\* The shares unbond takes for `amount'.
UnbondShare(info, amount, balance) == MulRatioCeil(info.bond_share, amount, balance)

\* unbond: withdraws `amount' from the staking contract and sends it to the
\* holder.  Each check that can fail the call is a conjunct.
Unbond(user, amount) ==
    LET info    == reward[user]
        balance == UserBalance(info, total_bond_share, staked, now)
        share   == UnbondShare(info, amount, balance)
    IN  /\ tx = NoTx
        /\ amount > 0
        /\ now >= info.deposit_time
        /\ amount <= balance
        /\ share <= total_bond_share
        /\ share <= info.bond_share
        /\ amount <= staked
        /\ total_bond_share' = total_bond_share - share
        /\ reward' = [reward EXCEPT ![user] = UnbondInfo(@, share)]
        /\ staked' = staked - amount
        /\ UNCHANGED <<allowances, fee, held, reward_held, tx, now>>
-----------------------------------------------------------------------------
(* compound.rs *)

\* compound, called by the controller: claims the rewards, sends the fee to
\* the collector, the rest to the compound proxy.  Nothing is spent of a
\* reward of 0, or while no LP is staked.
Compound(pending, minimum) ==
    LET spends     == pending # 0 /\ staked # 0
        commission == MulRatio(pending, fee, FeeUnit)
        compounds  == spends /\ pending - commission # 0
    IN  /\ tx = NoTx
        /\ tx' = [NoTx EXCEPT !.step = "messages",
                              !.call = IF compounds THEN "Stake" ELSE "none",
                              !.prev_balance = held, !.minimum_receive = minimum,
                              !.spend = IF spends THEN pending ELSE 0,
                              !.undo = reward_held]
        /\ UNCHANGED <<total_bond_share, reward, allowances, fee, staked, held, reward_held, now>>

\* The messages between a handler and its callback: the claim pays `got'
\* reward tokens, the fee and the compounded part leave the vault, and the
\* compound proxy returns `lp' LP.
RunMessages(got, lp) ==
    /\ tx.step = "messages"
    /\ tx.call = "BondTo" => got = 0
    /\ tx.call = "none" => lp = 0
    /\ tx.spend <= reward_held + got
    /\ reward_held + got - tx.spend <= MaxReward
    /\ staked + held + lp <= MaxLp
    /\ reward_held' = reward_held + got - tx.spend
    /\ held' = held + lp
    /\ tx' = IF tx.call = "none" THEN NoTx ELSE [tx EXCEPT !.step = "callback"]
    /\ UNCHANGED <<total_bond_share, reward, allowances, fee, staked, now>>

\* stake: the LP received is staked and no share is minted for it.
Stake ==
    /\ tx.step = "callback" /\ tx.call = "Stake"
    /\ Received >= tx.minimum_receive
    /\ Received > 0
    /\ staked' = staked + Received
    /\ held' = held - Received
    /\ tx' = NoTx
    /\ UNCHANGED <<total_bond_share, reward, allowances, fee, reward_held, now>>

\* Some message of the transaction fails.
Revert ==
    /\ tx # NoTx
    /\ held' = tx.prev_balance /\ reward_held' = tx.undo
    /\ tx' = NoTx
    /\ UNCHANGED <<total_bond_share, reward, allowances, fee, staked, now>>
-----------------------------------------------------------------------------
(* cw20.rs *)

\* The record with its shares split anew between bonded and transferred.
WithShares(info, bonded, transferred) ==
    [bond_share     |-> bonded,
     deposit_amount |-> info.deposit_amount,
     deposit_time   |-> info.deposit_time,
     transfer_share |-> transferred,
     deposit_cost   |-> info.deposit_cost]

\* What the receiver of `share' shares is left with.  Shares he once sent
\* away come home at their old cost; the others bring a part of the
\* sender's deposit, cost and time with them.
ReceiveShares(receiver, sender, share) ==
    LET new     == share - receiver.transfer_share
        deposit == MulRatio(sender.deposit_amount, new,
                            sender.bond_share + sender.transfer_share)
    IN  IF receiver.transfer_share < share
        THEN BondInfo(WithShares(receiver, receiver.bond_share + receiver.transfer_share, 0),
                      new, deposit, sender.deposit_time,
                      [amount |-> sender.deposit_cost, total_share |-> sender.deposit_amount])
        ELSE WithShares(receiver, receiver.bond_share + share, receiver.transfer_share - share)

\* Whether the divisions of ReceiveShares are defined.
CanReceive(receiver, sender, share) ==
    receiver.transfer_share < share =>
        LET deposit == MulRatio(sender.deposit_amount, share - receiver.transfer_share,
                                sender.bond_share + sender.transfer_share)
        IN  /\ sender.deposit_amount > 0
            /\ receiver.deposit_amount + deposit \in 1 .. MaxMemo

\* The sender's record once `share' shares have left it.
SendShares(info, share) ==
    WithShares(info, info.bond_share - share, info.transfer_share + share)

\* The records after a transfer: the sender is written before the receiver
\* is read, and the receiver is written last.
TransferShares(r, from, to, share) ==
    LET sent == [r EXCEPT ![from] = SendShares(@, share)]
    IN  [sent EXCEPT ![to] = ReceiveShares(@, sent[from], share)]

\* transfer_internal.
TransferInternal(from, to, share) ==
    LET sent == [reward EXCEPT ![from] = SendShares(@, share)]
    IN  /\ share > 0
        /\ share <= reward[from].bond_share
        /\ reward[from].transfer_share + share <= MaxMemo
        /\ CanReceive(sent[to], sent[from], share)
        /\ reward' = TransferShares(reward, from, to, share)

\* execute_transfer and execute_send.
Transfer(from, to, share) ==
    /\ tx = NoTx
    /\ TransferInternal(from, to, share)
    /\ UNCHANGED <<total_bond_share, allowances, fee, staked, held, reward_held, tx, now>>

\* Faulty variants: the total is left alone; nothing checks the shares.
BurnInternalKeepTotal(owner, share) ==
    /\ share > 0 /\ share <= reward[owner].bond_share
    /\ reward' = [reward EXCEPT ![owner] = UnbondInfo(@, share)]
    /\ UNCHANGED total_bond_share
BurnInternalUnchecked(owner, share) ==
    /\ share > 0 /\ share <= total_bond_share
    /\ total_bond_share' = total_bond_share - share
    /\ reward' = [reward EXCEPT ![owner].bond_share = @ - share]

\* burn_internal.
BurnInternal(owner, share) ==
    /\ share > 0
    /\ share <= total_bond_share
    /\ share <= reward[owner].bond_share
    /\ total_bond_share' = total_bond_share - share
    /\ reward' = [reward EXCEPT ![owner] = UnbondInfo(@, share)]

Burn(owner, share) ==
    /\ tx = NoTx
    /\ BurnInternal(owner, share)
    /\ UNCHANGED <<allowances, fee, staked, held, reward_held, tx, now>>

\* execute_increase_allowance.  A call that gives no expiry keeps the entry's,
\* Never in a new entry: `expires' then is that value.
IncreaseAllowance(owner, spender, amount, expires) ==
    /\ tx = NoTx
    /\ owner # spender
    /\ allowances[<<owner, spender>>].allowance + amount <= MaxLp
    /\ allowances' = [allowances EXCEPT ![<<owner, spender>>] =
                         [exists |-> TRUE, allowance |-> @.allowance + amount,
                          expires |-> expires]]
    /\ UNCHANGED <<total_bond_share, reward, fee, staked, held, reward_held, tx, now>>

\* execute_decrease_allowance: an entry that would reach 0 is removed.
DecreaseAllowance(owner, spender, amount, expires) ==
    LET old == allowances[<<owner, spender>>]
    IN  /\ tx = NoTx
        /\ owner # spender
        /\ old.exists
        /\ allowances' = [allowances EXCEPT ![<<owner, spender>>] =
                             IF amount < old.allowance
                             THEN [exists |-> TRUE, allowance |-> old.allowance - amount,
                                   expires |-> expires]
                             ELSE NoAllowance]
        /\ UNCHANGED <<total_bond_share, reward, fee, staked, held, reward_held, tx, now>>

\* A faulty variant: the allowance is checked and not reduced.
DeductAllowanceKeep(owner, spender, amount) ==
    /\ allowances[<<owner, spender>>].exists
    /\ now < allowances[<<owner, spender>>].expires
    /\ amount <= allowances[<<owner, spender>>].allowance
    /\ UNCHANGED allowances

\* deduct_allowance.
DeductAllowance(owner, spender, amount) ==
    /\ allowances[<<owner, spender>>].exists
    /\ now < allowances[<<owner, spender>>].expires
    /\ amount <= allowances[<<owner, spender>>].allowance
    /\ allowances' = [allowances EXCEPT ![<<owner, spender>>].allowance = @ - amount]

\* execute_transfer_from and execute_send_from.
TransferFrom(spender, owner, to, share) ==
    /\ tx = NoTx
    /\ DeductAllowance(owner, spender, share)
    /\ TransferInternal(owner, to, share)
    /\ UNCHANGED <<total_bond_share, fee, staked, held, reward_held, tx, now>>

\* execute_burn_from.
BurnFrom(spender, owner, share) ==
    /\ tx = NoTx
    /\ DeductAllowance(owner, spender, share)
    /\ BurnInternal(owner, share)
    /\ UNCHANGED <<fee, staked, held, reward_held, tx, now>>
-----------------------------------------------------------------------------
(* contract.rs and the environment *)

\* update_config; the owner is fixed here, module Ownership changes it.
UpdateConfig(newFee) ==
    /\ tx = NoTx
    /\ newFee <= FeeUnit
    /\ fee' = newFee
    /\ UNCHANGED <<total_bond_share, reward, allowances, staked, held, reward_held, tx, now>>

\* Anyone may send LP to the vault by a plain cw20 transfer.
DonateLp(amount) ==
    /\ tx = NoTx
    /\ staked + held + amount <= MaxLp
    /\ held' = held + amount
    /\ UNCHANGED <<total_bond_share, reward, allowances, fee, staked, reward_held, tx, now>>

Tick ==
    /\ tx = NoTx
    /\ now < MaxTime
    /\ now' = now + 1
    /\ UNCHANGED <<total_bond_share, reward, allowances, fee, staked, held, reward_held, tx>>

Next ==
    \/ \E u \in Users, a \in Amounts :
          Bond(u, a) \/ Unbond(u, a) \/ Burn(u, a)
    \/ \E u \in Users, m \in Minimums : BondAssets(u, m)
    \/ \E u, v \in Users, a \in Amounts : Transfer(u, v, a)
    \/ \E u \in Users, v \in Spenders, a \in Grants, e \in 0 .. Never :
          IncreaseAllowance(u, v, a, e) \/ DecreaseAllowance(u, v, a, e)
    \/ \E u \in Spenders, v \in Users, a \in Amounts : BurnFrom(u, v, a)
    \/ \E u \in Spenders, v, w \in Users, a \in Amounts : TransferFrom(u, v, w, a)
    \/ \E p \in Rewards, m \in Minimums : Compound(p, m)
    \/ \E got, lp \in Receipts : RunMessages(got, lp)
    \/ BondTo \/ Stake \/ Revert
    \/ \E f \in Fees : UpdateConfig(f)
    \/ \E a \in Amounts : DonateLp(a)
    \/ Tick

Spec == Init /\ [][Next]_vars
-----------------------------------------------------------------------------
(* What the vault promises *)

BondShares == [u \in Users |-> reward[u].bond_share]

Balance(u) == UserBalance(reward[u], total_bond_share, staked, now)

\* The cw20 supply is the sum of the cw20 balances: STATE and REWARD are
\* written by different lines of every handler.
ShareConservation == Total(BondShares) = total_bond_share

\* Every share stands for at least one staked LP, so that the vault never has
\* shares and nothing staked: rounding in bond and unbond favours the vault.
SharesBacked == total_bond_share <= staked

\* A holder can unbond any amount up to his balance: none of the checked
\* subtractions behind the balance check fails, and it costs him a share.
UnbondNeverReverts ==
    \A u \in Users :
        /\ reward[u].deposit_time <= now
        /\ \A amount \in 1 .. Balance(u) :
              LET share == UnbondShare(reward[u], amount, Balance(u))
              IN  /\ share \in 1 .. reward[u].bond_share
                  /\ share <= total_bond_share
                  /\ amount <= staked

\* A lower bound of the pair's price in whole tokens per LP.
FloorPrice(p) == \A pool \in PoolInfos : p * pool.total_share <= pool.amount

\* The recorded cost of a position is at least its deposit at the lowest
\* price the pair ever had, however it was unbonded and passed around.
CostCoversDeposit ==
    \A u \in Users, p \in 0 .. MaxLp :
        FloorPrice(p) => p * reward[u].deposit_amount <= reward[u].deposit_cost

\* The LP behind a share never shrinks.
SharePriceNeverFalls ==
    [][total_bond_share > 0 /\ total_bond_share' > 0 =>
          staked' * total_bond_share >= staked * total_bond_share']_vars

\* LP on the vault that belongs to no transaction.
IdleLp == IF tx = NoTx THEN held ELSE tx.prev_balance

\* Once the messages are taken together the vault is a SharePool: newcomers
\* get shares at the price of the moment, leavers take no more than theirs
\* are worth, and LP that was lying on the vault before a transaction lies
\* there after it, whether it completes or reverts.
Pool == INSTANCE SharePool WITH
            Holders <- Users,
            shares  <- BondShares,
            pot     <- staked,
            idle    <- IdleLp

ImplementsSharePool == Pool!Spec
=============================================================================
