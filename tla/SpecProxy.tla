----------------------------- MODULE SpecProxy -----------------------------
(***************************************************************************)
(* contracts/generator_proxy_to_spec together with contracts/lp_staking:   *)
(* the proxy stands between Astroport's generator, which keeps the         *)
(* deposits of its users, and the reward contract, where all of them are   *)
(* one staker, the proxy.                                                  *)
(*                                                                         *)
(* A withdrawal is two messages, and nobody else runs between them; a      *)
(* transaction that fails leaves no trace and is no step.                  *)
(***************************************************************************)
EXTENDS LpStaking

CONSTANTS
    proxy,      \* the contract as a staker
    MaxIdle     \* bound: LP tokens that were just sent to the proxy

ASSUME ProxyAssumption == proxy \in Users /\ MaxIdle \in Nat

VARIABLES
    lp_held,        \* the proxy's balance of the LP token, external
    reward_held,    \* the proxy's balance of the reward token, external
    deposit,        \* what the generator has deposited and not withdrawn
    callback        \* TransferLpTokensAfterWithdraw, if it has to run next

proxy_vars == <<lp_held, reward_held, deposit, callback>>
all_vars == <<vars, proxy_vars>>

\* `asked' is history: the amount the generator named.
Callback == [pending: {TRUE}, prev_lp_balance: Nat, asked: Nat]

NoCallback == [pending |-> FALSE]

ProxyTypeOK ==
    /\ lp_held \in Nat /\ reward_held \in Nat /\ deposit \in Nat
    /\ callback \in Callback \cup {NoCallback}

ProxyInit ==
    /\ Init
    /\ lp_held = 0 /\ reward_held = 0 /\ deposit = 0
    /\ callback = NoCallback

\* A faulty variant: the generator's user becomes the staker.
DepositForSender(amount) ==
    /\ callback = NoCallback
    /\ \E u \in Users \ {proxy} : Bond(u, amount)
    /\ deposit' = deposit + amount
    /\ UNCHANGED <<lp_held, reward_held, callback>>

\* receive_cw20: what the generator deposits goes on to the reward contract,
\* where the sender of the tokens, the proxy, becomes their staker.
Deposit(amount) ==
    /\ callback = NoCallback
    /\ Bond(proxy, amount)
    /\ deposit' = deposit + amount
    /\ UNCHANGED <<lp_held, reward_held, callback>>

\* update_rewards, called by anyone: all that is pending.
UpdateRewards ==
    /\ callback = NoCallback
    /\ Withdraw(proxy)
    /\ reward_infos'[proxy].pending_reward = 0
    /\ reward_held' = reward_held + (paid'[proxy] - paid[proxy])
    /\ UNCHANGED <<lp_held, deposit, callback>>

\* send_rewards, called by the generator.
SendRewards(amount) ==
    /\ callback = NoCallback
    /\ amount \in 1 .. reward_held
    /\ reward_held' = reward_held - amount
    /\ UNCHANGED <<vars, lp_held, deposit, callback>>

\* withdraw and emergency_withdraw, called by the generator; the first
\* message, to the reward contract, brings the LP tokens.
WithdrawLp(amount) ==
    /\ callback = NoCallback
    /\ amount <= deposit
    /\ Unbond(proxy, amount)
    /\ callback' = [pending |-> TRUE, prev_lp_balance |-> lp_held, asked |-> amount]
    /\ lp_held' = lp_held + amount
    /\ deposit' = deposit - amount
    /\ UNCHANGED reward_held

\* A faulty variant: the whole balance goes to the account.
TransferWholeBalance ==
    /\ callback # NoCallback
    /\ lp_held' = 0
    /\ callback' = NoCallback
    /\ UNCHANGED <<vars, reward_held, deposit>>

\* transfer_lp_tokens_after_withdraw.
TransferLpTokensAfterWithdraw ==
    /\ callback # NoCallback
    /\ LET amount == lp_held - callback.prev_lp_balance
       IN  lp_held' = lp_held - amount
    /\ callback' = NoCallback
    /\ UNCHANGED <<vars, reward_held, deposit>>

\* The other stakers, the owner and the clock; anyone may bond for the proxy.
OtherCalls ==
    /\ callback = NoCallback
    /\ \/ \E u \in Users, a \in Amounts : Bond(u, a)
       \/ \E u \in Users \ {proxy}, a \in Amounts : Unbond(u, a)
       \/ \E u \in Users \ {proxy} : Withdraw(u)
       \/ \E new \in [Schedules -> 0 .. MaxCopies] : UpdateConfig(new)
       \/ Tick
    /\ UNCHANGED proxy_vars

\* Somebody sends LP tokens to the proxy without a message.
DonateLp ==
    /\ callback = NoCallback
    /\ lp_held < MaxIdle
    /\ lp_held' = lp_held + 1
    /\ UNCHANGED <<vars, reward_held, deposit, callback>>

ProxyNext ==
    \/ \E a \in Amounts : Deposit(a) \/ SendRewards(a) \/ WithdrawLp(a)
    \/ UpdateRewards
    \/ TransferLpTokensAfterWithdraw
    \/ OtherCalls
    \/ DonateLp

ProxySpec == ProxyInit /\ [][ProxyNext]_all_vars

-----------------------------------------------------------------------------
(* What the proxy promises to the generator *)

\* Whatever the other stakers do, the reward contract holds for the proxy at
\* least what the generator has deposited through it, so that every deposit
\* can be withdrawn.
DepositsCovered == deposit <= reward_infos[proxy].bond_amount

\* The callback sends on what the generator asked for, neither less nor any
\* LP token that lay on the proxy before.
WithdrawsWhatWasAsked ==
    [][callback # NoCallback /\ callback' = NoCallback =>
          lp_held - lp_held' = callback.asked]_all_vars

\* PendingToken asks the reward contract's query, update_rewards its withdraw:
\* the generator gets the reward it was shown.
PendingIsPaid ==
    [][reward_held' > reward_held =>
          reward_held' - reward_held = PendingNow(proxy)]_all_vars
=============================================================================
