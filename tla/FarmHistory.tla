---------------------------- MODULE FarmHistory ----------------------------
(***************************************************************************)
(* AstroportFarm with history variables that the contract does not keep:   *)
(* what each account paid into the vault and took out of it in the current *)
(* second, and what each spender was ever granted and has moved.           *)
(***************************************************************************)
EXTENDS AstroportFarm

CONSTANT MaxFlow    \* bound: every counter of this module

VARIABLES
    paid_in,    \* LP bonded for an account in this second
    paid_out,   \* LP it unbonded in this second
    fresh,      \* it held nothing when the second began, and no shares were
                \* transferred from or to it since
    granted,    \* sum of the increases of an allowance
    moved       \* shares its spender has moved

history == <<paid_in, paid_out, fresh, granted, moved>>

\* LP that belongs to no share, left behind by a holder who burned his shares
\* or left early, goes to the next account that bonds: it counts as brought.
Put(u, amount) ==
    LET brought == amount + (IF total_bond_share = 0 THEN staked ELSE 0)
    IN  /\ paid_in[u] + brought <= MaxFlow
        /\ paid_in' = [paid_in EXCEPT ![u] = @ + brought]
        /\ UNCHANGED <<paid_out, fresh, granted, moved>>

Took(u, amount) ==
    /\ paid_out[u] + amount <= MaxFlow
    /\ paid_out' = [paid_out EXCEPT ![u] = @ + amount]
    /\ UNCHANGED <<paid_in, fresh, granted, moved>>

Mixed(accounts) == fresh' = [u \in Users |-> fresh[u] /\ u \notin accounts]

Spent(owner, spender, amount) ==
    /\ moved[<<owner, spender>>] + amount <= MaxFlow
    /\ moved' = [moved EXCEPT ![<<owner, spender>>] = @ + amount]
    /\ UNCHANGED <<paid_in, paid_out, granted>>

NextSecond ==
    /\ paid_in' = [u \in Users |-> 0]
    /\ paid_out' = [u \in Users |-> 0]
    /\ fresh' = [u \in Users |-> reward[u].bond_share + reward[u].transfer_share = 0]
    /\ UNCHANGED <<granted, moved>>

HInit ==
    /\ Init
    /\ paid_in = [u \in Users |-> 0]
    /\ paid_out = [u \in Users |-> 0]
    /\ fresh = [u \in Users |-> TRUE]
    /\ granted = [p \in Users \X Users |-> 0]
    /\ moved = [p \in Users \X Users |-> 0]

HNext ==
    \/ \E u \in Users, a \in Amounts :
          \/ Bond(u, a) /\ Put(u, a)
          \/ Unbond(u, a) /\ Took(u, a)
          \/ Burn(u, a) /\ UNCHANGED history
    \/ BondTo /\ Put(tx.to, Received)
    \/ \E u, v \in Users, a \in Amounts :
          Transfer(u, v, a) /\ Mixed({u, v}) /\ UNCHANGED <<paid_in, paid_out, granted, moved>>
    \/ \E u \in Users, v \in Spenders, a \in Amounts :
          BurnFrom(v, u, a) /\ Spent(u, v, a) /\ UNCHANGED fresh
    \/ \E u, w \in Users, v \in Spenders, a \in Amounts :
          TransferFrom(v, u, w, a) /\ Spent(u, v, a) /\ Mixed({u, w})
    \/ \E u \in Users, v \in Spenders, a \in Grants, e \in 0 .. Never :
          \/ /\ IncreaseAllowance(u, v, a, e)
             /\ granted[<<u, v>>] + a <= MaxFlow
             /\ granted' = [granted EXCEPT ![<<u, v>>] = @ + a]
             /\ UNCHANGED <<paid_in, paid_out, fresh, moved>>
          \/ DecreaseAllowance(u, v, a, e) /\ UNCHANGED history
    \/ Tick /\ NextSecond
    \/ /\ \/ \E u \in Users, m \in Minimums : BondAssets(u, m)
          \/ \E p \in Rewards, m \in Minimums : Compound(p, m)
          \/ \E got, lp \in Receipts : RunMessages(got, lp)
          \/ Stake \/ Revert
          \/ \E f \in Fees : UpdateConfig(f)
          \/ \E a \in Amounts : DonateLp(a)
       /\ UNCHANGED history

HSpec == HInit /\ [][HNext]_<<vars, history>>

\* The early-exit rule of calc_user_balance: whoever enters and leaves within
\* one second, in as many bonds and unbonds as he likes and with compounding
\* in between, leaves with no more than he brought.  It is stated of accounts
\* no shares were transferred from or to: a transfer splits shares from the
\* deposit that the rule compares them with.
NoInstantProfit == \A u \in Users : fresh[u] => paid_out[u] <= paid_in[u]

\* Over any sequence of grants, decreases, expiries and calls, what a spender
\* has moved and what he still may move add up to no more than the grants.
AllowanceBoundsSpending ==
    \A p \in Users \X Users : moved[p] + allowances[p].allowance <= granted[p]
=============================================================================
