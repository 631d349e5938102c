# A TLA+ model of BAZ-CORE

BAZ-CORE is a set of CosmWasm contracts that farm Astroport rewards for holders
of LP tokens. This directory holds TLA+ models of its contracts, TLC instances
that check them, and TLAPS proofs about them. Every definition was translated
from the Rust source; `PROJECT.json` names, for each, the lines it stands for.

`src/baz/` repeats `src/contracts/` and `src/packages/` byte for byte, so the
models refer to the latter only, and at most half of the repository's lines can
be named by a definition. Of that half, the tests, the mocks and the message
types of `packages/` (mostly interfaces of contracts that live elsewhere) hold
no behaviour to model; of the contracts themselves about three lines in four
are mapped.

## The system

| Component | State | Operations | What is hard | What makes it correct |
|---|---|---|---|---|
| `astroport_farm`: vault of one LP token, its shares are a cw20 token | share total, a record per holder (shares, deposit, deposit time, cost), allowances, fee | bond, bond_assets / bond_to, unbond, compound / stake, cw20 calls | two roundings, an early-exit rule over many calls, balances read before a callback, transfers to oneself | supply = sum of balances; LP per share never falls; everybody can leave; no profit from a visit of a second; nobody is credited with LP that was lying around |
| `lp_staking`: pays a reward token by a schedule to stakers | last distribution, total stake, index, a record per staker, the schedule | bond, unbond, withdraw, update_config | an index that truncates, a schedule replaced while it runs | pays no more than was released; what is earned stays; stakers can leave |
| `generator_proxy_to_spec`: lets Astroport's generator farm `lp_staking` | none of its own | update_rewards, send_rewards, deposit, withdraw and its callback | everybody may bond for it; LP tokens lie on it before a withdrawal | the reward contract holds what the generator has deposited; a withdrawal sends on what was asked for |
| `generator_proxy`, bonding: pools LP of many farms in the generator, splits boosted rewards | pools, users, reconciled reward per token, fees | deposit, withdraw, claim_rewards and four callbacks | rewards that others claim for it, several pools sharing one token balance | what it owes never exceeds what it holds; shares change only after all that the claim brought was credited to the old ones |
| `generator_proxy`, staking: one xASTRO lock for all stakers | shares, income index, unstaking totals and periods | stake, relock, request_unstake, withdraw_unstaked, claim_income | the lock ends and is renewed while requests are pending; income claimed by others | requests are covered by the lock; income is paid once |
| `fees_collector`: sells fee tokens for a stablecoin, pays it out by weight | operator, targets, bridges | collect, swap_bridge_assets, distribute_fees, update_bridges, update_config, the simulation | recursion over bridges that is validated to one depth and executed to another; tokens that share a bridge; pairs that go away, and that move with every sale | a collect ends, leaves nothing on the way and brings what was simulated, unless it sells to one pair twice; a bridge leads to the stablecoin |
| `compound_proxy`: turns rewards into LP of one pair | none between calls | compound, optimal_swap, provide_liquidity, the simulation | a closed form and two Newton iterations in integers; a balance that holds more than the rewards; a list of rewards that may name a token twice; pairs that move between the simulation and the sale | rewards become LP, no less than was simulated where that can be foreseen; the sale is the best one; idle tokens stay |
| `pair_proxy`: a pair's interface in front of a router | the route, fixed at instantiation | swap, simulation | the route may be written in either direction | sells as its route says |
| ownership (the same code in all contracts) | a proposal with its expiry | propose, drop, claim | proposals that outlive the owner | only what the present owner offers can be claimed, in time |

Contracts interact by messages inside one transaction: a handler runs alone,
its messages run after it in order, a callback is such a message to the
contract itself, and a failure anywhere reverts the whole transaction. So a
handler that fails is a step that is not taken, and what can go wrong lies
between a handler and its callback, in long sequences of calls, in rounding,
and in what other contracts do to the balances meanwhile. `PROJECT.json` lists
these hazards at their lines.

## Modules

* `Ratios`: the integer arithmetic the contracts share, and `Total`, the sum of
  a ledger. `Decimals`: products with a `Decimal` and ratios as one.
* `SharePool`: the abstract specification of the three contracts that hand out
  shares of a pot. Its actions are whole transactions: `Enter` (tokens in,
  shares at the present price), `Leave` (shares out, at most their part),
  `Move`, `Gain` and `Donate`. A transaction that reverts is no step of it.
* `AstroportFarm`: the vault. One action per call; `bond_assets` and `compound`
  open a transaction that `tx` holds: `RunMessages` is what the other contracts
  do, `BondTo` and `Stake` are the callbacks, and `Revert` undoes all of it.
  cw20 `send` is `Transfer` (what the called contract does is another call).
* `FarmHistory`: `AstroportFarm` with counters of what each account paid, took,
  granted and spent, for the properties that speak of sequences of calls.
* `LpStaking`: the staking contract. `distributed`, `paid` and `changes` are
  history; the schedule is the number of copies of each entry, because the
  order of entries means nothing to the code.
* `SpecProxy`: `generator_proxy_to_spec` composed with `LpStaking`. The proxy
  is one of the stakers; what the generator has deposited is `deposit`, and a
  withdrawal is the handler with the reward contract's answer, then the callback.
* `GeneratorBond`: the bonding half of the generator proxy. A call puts its
  messages into `queue`, and each message is an action: the handlers'
  callbacks, and what the generator does in between. `undo` is what a failing
  message goes back to. The generator is external: it keeps a record per pool
  (`deposits`), pays what it owes on every call about that pool, and lets anyone
  checkpoint the contract's boost or deposit for it. The withdrawal and deposit
  of 1 by which the code claims are one step; the virtual amount that each call
  computes is either the unboosted 40% or the whole deposit. Proxy reward tokens
  are known to the generator's record from the start.
* `GeneratorStaking`: the staking half, with the same queue of messages. The
  voting escrow and the fee distributor are external: a lock of one week that
  can be extended while it lasts and withdrawn once it has ended, and a payment
  per period that anyone may claim for the contract. Of `GeneratorBond` only the
  effect on the shared ASTRO record appears: rewards that bring stakers an
  income (`BondReward`), payments to LP holders (`BondPays`), and ASTRO on the
  balance that is not reconciled yet (`Donate`).
* `Ownership`: the handover of a contract in two steps, composed with:
* `FeesCollector`: collects, with a queue of messages. The swaps of one round
  run in any order, because the code takes their assets out of a hash map. A
  pair is external: it has a state (`market`), returns what `Return` says for
  that state, and a sale takes it to the state `Moved` says, so that a second
  sale to it meets another price than the simulation, which asks every pair as
  it is. The factory may add and remove pairs, and others trade, between
  transactions. A limit is a number or `NoLimit`, the `None` of the code.
* `PoolMath`: the optimal swap of a constant product pair and of a stable pair,
  the stable pair's two Newton iterations, and what the pairs return.
* `CompoundProxy`: compound of a list of rewards, which may name a token more
  than once as the code's `Vec` may, its two callbacks, `pair_proxy` with its
  route, the pair that is sold to and provided with liquidity, and the
  simulation. The rewards are handled one by one in the order of the list. The
  router's pairs have states and move as in `FeesCollector`; the pair itself
  pays `maker_fee`, a part of its commission, to somebody else. A route that
  leads over the pair itself is priced by a state of its own and leaves the pair
  at any reserves with the same LP.
* `MC*`: constants for TLC. `*Proofs`: the theorems about the module they are
  named after; `RatiosTheorems`: those about the arithmetic and `Total`.

Abstractions: the assets that `bond_assets` takes are not tracked, only the LP
that comes back; `compound` of the vault handles one cw20 reward token, where
the code loops over all that are pending; the time of `lp_staking` counts from
its instantiation; the costs of
the two assets of a pair are one number (the code treats each alike); an
allowance's expiry is a time; 10^18 as the unit of a Decimal is the constant
`SCALE`, and percentages are whole numbers of 1/`FeeUnit`. In `CompoundProxy`
the two assets and the LP have one precision, a custom pair (whose curve the
repository does not hold) executes as a constant product one, and a sale through `pair_proxy` has no minimum, because
its only caller passes `Decimal::MAX` as the belief price. The configuration's
addresses, names and events are left out. Amounts do not overflow: a Uint128
multiplication is made in 256 bits and an overflow reverts.

Some definitions come with a faulty variant beside them, named as such: it is
what `PROJECT.json` puts in the definition's place to show that a property can
fail.

## Runs

| Run | Instance | Shows |
|---|---|---|
| `farm` | two holders, LP up to 4, a fee of one half, three times in days of two seconds, two prices of the pair, self-transfers included, no allowances | conservation and backing of shares; unbonding up to the balance never fails; a share's LP never falls; the cost basis covers the deposit; the vault implements `SharePool` |
| `farm_flow` | two holders, LP up to 4, two times within a day | nobody profits from bonding and leaving within one second, over sequences of bonds, unbonds and compounds |
| `farm_allowances` | grants, decreases, expiry and spending of up to 2 | no spender ever spends more than he was granted |
| `lp_staking` | the proxy and two stakers, two overlapping schedule entries, four times | what is distributed was scheduled; the contract is solvent up to truncation; stakers can leave with what they earned; and for the generator: its deposits are covered, it gets exactly the withdrawals it asked for and the reward it was shown |
| `lp_staking_schedule` | one staker, more entries, five times | an expected violation, below |
| `generator_bond` | one pool, two holders, deposits of 3, LP up to 6, three blocks with two emissions | what holders have earned, the fee and the stakers' part are covered by what is reconciled; when a pool's shares change the generator owes it nothing, and all that the transaction's claim brought is credited to the old ones, with what the record tells of claims by others; the pools implement `SharePool` |
| `generator_tokens` | two pools with ASTRO and a proxy token on shared balances, a fee that changes, one gift, one pool per claim | what is reconciled is on the balance |
| `generator_claims` | the same, with claims of two pools | an expected violation, below |
| `generator_staking` | two stakers, a lock of up to 4 xASTRO over three periods, so that it is renewed twice and a record can miss a renewal | requests and income are covered; the lock implements `SharePool`, also when a stake renews it on its way |
| `fees_collector` | a chain of four swaps to the stablecoin with and without a short cut, bridges in a circle, up to 3 tokens, limits, a pair that returns less once it has been sold to, two accounts | collects end, leave only dust, and bring what was simulated unless a pair is met twice; validated bridges reach the stablecoin; proposals are the owner's |
| `fees_bridges` | the same without tokens | an expected violation, below |
| `compound` | three kinds of pair, balanced, skewed and empty; lists of up to two rewards of five tokens, repeated ones included; router pairs that return less once they have been sold to, one route over the pair itself; a maker fee of nothing or half the commission; 1 idle token | the sale leaves what the pool can take best; the stable iteration finds the invariant; idle tokens stay, but for a native that is sold twice, and what the rewards bring is provided; the execution brings what was simulated where the simulation can foresee it |

The bounds are small because the code is: an amount matters by whether it
divides evenly, exceeds what is there, or is the last of it. With LP up to 4
and shares that compounding makes worth more than one LP, every rounding
(down, up, exact, to zero) occurs, and the mutants of `PROJECT.json` show that
each property fails as soon as one of them goes the wrong way. The
configurations check deadlock: an idle contract can always be called.

In the generator runs an amount of 2 or 3 LP with a Decimal unit of 2 makes the
split of a reward, the index and each user's part truncate, and a deposit by a
third party gives a share a price other than one. `generator_bond` has two
emissions, so that others can claim one of them, and change the virtual amount
with it, before the contract claims the next. Gifts are left to
`generator_tokens`, which has one emission: what is on a balance besides the
rewards matters where two pools share it.

In `fees_collector` the chain is one swap longer than `update_bridges` needs to
accept and as long as the execution can take, so both limits are met; a pair
that halves what goes in makes the order of swaps visible, and one that keeps 1
of every sale but the first makes a second sale to it differ from the simulated
one (two tokens of which one is the bridge of the other do that). In `compound` two
rewards are enough to repeat a token, to share a router's pair, or to meet the
pair that is sold to later; the amounts are nothing, one and a number that makes
the optimal swap sell. The pools are those where the optimal swap sells one asset, the other or none, and
stable ones that are balanced, small, and so uneven that the truncations show.
The two properties about the arithmetic say how far a truncated method is from
the exact one, and are proved for every pool; `SaleIsBest` compares with every
other amount that could be sold.

### Fairness and liveness

Nothing in these contracts runs by itself, and no code promises that somebody
calls them: there is nothing a contract must eventually do of its own accord.
What the chain does guarantee is that the messages of a transaction are
executed once it has begun. `FeesCollector` states that as
`WF_vars(NextMessage)`, for the one transaction whose length is not fixed by
the code: `CollectEnds` says that a collect terminates even if bridges lead in a
circle, because `swap_bridge_assets` counts its depth. In the other modules a
transaction is a queue that only gets shorter, or a handler and its callback.

### The abstract specification

`SharePool` says in 80 lines what a user of any of the three contracts relies
on. `AstroportFarm`, `GeneratorBond` (one pool at a time) and `GeneratorStaking`
instantiate it with a refinement mapping. The shares and the pot of the vault
change in its callbacks only, so they map to themselves, and `IdleLp` is the
balance from before the transaction; the two halves of the generator proxy map
to the state from before an open transaction (`Settled`), whose last message
then is the step. So a handler, its callbacks and the other
contracts' messages map to one step, a revert maps to none, and tokens that lie
on a contract without belonging to a transaction stay `idle`: they are neither
paid to nor taken by whoever calls next. The runs check the refinement for all
three, and it is proved for all three.

### What the violations show

`update_config` of `lp_staking` may replace the schedule; the comment at
`contract.rs:399` says "if began ensure its in the new schedule". The code
takes an entry as begun when its start is not after the last *distribution*
(`contract.rs:400`), and `update_config` does not distribute first. With
stakers bonded and nobody calling for a while, an entry that has been running
can be dropped, and what it had released so far is lost to the stakers.
`DistributedIsScheduled` shows what does hold: nothing that was distributed is
ever taken out of the schedule.

`claim_rewards` of `generator_proxy` takes a list of LP tokens. For each it
reads the balances that the callback will subtract (`bond.rs:113`), all of
them before the first claim is executed. The callback of the second pool
therefore counts what is left of the first pool's reward as its own: in the
trace the first claim brings 2, the holder is paid 1, the second claim brings
nothing, and 2 are reconciled with 1 on the balance. `test.rs:536` and
`test.rs:582` expect the two to be equal after a claim. With one pool per
claim `ReconciledHeld` holds (`generator_tokens`).

`update_bridges` of `fees_collector` validates its entries, "Check that bridge
tokens can be swapped to stablecoin" (`contract.rs:446`). `validate_bridge`
stops as soon as the bridge token has a pair with the stablecoin
(`utils.rs:86`), but a swap prefers a bridge to that pair (`contract.rs:222`).
So `a -> b` and then `b -> a` are accepted when `b` has such a pair, and from
then on neither is sold: a collect of them fails at the depth limit.
`RoutesEnd` shows what does hold: without a token that has both, every bridge
reaches the stablecoin within the depth of the execution.

### Other disagreements met on the way

They are no runs, since no line of the repository states the opposite:

* the limit of an `AssetWithLimit` is not kept if the limited token is also the
  bridge of another one, whose round sells it whole (`fees_collector`
  `contract.rs:272`); `CollectLeavesDust` speaks of limits accordingly;
* the simulation of a collect refuses a chain of four swaps that the execution
  handles (`contract.rs:592`); `SimulationAgrees` speaks of simulations that
  succeed;
* `minimum_receive` of a collect counts the stablecoin that was there before;
* a collect that sells to one pair in two rounds (`a` and `b` are collected, `a` is
  sold for `b`) brings another amount than its simulation, which asks the pair as
  it is both times (`fees_collector` `contract.rs:546`, `utils.rs:45`);
* the same is true of a compound of two rewards over one pair of the router, or
  of a reward sold over the pair itself, and the simulation supposes that the
  whole commission stays in the pair, although a part of it may leave as maker
  fee (`compound_proxy` `simulation.rs:38`, `simulation.rs:88`);
* `rewards` of a compound is not checked for repetitions: a native that is named
  twice need come only once (`contract.rs:129`), and the simulation counts it
  twice (`simulation.rs:35`); if it has a pair proxy it is sold twice, the second
  time out of what lay on the contract or came as another reward. `IdleStays`
  and `SimulationIsKept` name these cases;
* what others have made the generator pay is computed with the virtual amount of
  today (`generator_proxy` `bond.rs:187`): if that has become less since they did,
  part of the reward stays on the balance, uncredited, and may be found later as
  another pool's or for other shares. `SettledBeforeChange` speaks of what the
  record tells.

### States the code does not leave

Some states of the models admit calls that always fail; the code makes no
promise about them, so no property does either. When all of an ended xASTRO
lock has been asked back, a relock would create a lock of 0, which the token
refuses, and a stake queues that relock first (`staking.rs:131`). A pool with
LP in the generator but no shares, or no record, cannot take a deposit that
finds a reward (`bond.rs:244`, `bond.rs:276`). The hazards of `PROJECT.json`
list them.

## Proofs

Every theorem holds for all values of the constants that the assumptions allow:
any accounts, tokens, pools, amounts, prices, bridges and schedules.

### Arithmetic and sums

`RatiosTheorems` proves bounds of truncated and rounded-up division, of the
weighted deposit time, and that changing one account changes `Total` by the
difference, by cardinality of finite sets. Sums of inequalities
(`TotalsRelated`: what holds for every account holds for the totals), the total
of a multiple (`TotalScaled`) and of a row of ledgers (`TotalOfRow`) need an
induction over the accounts; they use `SmallestSet`, that a family of subsets
of a finite set has a smallest member, on the set of counterexamples, so no
theorem with an operator parameter is needed. Recursive functions are treated
alike: that one exists with the values its definition asks for, and what its
values satisfy, follows from the smallest number that would be an exception.

### The vault

`AstroportFarmProofs` rests on the inductive invariant

    IInv == TypeOK /\ ShareConservation /\ SharesBacked /\ DepositsPast

`TypeOK` needs conservation (a share subtracted from a record is also there to
be subtracted from the total), conservation needs types, and `SharesBacked`
(shares never outnumber the staked LP) needs the direction of the roundings:
with it `CalcBondShare` never mints more shares than LP and `Unbond` never
leaves shares without LP. `DepositsPast` (no deposit lies in the future) makes
the elapsed time of the early-exit rule a natural number. From `IInv` follow
`TypeCorrect`, `SharesConserved`, `SharesAreBacked`, `HoldersCanLeave` (no
checked subtraction of `unbond` fails for an amount within the balance) and
`PriceNeverFalls`, an action property: each step that changes shares or LP
is shown to keep `staked' * shares >= staked * shares'`. `CostsCover` shows
that a position's cost covers its deposit at the lowest price: an unbond and a
transfer shrink deposit and cost in one ratio, the cost rounded from the larger
number, and what a transfer brings has the average cost of its sender.

`Refines` proves `Spec => ImplementsSharePool`. Bonds of either kind map to
`Enter`, unbonds and burns to `Leave` (the two roundings of `unbond` and the
early-exit rule only ever lower what is taken), transfers to `Move` or to
nothing, the end of a compound to `Gain`. It takes one more invariant,
`BalanceRead`: while the messages run, the balance is still the one the handler
had read.

The vault with its counters, `FarmHistory`, is shown to be the vault, so that
`IInv` carries over. `SpendingIsGranted`: what a spender moved and may
still move is within what he was granted. `NobodyProfitsAtOnce`: `NoInstantProfit`
is not inductive. The invariant `FlowInv` says for an account whose position is
of this second that what it took *and the deposit on its record* are within
what it brought, and that a record without shares has no deposit (`Emptied`);
the early-exit rule pays no more than the part of the deposit that goes.

### The staking contract and the proxy to it

`LpStakingProofs` proves `SInv == TypeOK /\ BondConservation /\ IndexBehind`
and from it that types hold, stakes add up, and no subtraction keeps a staker
from leaving. `StakersAreSolvent` needs the invariant `Accounted`, which
relates what was paid and is owed, over all stakers and before truncation, to
the index times the stake, and that to what was distributed; each credit loses
less than one token, which `changes` counts.

Two theorems take one more assumption, `WellFormed`: every entry ends
after it starts (`compute_reward` divides by zero on any other, and the schedule
is not validated). `DistributionIsScheduled` then rests on the fact that two
distributions in a row pay no more than one over the whole time (truncated
products of parts), and on the guard of `update_config`, which leaves every
entry that the sum up to the last distribution reads. `EarnedStays` shows
`EarnedNeverFalls`: the index a handler brings is the one the query uses, it is
never behind the one on record, a credit grows with the index, and a handler
pays exactly what it takes from one record.

`SpecProxyProofs` proves that the composition of the proxy and the reward
contract is an `LpStaking` (`RunsLpStaking`), so that every theorem about the
latter holds for it; that the generator's deposits are covered
(`DepositsAreCovered`), that a withdrawal's callback sends on what was asked
for (`WithdrawalsAreExact`), and that a claim brings what the query showed
(`PendingPaid`): the handler computes the index that the query would have used,
and all of the credit is paid.

### The generator proxy

Both halves are queues of messages, and a failing message restores the state
before the transaction. So their invariants speak of every stage of every
transaction, and of the state that `undo` keeps.

`GeneratorStakingProofs` has `IInv == Sound /\ Phase /\ (~Idle => Undone)`.
`Sound` holds at every message (types, sums, `IncomeCovered`); `Phase` lists
the stages of the queue, each with what the messages that are left will need
and what they have yet to restore: between a withdrawal from the ended lock and
the new lock the requests are covered by xASTRO on the contract, not by the
lock; `Undone` is the same for the state to return to. `Refines` follows a
transaction from its first message to its last (`Journey`): what the messages
left lead the pot to (`Leads`) is the same at every stage, so that the last
message, the one that is visible in the abstract pool, makes the step the first
one announced.

`GeneratorBondProofs` has `IInv == Sound /\ (Calm \/ Changing \/ Changed) /\ Undone`:
only claims so far; shares that have changed while the message that moves the LP
is still to come; LP that has moved. `ClaimsReconciled` needs the claims before truncation
and summed over all pools that pay in a token (`Backed`). `SettledFirst` needs
that the callbacks between a claim and a change of shares leave nothing owed
(`Rested`, `Ready`), and a third invariant, `CInv`: of the messages left of a
deposit or withdrawal it says how much of what came in, and of what was found of
claims by others, has been reconciled and handed out (`Credited`). `ReconciledIsHeld` supposes that no call claims for two
pools; the balances that a queued callback has read then lie between what is
reconciled and what is held (`HInv`), and with two pools it is false, see above. `Refines` again follows a
transaction (`Journey`).

What a share is worth never falls in a `SharePool`: shares are minted at the
truncated price (`MintingIsFair`) and given up for no more than they are worth
(`BurningIsFair`). `Refines` carries this over to both halves (`PoolIsFair`):
`PricesNeverFall` says it of the LP of every pool and `PriceNeverFalls` of the
xASTRO of the lock, over whole transactions, whatever fails or is renewed on
their way. No run lists these two properties: the runs check the refinement
they follow from.

### The fees collector

`FeesCollectorProofs` has `IInv == Config /\ held \in [Tokens -> Nat] /\ (Idle \/ Collecting)`.
During a collect the queue is a `Round`: swaps under way, the call for what the
bridges bring, and the distribution. What the swaps will sell is there, one
swap per token and for another token (`InHand`); what they bring is the
stablecoin or in the next round (`Onwards`); and of a token that is not, the
swaps under way leave no more than was there before the call, and nothing if
all of it was to be sold (`Clean`). Then `CollectsAreClean` holds in whatever
order the swaps of a round run; that the payouts leave less than one unit per
target is a sum of truncated quotients. `ValidRoutesEnd` shows that a bridge that is valid
at `k` calls before the deepest is sold within `k + 2` swaps. `ProposalsAreOwners`
needs no more than that an owner who claims uses up his predecessor's proposal.

`SimulationsAgree` relates two programs: the execution, whose swaps run one at a
time on the balances, and the simulation, a recursion over rounds. The invariant
`Following` says that within round `k` the balances are those the simulation has
before it, less what was sold and with what that brought (`Halfway`), and that the
bridges' tokens are what the next round has to sell. A round's end is then the
next value of the recursion, and once only the stablecoin is left the recursion
rests. The theorem is about a collect that meets no pair twice: the invariant
says of the pairs that are still to be met (`Unmoved`) that they are in the
states in which the simulation asked them.

### The compound proxy

`CompoundProxyProofs` first treats the arithmetic. `Isqrt` and the rounds of the
two Newton iterations are recursive functions, so what they compute is shown
as above: the root is the integer root (`IsqrtIsRoot`), the invariant of a pool
with two assets is positive (`ComputeDPositive`, which needs an amp of at least
1), and so no division of the stable pair has a zero divisor. `SwapAmountBounds`
shows that the optimal sale never exceeds what there is, although its closed
form truncates two square roots of amounts that are squared on the way.

`SalesAreBest` is about the closed form of `get_swap_amount`. What a sale leaves
of both assets against what the pair then has (`Balance`), multiplied by the
pair's new reserve and the commission's denominator, is the quadratic equation
(`SaleExcess`) and the truncation of what `simulate` returns: `BalanceEquation`,
an identity of polynomials. The amount sold lies below the equation's root, and
`Reach`, which is 2 and what the two
truncated square roots can come to, takes it above (`SwapAmountNearRoot`). So the
sale gets all that what it returns makes but for 1 unit
(`BalancedSaleSuffices`); and no sale gets more than what a sale larger by
`Reach` would make of the second asset, with 1 unit more, for a smaller sale
returns no more and a larger one lacks the first asset (`BalancedSaleLimits`).

`InvariantsAreFound` is about `compute_d`, with all five truncations of a round.
Its equation (`Gap`) is that of the invariant, except that the code divides by
2a + 1 and 2b + 1 where the curve has 2a and 2b.

* From below: the cube is convex, so that a round ends at most `Below` under the
  root wherever it starts (`RoundNotBelow`): 1, and 2 if the leverage has a
  fraction.
* From above: of the distance to any number that is not below the root a round leaves
  two thirds and the truncations (`RoundFromAbove`), and a round that starts
  below ends a few units above at most (`RoundFromBelow`).
* `Above` repeats these two bounds for as many rounds as the code makes,
  `RoundsNearRoot` is the induction, and `GapOfSum` that the first number, the sum
  of the reserves, is not below the root.

After 32 rounds less than 3 * 10^-6 of the first distance is left by this bound (the
iteration itself is much faster near the root). The truncations come to a
multiple of 1 + a/b, divided by the amp: the code divides by the second reserve
after the division by the first has lost its remainder.

The inductive invariant follows a compound from message to message:

    IInv == types /\ Backed(pool) /\ (Idle \/ Begun /\ (Paying \/ Ready \/ Selling \/ Sold))

While rewards are handled (`Paying`), of every token but the pair's there is no
less than what there was before and what has arrived and is still to be sold (`Kept`), unless it is
a native that the list sells twice. For a compound whose sales can be foreseen the
accounts balance (`Books`): what the contract holds and what the rewards
that are left will bring is what all rewards bring, in the states of the router's pairs in
which the simulation asked them, because a pair that is yet to be met has not
been moved (`OthersNotMoved`). `AheadSplit` takes the next reward out of the sum
of those ahead. `Selling` says that the sale under way is the one that the
optimal swap has for the balance and can be paid (`SwapsArePaid`); `Sold` that the
balance is the one after it, and that the pool holds no more than the
simulation supposes, and as much if no maker fee left it. `IdleTokensStay`
follows from `prev_balances`: `provide_liquidity` leaves of the pair's assets
just those. `SimulationsAreKept` reads the last message off the accounts; a
pool that holds less behind the same LP gives no less LP for a deposit
(`ShareMonotone`).

### Assumptions

The constants' assumptions are `FarmAssumption`, `StakingAssumption`,
`ProxyAssumption`, `StakeAssumption`, `DecimalAssumption`, `BondAssumption`,
`CollectorAssumption`, `PoolMathAssumption` and `CompoundAssumption`: amounts are
naturals, units and days positive, the sets of accounts and tokens finite, a pair
has two tokens, a route of a pair proxy names at least two assets and none
twice, and the leverage of a stable pair is that of an amp of at least 1. Five
hypotheses are named where a theorem needs them: `WellFormed`;
`ReturnsAreAmounts`, that a pair (of the collector, or of the router behind a pair
proxy) returns a natural number (a Uint128) and stays in one of its states; `PoolsAreBacked`, that a pair whose
LP exists holds both assets; `DepthsFit`, that bridges are
validated to a smaller depth than they are executed (2 and 3 in the code); and
`StableHasNoBridge`, that the operator gives the stablecoin itself no bridge.

### What the proofs found

`SettledBeforeChange` once also said that the pool's record of the proxy tokens'
debts is that of the generator whenever shares change. The proof of it failed: a
deposit that others make for the contract in the block of the claim raises those
debts without a payment, and nothing is owed all the same. TLC had not met the
case within the bounds.

`SimulationAgrees` holds, besides, only if the stablecoin is not collected with a limit, which
the simulation would count and the execution would not, and if the stablecoin has
no bridge: `update_bridges` accepts `a -> usd` together with `usd -> b`, and a
collect of `a` then sells the stablecoin it brought, which the simulation keeps.

`Limits` once stood for "no limit" by a large number, so that a balance above it
would have been sold in part; it is a value of its own now, as in the code.

`IdleStays` once said that a compound leaves every balance as it was, which is
so only while each reward is sold for an asset of the pair. No check of the code
asks for that: `pair_proxy` sells to whatever its route ends with, and what
it sends stays on the contract. The property now says of other tokens that no
less stays, and excepts natives that are sold twice.

`SaleIsBest` and `InvariantFound` once had tolerances that TLC had found for the
pools of the run: a few units, and one. The proofs showed what they depend on.
In a pool with much more of the first asset than of the second, `compute_d` is off by
more than a unit, the more the smaller the amp; and it need not come to rest:
for one unit of each asset and an amp of 1 its rounds alternate between 2 and
4, so that the loop is left after 32 rounds and not by its test for two equal
numbers.

### Only model-checked

`CollectEnds`: liveness is out of the prover's reach. The bound it rests on, that a
valid bridge is sold within so many swaps, is proved (`ValidRoutesEnd`).

## Not modelled, and why

* Queries, but for those a property is about: they change nothing.
* Message types, encoding, and the Astroport interfaces under `packages/`:
  there is no behaviour of this repository in them.
* The fields of a configuration that no property depends on, the legacy
  `POOL_INFO` of the vault (no code saves it), and migration (it does nothing).
* Pairs, factory, router, generator, voting escrow and fee distributor are
  external: the modules state what the code relies on.
* `pair_proxy` with a belief price: no contract here passes a finite one.
* The `ownership.rs` copies of `astroport_farm` and `lp_staking` differ from
  `common.rs` by the bound on `expires_in` alone; `Ownership` with a
  `MAX_PROPOSAL_TTL` above all `Expiries` is that copy.
