---------------------------- MODULE CompoundProxy ----------------------------
(***************************************************************************)
(* contracts/compound_proxy: turns rewards into LP of one pair.  A reward  *)
(* with a pair proxy is sold over the proxy's route; of the two assets of  *)
(* the pair the one in excess is sold to the pair; both are provided.      *)
(* contracts/pair_proxy looks like a pair and sells over a fixed route of  *)
(* a router.                                                               *)
(*                                                                         *)
(* A transaction is the sequence `queue' of messages still to be executed; *)
(* nobody else runs meanwhile, and a message that fails reverts all of it. *)
(* The two assets, and the LP, have one precision.  The pair sells as a    *)
(* constant product pair does, and may pay a part of its commission, the   *)
(* maker fee, to somebody else.                                            *)
(***************************************************************************)
EXTENDS PoolMath, Sequences

CONSTANTS
    A, B,           \* the assets of the pair, in its order
    RewardTokens,   \* tokens that may be compounded
    Natives,        \* those of them that come with the call
    Routes,         \* PAIR_PROXY: for some tokens the assets of a pair proxy
    PairStates,     \* what the price of a router's pair depends on; external
    Return(_, _, _, _), \* what a pair returns: state, from, to, amount; external
    Moved(_, _, _, _),  \* the state of the pair after that; external
    Markets,        \* bound: the states of the router's pairs before a compound
    Amounts,        \* amounts of a reward
    MaxRewards,     \* bound: how many rewards a call names
    Commission,     \* Config.commission_bps
    MakerFees,      \* parts of the commission, of COMMISSION_DENOM, that leave the pair; external
    Leverage,       \* of a stable pair
    PairTypes,      \* of "Xyk", "Stable" and "Custom"
    Pools(_),       \* bound: reserves and LP of a pair of a type before a compound
    MaxIdle         \* bound: what lies on the contract before a compound, or comes unnamed

Tokens == {A, B} \cup RewardTokens

MAX_ASSETS == 50

\* instantiate of pair_proxy: what it takes for a route.
ValidRoute(route) ==
    /\ Len(route) \in 1 .. MAX_ASSETS
    /\ \A i, j \in DOMAIN route : route[i] = route[j] => i = j

\* The pairs that the router meets on the route of a reward.
RoutePairs(t) == {{Routes[t][i - 1], Routes[t][i]} : i \in 2 .. Len(Routes[t])}

MarketStates == [UNION {RoutePairs(t) : t \in DOMAIN Routes} -> PairStates]

\* A route of one asset is valid, but has no operation for a router to execute.
\* The leverage is the pair's amp, at least 1, times its two coins.
ASSUME CompoundAssumption ==
    /\ IsFiniteSet(RewardTokens) /\ A # B
    /\ Natives \subseteq Tokens
    /\ \A t \in DOMAIN Routes :
          /\ DOMAIN Routes[t] = 1 .. Len(Routes[t])
          /\ ValidRoute(Routes[t]) /\ Len(Routes[t]) > 1
    /\ Amounts \subseteq Nat /\ MaxRewards \in Nat
    /\ Markets \subseteq MarketStates
    /\ Commission \in 0 .. COMMISSION_DENOM - 1
    /\ MakerFees \subseteq 0 .. COMMISSION_DENOM
    /\ Leverage \in Nat /\ Leverage >= 2 * AMP_PRECISION
    /\ PairTypes \subseteq {"Xyk", "Stable", "Custom"}
    /\ MaxIdle \in Nat

VARIABLES
    pair_type,  \* Config.pair_info.pair_type
    held,       \* the contract's balance of each token, external
    pool,       \* the pair's reserves a and b and the total of its LP, external
    maker_fee,  \* the part of its commission that leaves it, external
    market,     \* the states of the router's pairs, external
    queue,      \* messages of the transaction being executed
    tx          \* how it began, or NoTx

vars == <<pair_type, held, pool, maker_fee, market, queue, tx>>

Reward == [info: RewardTokens, amount: Amounts]

\* What a call names: any list, a token may be in it more than once.
Rewards == UNION {[1 .. n -> Reward] : n \in 0 .. MaxRewards}

\* The natives that come with a call.
Funds == [Natives -> Amounts \cup {0}]

Message == [type: {"Rewards", "OptimalSwap", "PairSwap", "ProvideLiquidity"},
            rewards: Rewards, handled: Nat,  \* the first of them are done
            offer: {A, B}, amount: Nat, prev_balances: [{A, B} -> Nat]]

NoMessage == [type |-> "Rewards", rewards |-> <<>>, handled |-> 0, offer |-> A, amount |-> 0,
              prev_balances |-> [t \in {A, B} |-> 0]]

NoTx == [open |-> FALSE]

TypeOK ==
    /\ pair_type \in PairTypes
    /\ held \in [Tokens -> Nat]
    /\ pool \in [a: Nat, b: Nat, total: Nat]
    /\ maker_fee \in MakerFees
    /\ market \in MarketStates
    /\ \A i \in DOMAIN queue : queue[i] \in Message
    /\ tx = NoTx <=> queue = <<>>

-----------------------------------------------------------------------------
(* contracts/pair_proxy: swap and query_simulation *)

Reversed(route) == [i \in DOMAIN route |-> route[Len(route) + 1 - i]]

\* The route from the asset that is offered to the other end of it.
RouteFrom(t) == IF Routes[t][1] = t THEN Routes[t] ELSE Reversed(Routes[t])

\* One of the ends is the asset that is offered.
OnRoute(t) == t \in {Routes[t][1], Routes[t][Len(Routes[t])]}

\* create_swap_operations, executed or simulated by the router with its pairs
\* in the states `at': the amounts on the way.
RouteAmounts(at, t, amount) ==
    LET route == RouteFrom(t)
        after[i \in 1 .. Len(route)] ==
            IF i = 1 THEN amount
            ELSE Return(at[{route[i - 1], route[i]}], route[i - 1], route[i], after[i - 1])
    IN  after

RouteReturn(at, t, amount) == RouteAmounts(at, t, amount)[Len(Routes[t])]

\* Executing the operations moves every pair of the route.
MarketAfter(at, t, amount) ==
    LET route == RouteFrom(t)
        hop(p) == CHOOSE i \in 2 .. Len(route) : p = {route[i - 1], route[i]}
    IN  [p \in DOMAIN at |->
            IF p \in RoutePairs(t)
            THEN Moved(at[p], route[hop(p) - 1], route[hop(p)],
                       RouteAmounts(at, t, amount)[hop(p) - 1])
            ELSE at[p]]

\* A route may lead over the pair itself: it is left with other reserves.
PoolsAfter(t) ==
    IF {A, B} \in RoutePairs(t) THEN {p \in Pools(pair_type) : p.total = pool.total} ELSE {pool}

\* What t becomes, and how much of it.
RewardAsset(t) == IF t \in DOMAIN Routes THEN RouteFrom(t)[Len(Routes[t])] ELSE t

RewardAmount(at, t, amount) ==
    IF t \in DOMAIN Routes THEN RouteReturn(at, t, amount) ELSE amount

-----------------------------------------------------------------------------
(* calculate_optimal_swap and query_compound_simulation *)

NoSale == [sold |-> 0, returned |-> 0]

\* What is sold of each of the two assets when there are x and y of them.
OptimalSale(x, y) ==
    [t \in {A, B} |->
        IF t = A /\ x * pool.b > y * pool.a THEN Sale(x, y, pool.a, pool.b, Commission)
        ELSE IF t = B /\ x * pool.b < y * pool.a THEN Sale(y, x, pool.b, pool.a, Commission)
        ELSE NoSale]

\* The pool after a sale of one of its assets.
PoolAfter(sale) ==
    [pool EXCEPT !.a = @ + sale[A].sold - sale[B].returned,
                 !.b = @ + sale[B].sold - sale[A].returned]

\* A faulty variant: a reward overwrites those before it.
RewardsInLast(at, rewards, t) ==
    LET into == {i \in DOMAIN rewards : RewardAsset(rewards[i].info) = t}
        last == CHOOSE i \in into : \A j \in into : j <= i
    IN  IF into = {} THEN 0 ELSE RewardAmount(at, rewards[last].info, rewards[last].amount)

\* The rewards once each is sold for t with the router's pairs as they are.
RewardsIn(at, rewards, t) ==
    Total([i \in DOMAIN rewards |->
              IF RewardAsset(rewards[i].info) = t
              THEN RewardAmount(at, rewards[i].info, rewards[i].amount) ELSE 0])

\* query_compound_simulation; it fails for a custom pair and for a reward
\* that ends up outside the pair.
CompoundSimulation(rewards) ==
    LET x    == RewardsIn(market, rewards, A)
        y    == RewardsIn(market, rewards, B)
        sale == IF pair_type = "Stable" THEN [t \in {A, B} |-> NoSale] ELSE OptimalSale(x, y)
    IN  [ok |-> /\ pair_type # "Custom"
                /\ \A i \in DOMAIN rewards :
                      LET t == rewards[i].info
                      IN  RewardAsset(t) \in {A, B} /\ (t \in DOMAIN Routes => OnRoute(t)),
         sale |-> sale,
         lp_amount |->
            IF pair_type = "Stable" /\ pool.total > 0 THEN StableShare(x, y, pool, Leverage)
            ELSE IF pair_type = "Stable" THEN ProvideShare(x, y, pool)
            ELSE ProvideShare(x - sale[A].sold + sale[B].returned,
                              y - sale[B].sold + sale[A].returned, PoolAfter(sale))]

-----------------------------------------------------------------------------
Init ==
    /\ pair_type \in PairTypes
    /\ pool \in Pools(pair_type) /\ maker_fee \in MakerFees
    /\ market \in Markets
    /\ held = [t \in Tokens |-> 0]
    /\ queue = <<>> /\ tx = NoTx

\* What came with the call of t.
Sent(funds, t) == IF t \in Natives THEN funds[t] ELSE 0

\* native_reward_map: of a native that is named more than once the last amount.
Named(rewards, t) ==
    LET naming == {i \in DOMAIN rewards : rewards[i].info = t}
        last   == CHOOSE i \in naming : \A j \in naming : j <= i
    IN  IF t \in Natives /\ naming # {} THEN rewards[last].amount ELSE 0

\* A faulty variant: what came with the call counts as there before.
PrevBalancesWithFunds(rewards, funds, t) == held[t] + Sent(funds, t)

\* The balances the callback will deduct: cw20 rewards have yet to be pulled,
\* native ones have arrived and, if they are named, are subtracted again.
PrevBalances(rewards, funds, t) == (held[t] + Sent(funds, t)) - Named(rewards, t)

\* A faulty variant: nothing is provided when there is nothing to sell.
CompoundMessagesIfAny(rewards, funds, no_swap) ==
    (IF rewards = <<>> THEN <<>> ELSE <<[NoMessage EXCEPT !.rewards = rewards]>>)
    \o (IF no_swap THEN <<>>
        ELSE <<[NoMessage EXCEPT !.type = "OptimalSwap"],
               [NoMessage EXCEPT !.type = "ProvideLiquidity",
                    !.prev_balances = [t \in {A, B} |-> PrevBalances(rewards, funds, t)]]>>)

\* The messages of compound; the balances are read before any of them runs.
CompoundMessages(rewards, funds, no_swap) ==
    (IF rewards = <<>> THEN <<>> ELSE <<[NoMessage EXCEPT !.rewards = rewards]>>)
    \o (IF no_swap THEN <<>> ELSE <<[NoMessage EXCEPT !.type = "OptimalSwap"]>>)
    \o <<[NoMessage EXCEPT !.type = "ProvideLiquidity",
            !.prev_balances = [t \in {A, B} |-> PrevBalances(rewards, funds, t)]]>>

\* assert_sent_native_token_balance, for one reward after the other: an amount
\* that is named twice need come only once.
Paid(rewards, funds) ==
    \A i \in DOMAIN rewards :
        rewards[i].info \in Natives /\ rewards[i].amount > 0
        => rewards[i].amount = funds[rewards[i].info]

\* compound.
Compound(rewards, funds, no_swap) ==
    /\ tx = NoTx
    /\ pool \in Pools(pair_type) /\ market \in Markets /\ Total(held) <= MaxIdle
    /\ Paid(rewards, funds)
    /\ \A t \in Natives : Sent(funds, t) - Named(rewards, t) <= MaxIdle
    /\ held' = [t \in Tokens |-> held[t] + Sent(funds, t)]
    /\ queue' = CompoundMessages(rewards, funds, no_swap)
    /\ tx' = [open |-> TRUE, undo |-> [held |-> held, pool |-> pool, market |-> market],
              rewards |-> rewards, funds |-> funds, no_swap |-> no_swap,
              simulation |-> CompoundSimulation(rewards)]
    /\ UNCHANGED <<pair_type, pool, maker_fee, market>>

\* The first message is of the given type.
Executes(type) == tx # NoTx /\ Head(queue).type = type

\* The next reward is pulled, if it is a cw20, and sold, if it has a proxy: a
\* sale of nothing, or of more than there is, fails.
DepositAndSwap ==
    LET message == Head(queue)
        next    == message.handled + 1
        t       == message.rewards[next].info
        amount  == message.rewards[next].amount
        pulled  == [held EXCEPT ![t] = @ + IF t \in Natives THEN 0 ELSE amount]
    IN  /\ Executes("Rewards")
        /\ \/ /\ t \notin DOMAIN Routes
              /\ held' = pulled
              /\ UNCHANGED <<pool, market>>
           \/ /\ t \in DOMAIN Routes /\ OnRoute(t)
              /\ amount \in 1 .. pulled[t]
              /\ held' = [pulled EXCEPT ![t] = @ - amount,
                                        ![RewardAsset(t)] = @ + RouteReturn(market, t, amount)]
              /\ market' = MarketAfter(market, t, amount)
              /\ pool' \in PoolsAfter(t)
        /\ queue' = IF next = Len(message.rewards) THEN Tail(queue)
                    ELSE <<[message EXCEPT !.handled = next]>> \o Tail(queue)
        /\ UNCHANGED <<pair_type, maker_fee, tx>>

\* optimal_swap: of all the contract has of the two assets.
OptimalSwap ==
    LET sale == OptimalSale(held[A], held[B])
        sold == {t \in {A, B} : sale[t].sold > 0}
    IN  /\ Executes("OptimalSwap")
        /\ queue' = (IF pair_type = "Stable" \/ sold = {} THEN <<>>
                     ELSE LET t == CHOOSE x \in sold : TRUE
                          IN  <<[NoMessage EXCEPT !.type = "PairSwap", !.offer = t,
                                                  !.amount = sale[t].sold]>>)
                    \o Tail(queue)
        /\ UNCHANGED <<pair_type, held, pool, maker_fee, market, tx>>

\* What of its commission a pair pays to the maker, external: the commission
\* is what it would return more if there were none.
MakerPart(offer_pool, ask_pool, sold) ==
    MulRatio(Simulate(offer_pool, ask_pool, sold, 0)
                - Simulate(offer_pool, ask_pool, sold, Commission),
             maker_fee, COMMISSION_DENOM)

\* The pair executes the swap; what of the commission the maker does not get
\* stays in its reserves.
PairSwap ==
    LET offer == Head(queue).offer
        sold  == Head(queue).amount
        ask   == IF offer = A THEN B ELSE A
        returned == IF offer = A THEN Simulate(pool.a, pool.b, sold, Commission)
                    ELSE Simulate(pool.b, pool.a, sold, Commission)
        after == PoolAfter([t \in {A, B} |-> IF t = offer
                               THEN [sold |-> sold, returned |-> returned] ELSE NoSale])
    IN  /\ Executes("PairSwap")
        /\ sold <= held[offer]
        /\ held' = [held EXCEPT ![offer] = @ - sold, ![ask] = @ + returned]
        /\ pool' = IF offer = A THEN [after EXCEPT !.b = @ - MakerPart(pool.a, pool.b, sold)]
                   ELSE [after EXCEPT !.a = @ - MakerPart(pool.b, pool.a, sold)]
        /\ queue' = Tail(queue)
        /\ UNCHANGED <<pair_type, maker_fee, market, tx>>

\* provide_liquidity and the pair's mint, which fails for nothing.
ProvideLiquidity ==
    LET prev == Head(queue).prev_balances
        x == held[A] - prev[A]
        y == held[B] - prev[B]
        minted == IF pair_type = "Stable" /\ pool.total > 0
                  THEN StableShare(x, y, pool, Leverage) ELSE ProvideShare(x, y, pool)
    IN  /\ Executes("ProvideLiquidity")
        /\ x >= 0 /\ y >= 0
        /\ minted > 0
        /\ pool' = [a |-> pool.a + x, b |-> pool.b + y, total |-> pool.total + minted]
        /\ held' = [held EXCEPT ![A] = @ - x, ![B] = @ - y]
        /\ queue' = Tail(queue) /\ tx' = NoTx
        /\ UNCHANGED <<pair_type, maker_fee, market>>

\* Some message fails.
Revert ==
    /\ tx # NoTx
    /\ held' = tx.undo.held /\ pool' = tx.undo.pool /\ market' = tx.undo.market
    /\ queue' = <<>> /\ tx' = NoTx
    /\ UNCHANGED <<pair_type, maker_fee>>

\* Tokens are sent to the contract without a call.
Donate(t) ==
    /\ tx = NoTx
    /\ Total(held) < MaxIdle
    /\ held' = [held EXCEPT ![t] = @ + 1]
    /\ UNCHANGED <<pair_type, pool, maker_fee, market, queue, tx>>

\* Others trade with the pairs, and the factory's owner sets the maker fee.
OthersTrade ==
    /\ tx = NoTx
    /\ pool' \in Pools(pair_type) /\ maker_fee' \in MakerFees
    /\ market' \in Markets
    /\ UNCHANGED <<pair_type, held, queue, tx>>

Next ==
    \/ \E rewards \in Rewards, funds \in Funds, no_swap \in BOOLEAN :
          Compound(rewards, funds, no_swap)
    \/ DepositAndSwap \/ OptimalSwap \/ PairSwap \/ ProvideLiquidity \/ Revert
    \/ \E t \in Tokens : Donate(t)
    \/ OthersTrade

Spec == Init /\ [][Next]_vars

-----------------------------------------------------------------------------
(* Properties *)

\* A native with a proxy is named twice, and then sold twice: the second sale
\* takes what lay on the contract, or other rewards.
SoldTwice(rewards, t) ==
    /\ t \in Natives \cap DOMAIN Routes
    /\ \E i, j \in DOMAIN rewards :
          i # j /\ rewards[i].info = t /\ rewards[j].info = t

\* A compound that goes through leaves the pair's assets as they were before
\* the call, although optimal_swap sells of the whole balance: only what came
\* with it and the rewards do not name stays too.  Of no other token less is
\* left than lay on the contract, unless it is one that is sold twice.
IdleStays ==
    [][ProvideLiquidity =>
          /\ \A t \in {A, B} :
                held'[t] = tx.undo.held[t] + Sent(tx.funds, t) - Named(tx.rewards, t)
          /\ \A t \in Tokens \ {A, B} :
                held'[t] < tx.undo.held[t] => SoldTwice(tx.rewards, t)]_vars

\* No pair is met twice: the simulation asks each as it is (simulation.rs:37),
\* a second sale finds it moved by the first.
PairsMetOnce(rewards) ==
    \A i \in {k \in DOMAIN rewards : rewards[k].info \in DOMAIN Routes} :
        /\ {A, B} \notin RoutePairs(rewards[i].info)
        /\ \A j \in DOMAIN rewards \ {i} :
              rewards[j].info \in DOMAIN Routes
              => RoutePairs(rewards[i].info) \cap RoutePairs(rewards[j].info) = {}

\* No native is named twice: the simulation counts it twice.
NativesNamedOnce(rewards) ==
    \A i \in DOMAIN rewards : \A j \in DOMAIN rewards \ {i} :
        rewards[i].info = rewards[j].info => rewards[i].info \notin Natives

\* What a simulation can foresee: the rewards are sold and provided, each once,
\* and nothing else of the pair's assets lies on the contract.
Foreseen ==
    /\ tx.simulation.ok /\ ~tx.no_swap
    /\ PairsMetOnce(tx.rewards) /\ NativesNamedOnce(tx.rewards)
    /\ \A t \in {A, B} : tx.undo.held[t] + Sent(tx.funds, t) = Named(tx.rewards, t)

\* query_compound_simulation tells the LP that the messages of compound will
\* bring.  It leaves the whole commission in the pair: if a part leaves it, the
\* LP is worth less of the other asset and there is no less of it.
SimulationIsKept ==
    [][ProvideLiquidity /\ Foreseen =>
          LET minted == pool'.total - pool.total
          IN  /\ minted >= tx.simulation.lp_amount
              /\ maker_fee = 0 \/ (\A t \in {A, B} : tx.simulation.sale[t] = NoSale)
                 => minted = tx.simulation.lp_amount]_vars

\* optimal_swap, which takes two truncated square roots, for either asset: the
\* sale can be paid, and no other sale brings more LP but for those roots, as
\* long as the whole commission stays in the pair, which is what the code solves.
SaleIsBest ==
    Executes("OptimalSwap") /\ pair_type # "Stable" /\ pool.total > 0 =>
        LET sale == OptimalSale(held[A], held[B])
            mirrored == [pool EXCEPT !.a = pool.b, !.b = pool.a]
        IN  /\ held[A] * pool.b >= held[B] * pool.a =>
                  IsBestSale(sale[A].sold, held[A], held[B], pool, Commission)
            /\ held[B] * pool.a >= held[A] * pool.b =>
                  IsBestSale(sale[B].sold, held[B], held[A], mirrored, Commission)

\* compute_d is close to the invariant it is to compute: it never ends below
\* by more than its last truncations, and its iterations are enough to come
\* down to it from the sum of the reserves, whatever the amp and however
\* uneven the pool, as far as Above says.
InvariantFound ==
    pair_type = "Stable" /\ pool.total > 0 =>
        IsInvariant(Leverage, pool.a, pool.b, ComputeD(Leverage, pool.a, pool.b))
=============================================================================
