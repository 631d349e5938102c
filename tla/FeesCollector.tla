--------------------------- MODULE FeesCollector ---------------------------
(***************************************************************************)
(* contracts/fees_collector: sells the fee tokens it holds for one         *)
(* stablecoin and pays that out to a list of targets by weight.  A token   *)
(* is sold on the pair with its bridge token, if it has one, else on the   *)
(* pair with the stablecoin, else on that with LUNA; what the bridges      *)
(* brought is sold again by a call of the contract to itself.              *)
(*                                                                         *)
(* A transaction is the sequence `queue' of messages still to be executed. *)
(* Nobody else runs meanwhile, and a message that fails reverts all of it. *)
(***************************************************************************)
EXTENDS Ratios, Sequences

CONSTANTS
    Accounts, MAX_PROPOSAL_TTL, Expiries, MaxTime,  \* of Ownership
    Tokens,                         \* assets
    Stable,                         \* Config.stablecoin
    Luna,                           \* ULUNA_DENOM
    FeeTokens,                      \* assets that are paid in as fees
    Bridges,                        \* <<asset, bridge>> the operator may add
    BRIDGES_MAX_DEPTH,              \* 2 in the code
    BRIDGES_EXECUTION_MAX_DEPTH,    \* 3 in the code
    PairSets,                       \* sets of pairs the factory may have
    PairStates,                     \* what the price of a pair depends on; external
    Return(_, _, _, _),             \* what a pair returns: state, from, to, amount; external
    Moved(_, _, _, _),              \* the state of the pair after that; external
    Markets,                        \* bound: the states of all pairs before a collect
    TargetLists,                    \* target lists, sequences of [to, weight]
    Limits, NoLimit,                \* values of AssetWithLimit.limit, and None
    Minimums,                       \* values of minimum_receive, 0 for None
    MaxHeld                         \* bound: tokens the contract holds

MarketStates == [{{s, t} : s, t \in Tokens} -> PairStates]

ASSUME CollectorAssumption ==
    /\ IsFiniteSet(Tokens) /\ {Stable, Luna} \cup FeeTokens \subseteq Tokens
    /\ Bridges \subseteq Tokens \X Tokens
    /\ \A pairs \in PairSets : \A p \in pairs : p \subseteq Tokens /\ Cardinality(p) = 2
    /\ Markets \subseteq MarketStates
    /\ TargetLists \subseteq Seq([to: Accounts, weight: Nat])
    /\ BRIDGES_MAX_DEPTH \in Nat /\ BRIDGES_EXECUTION_MAX_DEPTH \in Nat \ {0}
    /\ Limits \subseteq Nat /\ NoLimit \notin Nat /\ Minimums \subseteq Nat /\ Expiries \subseteq Nat
    /\ MAX_PROPOSAL_TTL \in Nat /\ MaxTime \in Nat /\ MaxHeld \in Nat

VARIABLES
    owner, proposal, now,   \* of Ownership
    operator, target_list,  \* Config
    bridges,                \* BRIDGES
    pairs,                  \* the pairs of Config.factory_contract, external
    market,                 \* the state of each pair, external
    held,                   \* the contract's balance of each token, external
    queue,                  \* messages of the transaction being executed
    tx                      \* how it began, or NoTx

Owner == INSTANCE Ownership

config == <<operator, target_list, bridges, pairs>>
vars == <<owner, proposal, now, config, market, held, queue, tx>>

Swap == [from: Tokens, to: Tokens, amount: Nat]

Message == [type: {"Swaps", "SwapBridgeAssets", "DistributeFees"},
            swaps: SUBSET Swap, assets: SUBSET Tokens, depth: Nat, minimum_receive: Nat]

NoMessage == [type |-> "Swaps", swaps |-> {}, assets |-> {}, depth |-> 0, minimum_receive |-> 0]

NoTx == [open |-> FALSE]

TypeOK ==
    /\ Owner!TypeOK
    /\ operator \in Accounts
    /\ target_list \in TargetLists
    /\ DOMAIN bridges \subseteq Tokens
    /\ \A t \in DOMAIN bridges : bridges[t] \in Tokens \ {t}
    /\ pairs \in PairSets
    /\ market \in MarketStates
    /\ held \in [Tokens -> Nat]
    /\ \A i \in DOMAIN queue : queue[i] \in Message
    /\ tx = NoTx <=> queue = <<>>

-----------------------------------------------------------------------------
(* utils.rs and swap: where a token is sold *)

HasPair(a, b) == {a, b} \in pairs

\* A faulty variant: any bridge will do as long as the last one is sold.
ValidBridgesUnchecked(map) ==
    \A t \in DOMAIN map : HasPair(map[t], Stable) \/ map[t] \in DOMAIN map

\* validate_bridge of every entry of `map': the pair with the bridge exists,
\* and the bridge has a pair with the stablecoin or a valid bridge itself.
ValidBridges(map) ==
    LET valid[depth \in 0 .. BRIDGES_MAX_DEPTH] ==
            {t \in DOMAIN map :
                /\ HasPair(t, map[t])
                /\ \/ HasPair(map[t], Stable)
                   \/ depth < BRIDGES_MAX_DEPTH /\ map[t] \in valid[depth + 1]}
    IN  valid[0] = DOMAIN map

\* The token that `t' is sold for.
SwapTarget(t) ==
    IF t \in DOMAIN bridges THEN bridges[t] ELSE IF HasPair(t, Stable) THEN Stable ELSE Luna

\* swap does not fail.
CanSwap(t) == HasPair(t, SwapTarget(t))

\* What `t' is sold for has to be sold again (SwapTarget::Bridge).
ViaBridge(t) == t \in DOMAIN bridges \/ ~HasPair(t, Stable)

\* swap_assets: what is sold of a token, the balance or, if that is less, the
\* limit.
Limited(t, limit) == IF limit = NoLimit THEN held[t] ELSE AtMost(held[t], limit)

\* The tokens with something to sell, `asked' being the limits.
Sold(asked) == {t \in DOMAIN asked : Limited(t, asked[t]) > 0}

\* A faulty variant: the limit is sold, not the lesser of it and the balance.
SwapsToLimit(asked) ==
    {[from |-> t, to |-> SwapTarget(t),
      amount |-> IF asked[t] = NoLimit THEN held[t] ELSE asked[t]] : t \in Sold(asked)}

Swaps(asked) ==
    {[from |-> t, to |-> SwapTarget(t), amount |-> Limited(t, asked[t])] : t \in Sold(asked)}

BridgeAssets(asked) == {SwapTarget(t) : t \in {u \in Sold(asked) : ViaBridge(u)}}

\* A faulty variant: what the bridges bring is not sold.
SwapMessagesOneHop(asked, depth) ==
    IF Sold(asked) = {} THEN <<>> ELSE <<[NoMessage EXCEPT !.swaps = Swaps(asked)]>>

\* The messages of a round of swaps: the swaps, then the call to itself.
SwapMessages(asked, depth) ==
    (IF Sold(asked) = {} THEN <<>> ELSE <<[NoMessage EXCEPT !.swaps = Swaps(asked)]>>)
    \o (IF BridgeAssets(asked) = {} THEN <<>>
        ELSE <<[NoMessage EXCEPT !.type = "SwapBridgeAssets", !.assets = BridgeAssets(asked),
                                 !.depth = depth]>>)

-----------------------------------------------------------------------------
(* query_collect_simulation *)

\* What a swap returns when the pairs are in the states `at'.
Returned(at, from, to, amount) == Return(at[{from, to}], from, to, amount)

\* The tokens that a round of the simulation sells.
Selling(amounts) == {t \in Tokens \ {Stable} : amounts[t] > 0}

\* A faulty variant: the stablecoin the contract holds is not counted.
SimulationRoundFresh(at, amounts) ==
    [u \in Tokens |->
        Total([t \in {x \in Selling(amounts) : SwapTarget(x) = u} |->
                  Returned(at, t, u, amounts[t])])]

\* One round of bulk_swap_simulation: every token but the stablecoin is sold.
\* The pairs are queried as they are, whatever the rounds before would sell to them.
SimulationRound(at, amounts) ==
    [u \in Tokens |->
        Total([t \in {x \in Selling(amounts) : SwapTarget(x) = u} |->
                  Returned(at, t, u, amounts[t])])
        + (IF u = Stable THEN amounts[Stable] ELSE 0)]

\* bulk_swap_simulation: as many rounds as it takes, not more than the limit.
Simulation(at, amounts) ==
    LET after[round \in 0 .. BRIDGES_EXECUTION_MAX_DEPTH] ==
            IF round = 0 THEN amounts ELSE SimulationRound(at, after[round - 1])
        selling(round) == Selling(after[round - 1])
    IN  [ok |-> /\ \A round \in 1 .. BRIDGES_EXECUTION_MAX_DEPTH :
                      \A t \in selling(round) : CanSwap(t)
                /\ \A t \in selling(BRIDGES_EXECUTION_MAX_DEPTH) : SwapTarget(t) = Stable,
         return_amount |-> after[BRIDGES_EXECUTION_MAX_DEPTH][Stable],
         rounds |-> after]

\* query_collect_simulation of the assets and limits `asked'.
CollectSimulation(asked) ==
    Simulation(market, [t \in Tokens |-> IF t \in DOMAIN asked THEN Limited(t, asked[t])
                                         ELSE IF t = Stable THEN held[Stable] ELSE 0])

-----------------------------------------------------------------------------
Init ==
    /\ Owner!Init
    /\ operator \in Accounts /\ target_list \in TargetLists /\ pairs \in PairSets
    /\ bridges = <<>>
    /\ market \in Markets
    /\ held = [t \in Tokens |-> 0]
    /\ queue = <<>> /\ tx = NoTx

\* collect; the stablecoin is left out of what is sold.
Collect(sender, asked, minimum) ==
    LET selling == [t \in DOMAIN asked \ {Stable} |-> asked[t]]
    IN  /\ tx = NoTx
        /\ sender = operator
        /\ market \in Markets
        /\ \A t \in Sold(selling) : CanSwap(t)
        /\ queue' = Append(SwapMessages(selling, 0),
                           [NoMessage EXCEPT !.type = "DistributeFees",
                                             !.minimum_receive = minimum])
        /\ tx' = [open |-> TRUE, undo |-> held, market |-> market, asked |-> asked,
                  simulation |-> CollectSimulation(asked)]
        /\ UNCHANGED <<owner, proposal, now, config, market, held>>

\* A pair executes one of the swaps, which moves it; they may come in any order,
\* because the code takes the assets of a round out of a hash map.
ExecuteSwap ==
    /\ tx # NoTx /\ Head(queue).type = "Swaps"
    /\ \E s \in Head(queue).swaps :
          /\ held' = [held EXCEPT ![s.from] = @ - s.amount,
                                  ![s.to] = @ + Returned(market, s.from, s.to, s.amount)]
          /\ market' = [market EXCEPT ![{s.from, s.to}] = Moved(@, s.from, s.to, s.amount)]
          /\ queue' = IF Head(queue).swaps = {s} THEN Tail(queue)
                      ELSE <<[Head(queue) EXCEPT !.swaps = @ \ {s}]>> \o Tail(queue)
    /\ UNCHANGED <<owner, proposal, now, config, tx>>

\* A faulty variant: no limit on the depth.
SwapBridgeAssetsEndless ==
    /\ tx # NoTx /\ Head(queue).type = "SwapBridgeAssets"
    /\ LET message == Head(queue)
           asked == [t \in message.assets |-> NoLimit]
       IN  /\ \A t \in Sold(asked) : CanSwap(t)
           /\ Sold(asked) # {}
           /\ queue' = SwapMessages(asked, message.depth) \o Tail(queue)
    /\ UNCHANGED <<owner, proposal, now, config, market, held, tx>>

\* swap_bridge_assets: all that the contract holds of the bridge tokens.
SwapBridgeAssets ==
    /\ tx # NoTx /\ Head(queue).type = "SwapBridgeAssets"
    /\ LET message == Head(queue)
           asked == [t \in message.assets |-> NoLimit]
       IN  /\ message.depth < BRIDGES_EXECUTION_MAX_DEPTH
           /\ \A t \in Sold(asked) : CanSwap(t)
           /\ Sold(asked) # {}
           /\ queue' = SwapMessages(asked, message.depth + 1) \o Tail(queue)
    /\ UNCHANGED <<owner, proposal, now, config, market, held, tx>>

Weights == [i \in DOMAIN target_list |-> target_list[i].weight]

\* distribute: what each target is paid out of `amount'.
Payouts(amount) ==
    [i \in DOMAIN target_list |-> MulRatio(amount, target_list[i].weight, Total(Weights))]

\* distribute_fees.  Targets without weight are a division by zero.
DistributeFees ==
    /\ tx # NoTx /\ Head(queue).type = "DistributeFees"
    /\ held[Stable] >= Head(queue).minimum_receive
    /\ IF held[Stable] = 0 THEN UNCHANGED held
       ELSE /\ target_list # <<>> => Total(Weights) > 0
            /\ held' = [held EXCEPT ![Stable] = @ - Total(Payouts(@))]
    /\ queue' = Tail(queue)
    /\ tx' = NoTx
    /\ UNCHANGED <<owner, proposal, now, config, market>>

\* Some message fails.
Revert ==
    /\ tx # NoTx
    /\ held' = tx.undo /\ market' = tx.market
    /\ queue' = <<>> /\ tx' = NoTx
    /\ UNCHANGED <<owner, proposal, now, config>>

\* update_config; another factory is another set of pairs.
UpdateConfig(sender, newOperator, newTargets, newPairs) ==
    /\ tx = NoTx
    /\ sender = owner
    /\ operator' = newOperator /\ target_list' = newTargets /\ pairs' = newPairs
    /\ UNCHANGED <<owner, proposal, now, bridges, market, held, queue, tx>>

\* update_bridges: `remove', then `add', then all entries are validated.
UpdateBridges(sender, add, remove) ==
    LET kept == DOMAIN bridges \ remove
        map == [t \in kept \cup DOMAIN add |-> IF t \in DOMAIN add THEN add[t] ELSE bridges[t]]
    IN  /\ tx = NoTx
        /\ sender = operator
        /\ \A t \in DOMAIN add : add[t] # t
        /\ ValidBridges(map)
        /\ bridges' = map
        /\ UNCHANGED <<owner, proposal, now, operator, target_list, pairs, market, held, queue, tx>>

\* The calls of Ownership.
Handover ==
    /\ tx = NoTx
    /\ Owner!Next
    /\ UNCHANGED <<config, market, held, queue, tx>>

\* The factory's owner registers or deregisters pairs.
FactoryChanges(newPairs) ==
    /\ tx = NoTx
    /\ pairs' = newPairs
    /\ UNCHANGED <<owner, proposal, now, operator, target_list, bridges, market, held, queue, tx>>

\* Another contract pays a fee.
ReceiveFee(t) ==
    /\ tx = NoTx
    /\ Total(held) < MaxHeld
    /\ held' = [held EXCEPT ![t] = @ + 1]
    /\ UNCHANGED <<owner, proposal, now, config, market, queue, tx>>

\* Others trade with the pairs.
OthersTrade ==
    /\ tx = NoTx
    /\ market' \in Markets
    /\ UNCHANGED <<owner, proposal, now, config, held, queue, tx>>

Asks == UNION {[ts -> Limits \cup {NoLimit}] : ts \in SUBSET FeeTokens}

Additions == {<<>>} \cup {[t \in {b[1]} |-> b[2]] : b \in Bridges}

\* The chain executes the next message of a transaction.
NextMessage == ExecuteSwap \/ SwapBridgeAssets \/ DistributeFees \/ Revert

Next ==
    \/ NextMessage
    \/ Handover
    \/ \E a \in Accounts :
          \/ \E asked \in Asks, m \in Minimums : Collect(a, asked, m)
          \/ \E o \in Accounts, l \in TargetLists, p \in PairSets : UpdateConfig(a, o, l, p)
          \/ \E add \in Additions, remove \in SUBSET DOMAIN bridges :
                UpdateBridges(a, add, remove)
    \/ \E p \in PairSets : FactoryChanges(p)
    \/ \E t \in FeeTokens : ReceiveFee(t)
    \/ OthersTrade

\* A transaction that has begun is executed; nobody has to begin one.
Spec == Init /\ [][Next]_vars /\ WF_vars(NextMessage)

-----------------------------------------------------------------------------
(* Properties *)

\* A collect that goes through leaves nothing on the way: what it was asked to
\* sell whole is gone, no token but the stablecoin is more than it was before,
\* whatever bridges the tokens share and in whatever order the pairs execute,
\* and of the stablecoin only what the truncation of the payouts leaves.
CollectLeavesDust ==
    [][DistributeFees =>
          /\ \A t \in DOMAIN tx.asked \ {Stable} : tx.asked[t] = NoLimit => held'[t] = 0
          /\ \A t \in Tokens \ {Stable} : held'[t] <= tx.undo[t]
          /\ target_list # <<>> => held'[Stable] < Len(target_list)]_vars

\* All that lies on the contract is to be collected; its stablecoin need not
\* be named.
AskedForAll ==
    \A t \in Tokens :
        IF t \in DOMAIN tx.asked THEN tx.asked[t] = NoLimit
        ELSE t = Stable \/ tx.undo[t] = 0

\* No two swaps of the rounds meet the same pair.
PairsMetOnce(rounds) ==
    \A i, j \in 1 .. BRIDGES_EXECUTION_MAX_DEPTH :
        \A t \in Selling(rounds[i - 1]), u \in Selling(rounds[j - 1]) :
            {t, SwapTarget(t)} = {u, SwapTarget(u)} => i = j /\ t = u

\* The simulation sells everything in every round, the execution only what the
\* last round brought; as long as no other tokens lie on the contract they end
\* with the same amount of the stablecoin, unless a pair is met twice: the
\* simulation asks it for both swaps as it is (contract.rs:546, utils.rs:37),
\* the second swap finds it moved by the first.
SimulationAgrees ==
    tx # NoTx /\ Head(queue).type = "DistributeFees" /\ tx.simulation.ok /\ AskedForAll
    /\ PairsMetOnce(tx.simulation.rounds)
    => held[Stable] = tx.simulation.return_amount

\* The tokens that are sold for the stablecoin in at most `hops' swaps.
Sellable(limit) ==
    LET within[hops \in 0 .. limit] ==
            IF hops = 0 THEN {Stable}
            ELSE {Stable} \cup {t \in Tokens : CanSwap(t) /\ SwapTarget(t) \in within[hops - 1]}
    IN  within[limit]

\* The swap of collect itself and those of swap_bridge_assets.
MaxHops == BRIDGES_EXECUTION_MAX_DEPTH + 1

\* update_bridges validates to one depth and swap_bridge_assets executes to
\* another: every token with a bridge reaches the stablecoin in time, unless a
\* bridge that ends at the stablecoin has a bridge of its own.
RoutesEnd ==
    [][bridges' # bridges =>
          (~(\E t \in DOMAIN bridges : bridges[t] \in DOMAIN bridges /\ HasPair(bridges[t], Stable))
           => DOMAIN bridges \subseteq Sellable(MaxHops))']_vars

\* contract.rs:446: the bridge tokens can be swapped to the stablecoin.
BridgedTokensSell ==
    [][bridges' # bridges => (DOMAIN bridges \subseteq Sellable(MaxHops))']_vars

\* A collect ends, with all of its messages executed or with none: bridges
\* that lead in a circle do not keep the contract calling itself.
CollectEnds == tx # NoTx ~> tx = NoTx

\* See Ownership.
ProposalIsOwners == Owner!ProposalIsOwners
=============================================================================
