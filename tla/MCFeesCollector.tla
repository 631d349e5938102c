-------------------------- MODULE MCFeesCollector --------------------------
EXTENDS FeesCollector

CONSTANTS a, b, c, luna, usd, x, y

MCTokens == {a, b, c, luna, usd}

\* A chain of four swaps to the stablecoin, and a short cut from b.
Chain == {{a, b}, {b, c}, {c, luna}, {luna, usd}}

MCPairSets == {Chain, Chain \cup {{b, usd}}}

MCBridges == {<<a, b>>, <<b, c>>, <<c, luna>>, <<b, a>>}

\* The pair of b and c halves what goes in; that of b and the stablecoin, once
\* it has been sold to, keeps 1.
MCPairStates == 0 .. 1

MCReturn(state, from, to, amount) ==
    IF {from, to} = {b, c} THEN amount \div 2
    ELSE IF amount < state THEN 0 ELSE amount - state

MCMoved(state, from, to, amount) == IF {from, to} = {b, usd} THEN 1 ELSE state

MCMarkets == {[p \in {{s, t} : s, t \in Tokens} |-> 0]}

MCTargetLists ==
    {<<[to |-> x, weight |-> 1], [to |-> y, weight |-> 1]>>, <<[to |-> x, weight |-> 0]>>}
=============================================================================
