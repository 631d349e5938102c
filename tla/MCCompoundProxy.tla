-------------------------- MODULE MCCompoundProxy --------------------------
EXTENDS CompoundProxy

CONSTANTS luna, usd, astro, middle, mine, spare

\* astro is sold for luna over middle, the route written the other way, mine
\* for the stablecoin, and spare for the stablecoin over the pair itself.
MCRoutes == [t \in {astro, mine, spare} |->
                IF t = astro THEN <<luna, middle, astro>>
                ELSE IF t = mine THEN <<mine, usd>> ELSE <<spare, luna, usd>>]

\* A pair that has been sold to returns less.
MCPairStates == 0 .. 1

MCReturn(state, from, to, amount) ==
    LET fair == IF from = astro THEN 2 * amount ELSE amount
    IN  IF state = 0 THEN fair ELSE fair \div 2

MCMoved(state, from, to, amount) == 1

MCMarkets == {[p \in UNION {RoutePairs(t) : t \in DOMAIN Routes} |-> 0]}

MCPools(type) ==
    LET uneven == {[a |-> 40, b |-> 90, total |-> 60]}
    IN  IF type = "Stable"
        THEN {[a |-> 100, b |-> 100, total |-> 100], [a |-> 16, b |-> 240, total |-> 210]}
        ELSE IF type = "Custom" THEN uneven
        ELSE uneven \cup {[a |-> 0, b |-> 0, total |-> 0], [a |-> 100, b |-> 30, total |-> 54]}
=============================================================================
