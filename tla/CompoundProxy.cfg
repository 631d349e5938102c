CONSTANTS
    luna = luna
    usd = usd
    astro = astro
    middle = middle
    mine = mine
    spare = spare
    A = luna
    B = usd
    RewardTokens = {luna, usd, astro, mine, spare}
    Natives = {usd, astro}
    Routes <- MCRoutes
    PairStates <- MCPairStates
    Return <- MCReturn
    Moved <- MCMoved
    Markets <- MCMarkets
    Amounts = {0, 1, 40}
    MaxRewards = 2
    COMMISSION_DENOM = 100
    AMP_PRECISION = 100
    ITERATIONS = 32
    Commission = 10
    MakerFees = {0, 50}
    Leverage = 1000
    PairTypes = {"Xyk", "Stable", "Custom"}
    Pools <- MCPools
    MaxIdle = 1
SPECIFICATION Spec
INVARIANTS
    TypeOK
    SaleIsBest
    InvariantFound
PROPERTIES
    IdleStays
    SimulationIsKept
