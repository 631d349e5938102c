CONSTANTS
    a = a
    b = b
    c = c
    luna = luna
    usd = usd
    x = x
    y = y
    Accounts = {x, y}
    MAX_PROPOSAL_TTL = 1
    Expiries = {0, 2}
    MaxTime = 1
    Tokens <- MCTokens
    Stable = usd
    Luna = luna
    FeeTokens = {a, b}
    Bridges <- MCBridges
    BRIDGES_MAX_DEPTH = 2
    BRIDGES_EXECUTION_MAX_DEPTH = 3
    PairSets <- MCPairSets
    PairStates <- MCPairStates
    Return <- MCReturn
    Moved <- MCMoved
    Markets <- MCMarkets
    TargetLists <- MCTargetLists
    Limits = {2}
    NoLimit = NoLimit
    Minimums = {0, 1}
    MaxHeld = 3
SPECIFICATION Spec
INVARIANTS
    TypeOK
    SimulationAgrees
    ProposalIsOwners
PROPERTIES
    CollectLeavesDust
    RoutesEnd
    CollectEnds
