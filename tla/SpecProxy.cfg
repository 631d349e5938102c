CONSTANTS
    Users = {u1, u2, proxy}
    proxy = proxy
    Amounts = {1, 2}
    Schedules <- MCSchedules
    SCALE = 4
    MaxCopies = 1
    MaxBond = 3
    MaxChanges = 4
    MaxTime = 3
    MaxIdle = 1
SPECIFICATION ProxySpec
SYMMETRY Symmetry
INVARIANTS
    TypeOK
    BondConservation
    DistributedIsScheduled
    SolventUpToRounding
    StakersCanLeave
    DepositsCovered
PROPERTIES
    EarnedNeverFalls
    WithdrawsWhatWasAsked
    PendingIsPaid
