CONSTANTS
    Users = {u1}
    Amounts = {1, 2}
    Schedules <- MCMoreSchedules
    SCALE = 4
    MaxCopies = 1
    MaxBond = 3
    MaxChanges = 4
    MaxTime = 4
SPECIFICATION Spec
PROPERTY BegunEntriesAreKept
