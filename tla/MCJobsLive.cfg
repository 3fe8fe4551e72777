SPECIFICATION FairSpec
CONSTANTS
    JobIds = {j1}
    Requests = {r1}
    Workers = {w1}
    Admins = {a1}
    AdminOps = {"cancel"}
    RunOutcomes <- MCOutcomes
    MaxSubmits = 1
    MaxCrashes = 1
    MaxDrains = 1
CHECK_DEADLOCK FALSE
INVARIANTS NoOrphan
PROPERTIES JobSettles
