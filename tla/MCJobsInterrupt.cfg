SPECIFICATION Spec
CONSTANTS
    JobIds = {j1}
    Requests = {r1}
    Workers = {w1}
    Admins = {}
    AdminOps = {}
    RunOutcomes <- MCOutcomes
    MaxSubmits = 1
    MaxCrashes = 0
    MaxDrains = 0
CHECK_DEADLOCK FALSE
PROPERTIES InterruptedOnlyAtStart
