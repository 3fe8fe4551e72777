SPECIFICATION Spec
CONSTANTS
    JobIds = {j1}
    Requests = {r1}
    Workers = {w1}
    Admins = {a1}
    AdminOps = {"cancel", "delete"}
    RunOutcomes <- MCOutcomes
    MaxSubmits = 2
    MaxCrashes = 1
    MaxDrains = 0
CHECK_DEADLOCK FALSE
INVARIANTS TypeOK OutcomeWitnessed
PROPERTIES TerminalSticky NoResumeAfterSettled ActsAsRecord
