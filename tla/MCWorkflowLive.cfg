SPECIFICATION FairSpec
CONSTANTS
    a = a
    b = b
    c = c
    Tasks = {a, b, c}
    Deps <- MCDeps
    AllowError = {}
    Aggregates = {c}
    MaxAttempts <- MCMaxAttempts
    Workers = {w1, w2}
    MaxInflight = 2
    Clients = {}
    HasDeadline = FALSE
    HasLimits = FALSE
    MaxCancels = 0
    MaxCrashes = 1
CHECK_DEADLOCK FALSE
PROPERTIES NeverRerun WorkflowSettles
