SPECIFICATION FairSpec
CONSTANTS
    a = a
    b = b
    c = c
    Tasks = {a, b, c}
    Deps <- MCDeps
    AllowError = {b}
    Aggregates = {}
    MaxAttempts <- MCMaxAttempts
    Workers = {w1, w2}
    MaxInflight = 2
    Clients = {}
    HasDeadline = TRUE
    HasLimits = FALSE
    MaxCancels = 0
    MaxCrashes = 0
CHECK_DEADLOCK FALSE
PROPERTIES SettlesWithTasks
