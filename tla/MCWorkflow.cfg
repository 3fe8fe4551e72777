SPECIFICATION Spec
CONSTANTS
    a = a
    b = b
    c = c
    Tasks = {a, b, c}
    Deps <- MCDeps
    AllowError = {b}
    Aggregates = {}
    MaxAttempts <- MCMaxAttempts
    Workers = {w1, w2}
    MaxInflight = 2
    Clients = {c1}
    HasDeadline = TRUE
    HasLimits = TRUE
    MaxCancels = 1
    MaxCrashes = 0
SYMMETRY MCSymmetry
CHECK_DEADLOCK FALSE
INVARIANTS TypeOK OneWorkerPerTask VerdictWitnessed
PROPERTIES DepsFirst
