SPECIFICATION FairSpec
CONSTANTS
    MaxMsgs = 2
    MaxAsked = 2
    MaxFaults = 2
    MaxTotal = 3
    MaxRestarts = 1
    Agents = {"claude", "gemini"}
    Fallbacks <- MCFallbacks
CHECK_DEADLOCK FALSE
INVARIANTS TypeOK HeldOnce  Attended
PROPERTIES Drains
