SPECIFICATION FairSpec
CONSTANTS
    Sessions = {s1, s2}
    None = None
    Default = s1
    MaxPrompts = 2
    MaxDirect = 2
    MaxFaults = 2
CHECK_DEADLOCK FALSE
INVARIANTS TypeOK NothingLost RunsOnce
PROPERTIES SubmittedInOrder QueueDrains
