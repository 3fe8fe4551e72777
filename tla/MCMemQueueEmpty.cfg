SPECIFICATION Spec
CONSTANTS
    MaxMsgs = 2
    MaxAsked = 2
    MaxFaults = 1
    MaxTotal = 3
    MaxRestarts = 1
    Agents = {"gemini"}
    Fallbacks <- MCFallbacks
CHECK_DEADLOCK FALSE
PROPERTIES ConfirmsTheAnswered
