CONSTANTS
    r1 = r1
    denied = denied
    raw = raw
    Requests = {r1, denied, raw}
    Unsupported = {}
    Denied = {denied}
    Garbled = {raw}
    Stamped <- StampedLate
    BlockSize = 2
    MaxHeight = 2
    MaxPolls = 2
    MaxFaults = 1
    MaxCrashes = 2
SPECIFICATION FairSpec
INVARIANTS NoDoubleExecution DivergenceContained HealthyNeverHalts
    AnswersAreTrue ReadYourWrites
PROPERTY Recovers
CHECK_DEADLOCK FALSE
