CONSTANTS
    Keys = {k1, k2}
    NoKey = NoKey
    BadKey = BadKey
    QueueSize = 2
    MaxPackets = 3
    MaxFlows = 1
    DrainLimit = 2
    NoReport = NoReport
SPECIFICATION Spec
CHECK_DEADLOCK FALSE
INVARIANT StateBounded
