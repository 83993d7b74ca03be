CONSTANTS
    Keys = {k1, k2}
    NoKey = NoKey
    BadKey = BadKey
    QueueSize = 2
    MaxPackets = 3
    MaxFlows = 1
    DrainLimit = 2
    NoReport = NoReport
SPECIFICATION Spec
\* process_live returns or raises, and then the model stops.
CHECK_DEADLOCK FALSE
INVARIANT TypeOK
INVARIANT PacketsConserved
INVARIANT LossIsVisible
INVARIANT ReportFinal
INVARIANT FlowsDisjoint
PROPERTY Terminates
