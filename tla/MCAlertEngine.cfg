CONSTANTS
    Keys = {k1, k2}
    Severities <- MCSeverities
    EventTimes <- MCEventTimes
    DedupWindow = 1
    MaxHistory = 2
    MaxDetections = 4
    MaxClock = 2
SPECIFICATION Spec
SYMMETRY Symmetry
\* The bounds on detections and time stop the model, never the engine.
CHECK_DEADLOCK FALSE
INVARIANT TypeOK
INVARIANT HistorySound
INVARIANT RepeatsOnlyEscalate
INVARIANT SuppressionJustified
INVARIANT EscalationPaired
