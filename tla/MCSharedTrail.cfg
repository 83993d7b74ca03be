CONSTANTS
    Pipelines = {p1, p2}
    MaxAlerts = 3
    MaxBatch = 2
    MaxFaults = 0
SPECIFICATION Spec
SYMMETRY Symmetry
\* The bound on alerts stops the model, and an unreadable file every start.
CHECK_DEADLOCK FALSE
INVARIANT SavedStays
