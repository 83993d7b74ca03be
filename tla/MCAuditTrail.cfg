CONSTANTS
    Assessments <- MCAssessments
    MaxAlerts = 3
    MaxBatch = 2
    MaxFaults = 2
    MaxCrashes = 2
SPECIFICATION Spec
\* A pipeline whose chain file is unreadable stays down, and alerts end.
CHECK_DEADLOCK FALSE
INVARIANT ChainValid
INVARIANT FileBehindMemory
INVARIANT SavedSurvives
INVARIANT SaveCatchesUp
INVARIANT TrailsAgree
INVARIANT ChainVouches
PROPERTY LogSpec
