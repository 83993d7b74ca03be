CONSTANTS
    Flows = {"f1", "f2", "f3"}
    FlowId <- MCFlowId
    Endpoint <- MCEndpoint
    Windows <- MCWindows
    Offenders = {"e1"}
    RuleScores = {90}
    RequireHash = TRUE
    Artifacts <- MCArtifacts
    CtiOutcomes <- MCCtiOutcomes
    DedupWindow = 0
    MaxDetections = 9
    MaxClock = 1
    MaxCalls = 2
    MaxWindows = 2
    MaxLoads = 1
SPECIFICATION Spec
\* The bounds on calls, detections and time stop the model, never the program.
CHECK_DEADLOCK FALSE
INVARIANT RiskExplained
 
INVARIANT EveryAlertAccounted
