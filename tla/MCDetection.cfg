CONSTANTS
    s1 = s1
    s2 = s2
    v1 = v1
    v2 = v2
    NoQuery = NoQuery
    Thresholds <- MCThresholds
    Defaults <- MCDefaults
    Domain <- MCDomain
    Readers <- MCReaders
    Detectors <- MCDetectors
    Hosts <- MCHosts
    Kinds <- MCKinds
    Steps <- MCSteps
    StartTime = 1000
    MaxFlows = 2
    MaxPackets = 3
    MaxAnalyses = 3
SPECIFICATION Spec
INVARIANT ExtractionAgrees
INVARIANT CountersAddUp
INVARIANT NoTargetMasked
INVARIANT BeaconsReal
INVARIANT BeaconsSeen
INVARIANT VolumeNeeded
PROPERTY HandshakeClears
CHECK_DEADLOCK FALSE
