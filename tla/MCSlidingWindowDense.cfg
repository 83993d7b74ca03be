CONSTANTS
    WindowMs = 5
    SlideMs = 2
    MaxUntimestamped = 2
    Sources = {s1, s2}
    FirstMs = 0
    MaxGap = 4
    Deltas <- MCDenseDeltas
    NoEmit = NoEmit
    NoSources = NoSources
    MaxSequence = 5
    MaxWindows = 5
SPECIFICATION Spec
\* The stream ends (MaxSequence) and is flushed: the model stops there.
CHECK_DEADLOCK FALSE
INVARIANT TypeOK
INVARIANT NoFlowLost
INVARIANT HorizonBounded
INVARIANT ExpiryAccounted
INVARIANT WindowsNearlyExact
PROPERTY WindowsTile
