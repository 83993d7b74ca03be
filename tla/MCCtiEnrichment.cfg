CONSTANTS
    i1 = i1
    i2 = i2
    d1 = d1
    local = local
    threatfox = threatfox
    urlhaus = urlhaus
    Addresses = {i1, i2}
    Domains = {d1}
    NoIndicator = NoIndicator
    Providers = {local, threatfox, urlhaus}
    Feeds <- MCFeeds
    Malformed = {i2}
    Kind <- MCKind
    MaxRequests = 2
    WindowLen = 2
    CacheTtl = 2
    NotCached = NotCached
    NotEnriched = NotEnriched
    MaxAlerts = 2
    MaxClock = 3
SPECIFICATION Spec
\* The bounds on alerts and time stop the model.
CHECK_DEADLOCK FALSE
INVARIANT TypeOK
INVARIANT RateLimitHolds
INVARIANT SkipIsVisible
INVARIANT ContributionExact
INVARIANT VerdictsGrounded
PROPERTY RejectsOnlyWhenFull
