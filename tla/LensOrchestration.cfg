CONSTANTS
    i1 = i1  i2 = i2  i3 = i3
    Reservations = {i1, i2, i3}
    Dimensions <- TwoDimensions
    Limit <- UnequalLimit
    Usages <- SmallUsages
    MaxConcurrency = 2
    MaxRetries = 2
    MaxAttempts = 3
    LensCount = 3
    Concurrency = 2
    Oversized = {3}

SPECIFICATION FairLensSpec

INVARIANTS
    WithinLimitsUntilExhausted
    ReservedIsHeld
    OverspendIsTold
    FindingsSurvive
    BlameIsDue

PROPERTIES
    ExhaustionSticks
    SpendingStops
    ReviewEnds

CHECK_DEADLOCK FALSE
