CONSTANTS
    r1 = r1  r2 = r2  r3 = r3  r4 = r4
    p1 = p1  p2 = p2
    f1 = f1  f2 = f2  f3 = f3
    Reviews = {r1, r2, r3, r4}
    Projects = {p1, p2}
    NoInput = NoInput
    Unverifiable = Unverifiable
    ProjectOf <- MCProjectOf
    InputOf <- MCInputOf
    ScopeOf <- MCScopeOf
    GitStateOf <- MCGitStateOf
    FingerprintOf <- MCFingerprintOf
    MaxSessions = 2
    MaxGeneration = 1

SPECIFICATION MCSpec

INVARIANTS
    DurableNotDisowned
    LeaseHeldByLiveWork
    NoLiveDuplicate
    OnePendingReviewPerProject
    RevocationFence

PROPERTIES
    EvictionSparesLiveWork
    OutcomeIsDecided
    LeasesReleased
    SessionsEnd

CHECK_DEADLOCK FALSE
