CONSTANTS
    r1 = r1  r2 = r2  r3 = r3  l1 = l1  pA = pA  pB = pB
    Reviews = {r1, r2, r3}
    Listers = {l1}
    Mover = Mover
    Paths = {pA, pB}
    Home <- MoveHome
    Stored = {r1, r2}
    From = pA
    To = pB
    Nowhere = Nowhere
    NoIndex = NoIndex
    Free = Free
    MaxFaults = 2

SPECIFICATION Spec

INVARIANT
    RetrySetRemains

CHECK_DEADLOCK FALSE
