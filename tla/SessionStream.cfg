CONSTANTS
    c1 = c1  c2 = c2
    Clients = {c1, c2}
    Cap = 2
    MaxEvents = 8

SPECIFICATION FairSpec

PROPERTY StreamsEnd

INVARIANTS
    BufferSound
    StreamsInOrder
    EndedStreamIsComplete
    LossIsAnnounced
    NothingNewAfterRevocation

CHECK_DEADLOCK FALSE
