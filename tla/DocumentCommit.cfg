CONSTANTS
    s1 = s1  s2 = s2
    Processes = {s1, s2}
    Nobody = Nobody
    NoJournal = NoJournal
    Misreads = TRUE
    MaxWrites = 2

SPECIFICATION Spec

PROPERTY CommitsAtomically

INVARIANTS
    OperatesOnCommitted
    JournalCoversWrites

CHECK_DEADLOCK FALSE
