CONSTANTS
    c1 = c1  c2 = c2  c3 = c3
    Contenders = {c1, c2, c3}
    Absent = Absent
    Empty = Empty

SPECIFICATION Spec

SYMMETRY Symmetry

INVARIANTS
    MutualExclusion
    NothingLeftBehind

PROPERTY LiveMarkerStays

CHECK_DEADLOCK FALSE
