CONSTANTS
    s1 = s1  s2 = s2
    p1 = p1  p2 = p2
    remove1 = remove1  grant1 = grant1  deny2 = deny2  deny1 = deny1
    Servers = {s1, s2}
    Projects = {p1, p2}
    Requests = {remove1, grant1, deny2, deny1}
    ServerOf <- MCServerOf
    ProjectOf <- MCProjectOf
    WantOf <- MCWantOf
    Original = Original
    OriginalOf <- MCOriginalOf
    Nobody = Nobody
    MaxFailures = 1

SPECIFICATION Spec

INVARIANTS
    MemoryIsGenuine
    RemovalEndsReviews

PROPERTY RecordsIndependent

CHECK_DEADLOCK FALSE
