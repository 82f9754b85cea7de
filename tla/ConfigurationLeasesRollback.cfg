CONSTANTS
    e1 = e1  e2 = e2  d1 = d1  d2 = d2  m1 = m1  m2 = m2
    Executions = {e1}
    Deletions = {d1}
    Models = {m1}
    NoRecord = NoRecord
    NoModel = NoModel
    MaxConcurrency = 1
    MaxRevision = 2

SPECIFICATION Spec

PROPERTY DiscardedIsUnreferenced

CHECK_DEADLOCK FALSE
