CONSTANTS
    e1 = e1  e2 = e2  d1 = d1  d2 = d2  m1 = m1  m2 = m2
    Executions = {e1, e2}
    Deletions = {d1, d2}
    Models = {m1}
    NoRecord = NoRecord
    NoModel = NoModel
    MaxConcurrency = 2
    MaxRevision = 1

SPECIFICATION Spec

PROPERTY CredentialOutlivesLease

CHECK_DEADLOCK FALSE
