SPECIFICATION Spec
CONSTANTS
    Instances = {i1, i2}
    Requests = {r1, r2}
    Payloads = {pl}
    RecordLimit = 2
    PatientTimer = TRUE
    MaxSeq = 1
    MaxDeaths = 1
    None = None
INVARIANTS
    GuardOutlivesHost
