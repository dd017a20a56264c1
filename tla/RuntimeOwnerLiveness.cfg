SPECIFICATION FairSpec
CONSTANTS
    Instances = {i1, i2}
    Requests = {r1, r2}
    Payloads = {pl}
    RecordLimit = 2
    PatientTimer = FALSE
    MaxSeq = 0
    MaxDeaths = 1
    None = None
PROPERTIES
    Settles
