SPECIFICATION Spec
CONSTANTS
    Instances = {i1, i2}
    Requests = {r1, r2}
    Payloads = {pl}
    RecordLimit = 2
    PatientTimer = FALSE
    MaxSeq = 2
    MaxDeaths = 1
    None = None
SYMMETRY Symmetry
INVARIANTS
    TypeOK
    ConnectionUnderGuard
    AtMostOnce
    JobEventsInWindow
    UnfinishedInHand
PROPERTIES
    TerminalIsFinal
    ImplementsJobService
CHECK_DEADLOCK TRUE
