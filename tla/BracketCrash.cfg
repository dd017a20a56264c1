CONSTANTS
    Entry = "entry"
    Stop = "stop"
    Close = "close"
    Commands = {c1}
    Setups <- CrashSetups
SPECIFICATION FairSpec
INVARIANTS
    NeverResent
    OnRecordFirst
    FillsCountOnce
    Protected
PROPERTIES
    AppendsAreLegal
    ProtectionUnlessCut
