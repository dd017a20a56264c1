CONSTANTS
    Entry = "entry"
    Stop = "stop"
    Close = "close"
    Commands = {c1}
    Setups <- StrandedSetups
SPECIFICATION FairSpec
PROPERTIES
    ProtectionArrives
