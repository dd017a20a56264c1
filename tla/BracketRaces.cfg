CONSTANTS
    Entry = "entry"
    Stop = "stop"
    Close = "close"
    Commands = {c1}
    Setups <- RaceSetups
SPECIFICATION Spec
INVARIANTS
    TypeOK
    Protected
    TargetsWithinFills
    DeadIsDead
    FlatIsQuiet
    OneCloser
PROPERTIES
    SiblingsBeforeTrigger
