CONSTANTS
    Entry = "entry"
    Stop = "stop"
    Close = "close"
    Commands = {c1}
    Setups <- LateFillSetups
SPECIFICATION Spec
INVARIANTS
    FillsBeforeTerminal
