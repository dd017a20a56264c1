CONSTANTS
    Entry = "entry"
    Stop = "stop"
    Close = "close"
    Commands = {c1}
    Setups <- ExpiredSetups
SPECIFICATION Spec
INVARIANTS
    TerminalStopRefused
