CONSTANTS
    Entry = "entry"
    Stop = "stop"
    Close = "close"
    Commands = {c1}
    Setups <- ReadBackSetups
SPECIFICATION Spec
INVARIANTS
    ReadBackTakesEffect
