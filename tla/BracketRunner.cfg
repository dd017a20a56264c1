CONSTANTS
    Entry = "entry"
    Stop = "stop"
    Close = "close"
    Commands = {c1}
    Setups <- RunnerSetups
SPECIFICATION Spec
INVARIANTS
    RunnerKept
