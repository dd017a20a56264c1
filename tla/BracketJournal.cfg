CONSTANTS
    Entry = "entry"
    Stop = "stop"
    Close = "close"
    Commands = {c1}
    Setups <- JournalSetups
SPECIFICATION FairSpec
PROPERTIES
    FillsReachJournal
