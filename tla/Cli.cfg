SPECIFICATION Spec
CONSTANTS
    StreamLen = 3
    Expand = 5
    Hold = 4
    StrictHold = 10
    Atom = 1
    Flushes = FALSE
    BUF = 2
    MaxExtra = 1
INVARIANTS InputSafe ExitTellsTruth
PROPERTIES OldOutputKept
CHECK_DEADLOCK FALSE
