SPECIFICATION MCSpec
CONSTANTS
    Jobs = {j1, j2}
    Owners = {a1}
    NoOwner = NoOwner
    Waits = {w1, w2}
    MaxActive = 1
INVARIANTS
    CompletionIsToldOnce
    TeardownLeavesNothing
PROPERTIES
    TeardownIsQuiet
    DisposalsAndWaitsEnd
CHECK_DEADLOCK FALSE
