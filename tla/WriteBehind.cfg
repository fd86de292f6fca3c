SPECIFICATION LiveSpec
CONSTANTS
    Callers = {f1, f2}
    Retirement = Retirement
    MaxEvents = 3
INVARIANTS
    NothingLostOrReordered
    NoStrandedEvents
PROPERTIES
    ImplementsDurableLog
    FlushEnds
CHECK_DEADLOCK FALSE
