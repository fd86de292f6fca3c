SPECIFICATION MCSpec
CONSTANTS
    Lifecycles = {s1, s2}
    Calls = {c1, c2}
    Nobody = Nobody
    MaxEvents = 2
    MaxReloads = 1
SYMMETRY MCSymmetry
VIEW MCView
INVARIANTS
    LogIsOwners
    CursorIsExact
    ReservationIsCurrent
    NobodyIsForgotten
PROPERTY RepairSparesTheLiving
CHECK_DEADLOCK FALSE
