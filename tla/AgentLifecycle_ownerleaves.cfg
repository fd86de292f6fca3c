SPECIFICATION Spec
CONSTANTS
    Attempts = {c1, c2}
    Nobody = Nobody
SYMMETRY AttemptSymmetry
INVARIANTS
    OwnerAwaitsQuiescence
CHECK_DEADLOCK FALSE
