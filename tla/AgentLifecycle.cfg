SPECIFICATION LiveSpec
CONSTANTS
    Attempts = {c1, c2}
    Nobody = Nobody
INVARIANTS
    RejectionLeavesNothing
    CreationsArePaired
    WorkIsRegistered
    StoredIdentityHasOneUser
    UnloadLeavesNoneBehind
PROPERTY TeardownsConverge
CHECK_DEADLOCK FALSE
