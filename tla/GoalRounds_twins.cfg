SPECIFICATION Spec
CONSTANTS
    Messages = {m1}
    NoRound = NoRound
    MaxRounds = 2
    MaxChanges = 2
INVARIANT OneReservation
CHECK_DEADLOCK FALSE
