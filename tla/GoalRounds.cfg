SPECIFICATION LiveSpec
CONSTANTS
    Messages = {m1}
    NoRound = NoRound
    MaxRounds = 2
    MaxChanges = 2
INVARIANT FenceIsSound
PROPERTIES
    RoundsYield
    ArmedGoalsMoveOn
CHECK_DEADLOCK FALSE
