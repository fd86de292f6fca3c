SPECIFICATION LiveSpec
CONSTANTS
    NoMessage = NoMessage
    Messages = {m1, m2}
    Calls = {}
    MaxSteps = 2
INVARIANTS
    DriverMatchesLog
    OneOrdinaryMessagePerTurn
    NoStrandedWake
PROPERTIES
    ImplementsSessionLog
    OutcomeIsTruthful
    WhenIdleMeansQuiescent
    AbortConverges
    OwedIsSettled
