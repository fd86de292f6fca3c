SPECIFICATION Spec
CONSTANTS
    Calls <- TwoCalls
    MaxTurns = 2
    MaxSteps = 2
    MaxCrashes = 2
INVARIANTS
    LogStaysGrammatical
    EffectsAreOnRecord
    NotStartedIsTrue
    RepairIsRestartable
PROPERTY RepairAnswersEveryCall
CHECK_DEADLOCK FALSE
