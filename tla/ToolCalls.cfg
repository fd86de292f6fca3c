SPECIFICATION LiveSpec
CONSTANTS
    NumCalls = 3
    Calls = {1, 2, 3}
    MaxParallel = 2
INVARIANTS
    ExclusiveIsABarrier
    BatchIsSettled
    CancellationIsTruthful
PROPERTIES
    ObeysSessionGrammar
    BatchEnds
CHECK_DEADLOCK FALSE
