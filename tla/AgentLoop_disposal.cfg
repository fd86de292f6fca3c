SPECIFICATION Spec
CONSTANTS
    NoMessage = NoMessage
    Messages = {m1, m2}
    Calls = {}
    MaxSteps = 2
INVARIANT DisposalNeverLatches
