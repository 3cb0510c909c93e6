SPECIFICATION Spec
CONSTANTS
    MaxEvents = 1
    Workers = {w1, w2}
    w1 = w1
    w2 = w2
    NoWorker = NoWorker
    Kinds = {"sync"}
    Handled = {"sync"}
    MaxAttempts = 2
    MaxParts = 0
    MaxFaults = 6
    MaxOperator = 0
CHECK_DEADLOCK FALSE
INVARIANTS
    AttemptsBounded
