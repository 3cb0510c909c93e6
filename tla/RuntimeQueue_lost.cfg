SPECIFICATION Spec
CONSTANTS
    MaxEvents = 1
    Workers = {w1, w2}
    w1 = w1
    w2 = w2
    NoWorker = NoWorker
    Kinds = {"targeted"}
    Handled = {"targeted"}
    MaxAttempts = 2
    MaxParts = 0
    MaxFaults = 2
    MaxOperator = 0
CHECK_DEADLOCK FALSE
PROPERTIES
    OwnerCommits
