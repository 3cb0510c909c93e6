SPECIFICATION MCFairSpec
CONSTANTS
    MaxEvents = 2
    Workers = {w1, w2}
    w1 = w1
    w2 = w2
    NoWorker = NoWorker
    Kinds = {"sync", "targeted", "cleanup"}
    Handled = {"sync", "targeted"}
    MaxAttempts = 2
    MaxParts = 1
    MaxFaults = 1
    MaxOperator = 1
CHECK_DEADLOCK FALSE
INVARIANTS
    FenceIsExact
    NoPileUp
    PendingKeysUnique
    SupersededIsAnswered
    DoneMeansServed
    AttemptsAreTries
    WorkIsBounded
PROPERTIES
    SettledIsSettled
    EventComesToRest
