CONSTANTS
    w1 = w1  w2 = w2  m1 = m1  m2 = m2
    Months = {m1}
    Executors = {w1, w2}
    RunIds = {1, 2, 3, 4}
    BatchSize = 1
    MaxAttempts = 2
    MaxFacts = 2
    MaxVersion = 2
    MaxFails = 2
    Crashes = 1
    Slows = 1
    Retries = 1
SPECIFICATION MCFairSpec
INVARIANTS CompletedIsFresh FlagIsForThisRun StampIsHonest
PROPERTIES RetryIsForTheEndingSeen ScopesComeToRest
CHECK_DEADLOCK FALSE
