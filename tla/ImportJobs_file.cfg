SPECIFICATION Spec
CONSTANTS
    e1 = e1
    e2 = e2
    e3 = e3
    w1 = w1
    w2 = w2
    NoWorker = NoWorker
    Jobs = {j1}
    ManualJobs = {}
    Executors = {e1, e2}
    Workers = {w1, w2}
    WorkerOf <- MCWorkerOf
    Users = {u1}
    MaxAttempts = 2
    MaxAttachments = 0
    MaxCommands = 2
SYMMETRY Incarnations
INVARIANTS
    FactsMatchOutcome
    SingleOwner
    VersionIdentifiesPage
    RetryBudget
    HiddenIsOver
PROPERTIES
    EndIsFinal
    SettleUndoesNothing
    KeepsPromise
