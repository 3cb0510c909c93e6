SPECIFICATION MCFairSpec
CONSTANTS
    e1 = e1
    e2 = e2
    e3 = e3
    w1 = w1
    w2 = w2
    NoWorker = NoWorker
    Jobs = {j1, j2}
    ManualJobs = {j2}
    Executors = {e1, e3}
    Workers = {w1, w2}
    WorkerOf <- MCWorkerOf
    Users = {u1}
    MaxAttempts = 2
    MaxAttachments = 1
    MaxCommands = 1
PROPERTIES
    TaskComesToRest
