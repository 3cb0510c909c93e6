SPECIFICATION Spec
CONSTANTS
    r1 = r1
    r2 = r2
    r3 = r3
    Rows = {r1, r2, r3}
    FreshCases = {f1, f2}
    StableCases = {s}
    StableRows <- MCStableRows
    Workers = {w1, w2}
    Offered = {"confirm", "supplement", "assign", "plan", "cancel", "release", "withdraw", "remove", "metadata", "closure"}
    Overlapping = {"confirm", "assign", "plan", "cancel", "release", "withdraw"}
    MaxVersion = 2
SYMMETRY MCSymmetry
INVARIANTS
    TypeOK
    ExclusiveOwnership
PROPERTIES
    EndsWhatItRead
    VersionsMoveForward
