SPECIFICATION Spec
CONSTANTS
    r1 = r1
    r2 = r2
    r3 = r3
    Rows = {r1, r2, r3}
    FreshCases = {f1, f2}
    StableCases = {}
    StableRows <- MCStableRows
    Workers = {w1, w2}
    Offered = {"confirm", "release", "remove"}
    Overlapping = {"confirm", "remove"}
    MaxVersion = 2
SYMMETRY MCSymmetry
INVARIANTS
    ExclusiveOwnership
