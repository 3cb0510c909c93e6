SPECIFICATION MCSpec
CONSTANTS
    o1 = o1
    o2 = o2
    None = None
    OA = {o1, o2}
    InProgress = {o2}
    Cases = {c1, c2}
    Shapes <- MCShapes
    MaxEvents = 2
    MaxRemovals = 1
    MaxTries = 2
    MaxUpsets = 3
SYMMETRY MCSymmetry
INVARIANTS
    StatusFollowsRelations
    PageFollowsStatus
PROPERTIES
    FailureStands
    OnlyTheGoneAreRemoved
