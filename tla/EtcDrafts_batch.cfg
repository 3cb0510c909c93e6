SPECIFICATION Spec
CONSTANTS
    None = None
    Attempts = {1, 2}
    Keys = {k1, k2}
    Rows = {r1, r2}
    MaxVersion = 5
SYMMETRY Interchangeable
INVARIANTS
    NoOrphanDraft
    OneDraft
    DraftIsOfTheBatch
    TaskTellsTheTruth
PROPERTIES
    EndsAreFinal
