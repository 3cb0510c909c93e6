SPECIFICATION Spec
CONSTANTS
    None = None
    Attempts = {1}
    Keys = {k1}
    Rows = {r1}
    MaxVersion = 2
PROPERTIES
    ImportStands
