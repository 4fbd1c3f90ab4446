\* A toggle that comes after a removal
SPECIFICATION Spec
CONSTANTS
    Users = {u1, u2}
    Ids = {i1}
    NONE = NONE
    Absent = Absent
    MaxWrites = 2
    MaxRejects = 0
    MaxOpens = 1
    MaxExits = 0
    Removal = TRUE
SYMMETRY Symmetry
\* the bounds end every behaviour
CHECK_DEADLOCK FALSE
INVARIANTS
    DeserializedItemsAreComplete
