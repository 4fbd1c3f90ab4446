\* Killing the app and opening the list again, two writes on the way, one refusal
SPECIFICATION Spec
CONSTANTS
    Users = {u1, u2}
    Ids = {i1}
    NONE = NONE
    Absent = Absent
    MaxWrites = 2
    MaxRejects = 1
    MaxOpens = 2
    MaxExits = 1
    Removal = TRUE
SYMMETRY Symmetry
\* the bounds end every behaviour
CHECK_DEADLOCK FALSE
INVARIANTS
    LoadingComesFirst
    GhostRowsOnlyFromLoading
