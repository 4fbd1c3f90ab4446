\* Two users race on one item: toggles, removals, a refusal
SPECIFICATION Spec
CONSTANTS
    Users = {u1, u2}
    Ids = {i1}
    NONE = NONE
    Absent = Absent
    MaxWrites = 3
    MaxRejects = 1
    MaxOpens = 1
    MaxExits = 0
    Removal = TRUE
SYMMETRY Symmetry
\* the bounds end every behaviour
CHECK_DEADLOCK FALSE
INVARIANTS
    TypeOK
    NoDuplicateRows
    EveryItemListed
    GhostRowsOnlyFromLoading
    WatchedRowsFollowServer
    CheckedHasChecker
PROPERTIES
    RemovedForGood
    SharesOneTable
