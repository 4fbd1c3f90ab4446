\* One user, two items, two loads: order of the rows and progress of loading
SPECIFICATION FairSpec
CONSTANTS
    Users = {u1}
    Ids = {i1, i2}
    NONE = NONE
    Absent = Absent
    MaxWrites = 2
    MaxRejects = 1
    MaxOpens = 2
    MaxExits = 1
    Removal = TRUE
\* the bounds end every behaviour
CHECK_DEADLOCK FALSE
INVARIANTS
    EveryItemListed
    LoadingIsOwed
PROPERTIES
    LoadingEnds
    EveryItemArrives
