\* What the screens call today: nobody removes an item, nothing is refused
SPECIFICATION FairSpec
CONSTANTS
    Users = {u1, u2}
    Ids = {i1}
    NONE = NONE
    Absent = Absent
    MaxWrites = 2
    MaxRejects = 0
    MaxOpens = 1
    MaxExits = 1
    Removal = FALSE
\* the bounds end every behaviour
CHECK_DEADLOCK FALSE
INVARIANTS
    NoCrash
PROPERTIES
    LoadingEnds
    EveryItemArrives
