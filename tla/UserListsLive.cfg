\* Nothing is removed or refused: loading ends, every list arrives, and the register is kept.
SPECIFICATION FairSpec
CONSTANTS
    Users = {u1, u2}
    Apps = {a1, a2}
    Lists = {l1, l2}
    Absent = Absent
    MaxWrites = 1
    MaxRejects = 0
    MaxOpens = 1
    MaxExits = 1
    Inviting = TRUE
    Removal = FALSE
\* the bounds end every behaviour
CHECK_DEADLOCK FALSE
INVARIANTS
    NoBadCast
    KeysNameLists
PROPERTIES
    SharesOneRegister
    LoadEnds
    EveryListArrives
