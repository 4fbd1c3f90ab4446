\* Two devices, invitations and removals, two refusals and a kill.
SPECIFICATION Spec
CONSTANTS
    Users = {u1, u2}
    Apps = {a1, a2}
    Lists = {l1, l2}
    Absent = Absent
    MaxWrites = 2
    MaxRejects = 2
    MaxOpens = 1
    MaxExits = 1
    Inviting = TRUE
    Removal = TRUE
SYMMETRY Symmetry
\* the bounds end every behaviour
CHECK_DEADLOCK FALSE
INVARIANTS
    TypeOK
    NoDuplicateLists
    RowsFollowKeys
    ListsAreConnected
    CounterMatchesReads
    LoadIsOwed
PROPERTIES
    ListRemovedForGood
