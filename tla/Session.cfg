\* Two accounts and one device
SPECIFICATION FairSpec
CONSTANTS
    Accounts = {u1, u2}
    None = None
    Never = Never
    MaxStarts = 2
    MaxPresses = 2
    MaxFailures = 1
\* the bounds end every behaviour
CHECK_DEADLOCK FALSE
INVARIANTS
    TypeOK
    ListsOfOneUser
    HudIsOwed
    EnablingIsOwed
PROPERTIES
    OneListsScreen
    HudEnds
    ListsEnabled
