\* One invited user, two lists, kills and log-outs
SPECIFICATION Spec
CONSTANTS
    Lists = {l1, l2}
    None = None
    MaxSends = 1
    MaxRejects = 1
    MaxLogIns = 2
    MaxAnswers = 1
    MaxShows = 1
SYMMETRY Symmetry
\* the bounds end every behaviour
CHECK_DEADLOCK FALSE
INVARIANTS
    TypeOK
    EveryInvitationListed
    RowsAreInvitations
    AcceptedIsJoined
