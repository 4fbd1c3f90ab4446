\* A registration that was cut off, and the next start
SPECIFICATION Spec
CONSTANTS
    Accounts = {u1, u2}
    None = None
    Never = Never
    MaxStarts = 2
    MaxPresses = 2
    MaxFailures = 0
\* the bounds end every behaviour
CHECK_DEADLOCK FALSE
INVARIANTS
    ProfileIsThere
