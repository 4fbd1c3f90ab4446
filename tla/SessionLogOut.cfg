\* A log-out while a profile is being read, and the next press of Log In
SPECIFICATION Spec
CONSTANTS
    Accounts = {u1}
    None = None
    Never = Never
    MaxStarts = 1
    MaxPresses = 2
    MaxFailures = 0
\* the bounds end every behaviour
CHECK_DEADLOCK FALSE
INVARIANTS
    SomebodyIsSignedIn
