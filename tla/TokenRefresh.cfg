\* One OAuth account and one API key, one worker, one sweep of the job.
\* Once no grant is left nothing is left to do.
CONSTANTS
    Connections = {c1, c2}
    Keyed = {c2}
    Timed = {c1}
    Jobs = {j1}
    Sweeps = {s1}
    MaxGrants = 2
    Life = 3
    Window = 2
    Period = 1
    Faults = {"lose", "revoke", "replace", "single", "outage"}
    NoConnection = NoConnection
SPECIFICATION FairSpec
INVARIANTS
    ReconnectionIsKept
    RefusedOnlyIfDisturbed
    ExpiredWasSwept
PROPERTIES
    WorkingAgain
CHECK_DEADLOCK FALSE
