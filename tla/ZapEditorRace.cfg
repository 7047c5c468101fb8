\* Two requests edit the zap at the same time (a deletion beside an
\* insertion or another deletion), then it runs.
\* Once every step was created and deleted nothing is left to do.
CONSTANTS
    Requests = {q1, q2}
    Runs = {r1}
    MaxSteps = 4
    Faults = {}
SPECIFICATION Spec
INVARIANTS
    CompletedRunIsWhole
CHECK_DEADLOCK FALSE
