\* Two requests edit a zap at the same time while it runs; handlers are lost.
\* Once every step was created and deleted nothing is left to do.
CONSTANTS
    Requests = {q1, q2}
    Runs = {r1}
    MaxSteps = 4
    Faults = {"lose"}
SPECIFICATION FairSpec
INVARIANTS
    TypeOK
    TriggerFirst
    StepsContiguous
    CompletedRunIsWholeUnlessOverlapped
    ExecutedInOrder
PROPERTIES
    RunInFlightFinishes
CHECK_DEADLOCK FALSE
