\* One run of a zap with a filter, two workers that crash, lose leases, hit limits.
CONSTANTS
    Workers = {w1, w2}
    Runs = {r1}
    NoRun = NoRun
    NumSteps = 3
    StepType <- FilterZap
    Faults = {"crash", "slow", "limit"}
SPECIFICATION Spec
SYMMETRY Symmetry
INVARIANTS
    SentAtMostOnce
    OneOwner
    ClaimedInOrder
    CompletedRunIsWhole
    ConsumedRunIsClaimed
PROPERTIES
    ImplementsLedger
    RunNeverReopened
    ImplementsLifecycle
