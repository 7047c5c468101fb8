\* One event of every kind, two deliveries at a time, every fault.
CONSTANTS
    Events = {e1}
    Hooks <- MCHooks
    Triggers <- MCTriggers
    NoTrigger = "none"
    Requests = {q1, q2}
    NoEvent = NoEvent
    MaxTries = 3
    Faults = {"lose", "throw", "edit", "delete"}
SPECIFICATION FairSpec
CHECK_DEADLOCK FALSE
INVARIANTS
    AcknowledgedHasRun
    StoredOnceAndWhole
PROPERTIES
    WantedEventRuns
    ImplementsLifecycle
