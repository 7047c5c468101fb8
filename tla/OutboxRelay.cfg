\* One event, two relays, every fault.
\* Once every row is deleted or dead nothing is left to do.
CONSTANTS
    Pollers = {p1, p2}
    NumEvents = 1
    BatchSize = 1
    MaxAttempts = 3
    Faults = {"crash", "broker", "ack", "throw"}
SPECIFICATION FairSpec
INVARIANTS
    QueuedRunKeepsRow
    OneRelayPerYoungRow
PROPERTIES
    StoredIsProduced
    ImplementsLifecycle
CHECK_DEADLOCK FALSE
