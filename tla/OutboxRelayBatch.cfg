\* Two events in one batch of the only relay, Kafka fails now and then, or is not reached.
\* Once every row is deleted or dead nothing is left to do.
CONSTANTS
    Pollers = {p1}
    NumEvents = 2
    BatchSize = 2
    MaxAttempts = 2
    Faults = {"broker", "ack", "connect"}
SPECIFICATION Spec
INVARIANTS
    DispatchedIsPublishedOrHeld
PROPERTIES
    DeadStaysDead
CHECK_DEADLOCK FALSE
