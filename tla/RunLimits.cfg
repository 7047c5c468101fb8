\* Two workers, an hour and a window of 2 ticks.
CONSTANTS
    Workers = {w1, w2}
    Runs = {r1, r2, r3}
    NoRun = NoRun
    Caps = {1, 2}
    Limit = 1
    Window = 2
    Hour = 2
    MaxClock = 3
    MaxDeliveries = 3
    Faults = {"throw", "crash", "edit"}
SPECIFICATION Spec
SYMMETRY Alike
CHECK_DEADLOCK FALSE
INVARIANTS
    TypeOK
    HourlyCap
    RefusedOnlyAtCap
    CallsPerWindow
    DeniedOnlyWhenBusy
