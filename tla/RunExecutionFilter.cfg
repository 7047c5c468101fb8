\* A process dies behind a filter that said no.
CONSTANTS
    Workers = {w1}
    Runs = {r1}
    NoRun = NoRun
    NumSteps = 3
    StepType <- FilterZap
    Faults = {"crash"}
SPECIFICATION Spec
INVARIANTS
    FilterHalts
