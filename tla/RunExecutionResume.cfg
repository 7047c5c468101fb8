\* Throws, crashes and refused rate limits; messages are redelivered for ever.
CONSTANTS
    Workers = {w1, w2}
    Runs = {r1}
    NoRun = NoRun
    NumSteps = 3
    StepType <- FilterZap
    Faults = {"throw", "crash", "limit"}
SPECIFICATION RedeliverSpec
PROPERTIES
    StepsSettle
    RunsResume
