\* A rate limited step, nothing else fails, messages are redelivered for ever.
CONSTANTS
    Workers = {w1}
    Runs = {r1}
    NoRun = NoRun
    NumSteps = 2
    StepType <- ShortZap
    Faults = {"limit"}
SPECIFICATION RedeliverSpec
PROPERTIES
    NoRunLeftInProgress
