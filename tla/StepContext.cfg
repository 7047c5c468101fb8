\* Zaps of a trigger and three steps, payloads with missing, null and odd values.
CONSTANTS
    NumSteps = 4
    Keys <- MCKeys
    Fields <- MCFields
    Includes <- MCIncludes
    Texts <- MCTexts
    Zaps <- MCZaps
    Payloads <- MCPayloads
    Responses <- MCResponses
SPECIFICATION Spec
CHECK_DEADLOCK FALSE
INVARIANTS
    UninterruptedContextIsWhole
    ResumedFilterIsConservative
    RequestLacksOnlyUnresolved
    RestartLosesOnlyTargets
    ThrownOnlyByBlankTarget
