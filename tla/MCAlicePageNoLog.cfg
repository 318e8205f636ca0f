SPECIFICATION FairSpec
CONSTANTS
    Sessions = {s1}
    Bobs = {b1}
    Answers = {memory}
    Null = Null
    DubiousKeys = {}
    Scores <- MCScores
    Faults = {}
    MaxFaults = 0
    MaxKeys = 1
    MaxClicks = 0
    DebugPanelLoaded = FALSE
PROPERTY KeysGetReady
CHECK_DEADLOCK FALSE
