SPECIFICATION FairSpec
CONSTANTS
    Sessions = {s1, s2}
    Bobs = {b1, b2}
    Answers = {memory}
    Null = Null
    DubiousKeys = {b2}
    Scores <- MCScores
    Faults = {"key_fails", "refused", "response_lost", "dropped"}
    MaxFaults = 1
    MaxKeys = 2
    MaxClicks = 2
    DebugPanelLoaded = TRUE
INVARIANTS
    TypeOK
    VerdictIsForCurrentSession
    ChannelWorks
    FreshKeyPerSession
    ShownScoreIsFair
    PanelInStep
    LogMatchesScreen
PROPERTIES
    KeysGetReady
    CreateEnds
    VerdictArrives
CHECK_DEADLOCK FALSE
