SPECIFICATION FairSpec
CONSTANTS
    Sessions = {s1, s2}
    Bobs = {b1, b2}
    Answers = {right, wrong}
    Null = Null
    DubiousKeys = {s2}
    Requests = {r1, r2}
    Matching <- MCMatching
    Faults = {"fetch_refused", "refused", "store_error", "embed_unavailable"}
INVARIANT FailScreenIsTruthful
PROPERTIES
    ScoringEnds
    WinnerGetsTheKey
CHECK_DEADLOCK FALSE
