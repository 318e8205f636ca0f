SPECIFICATION Spec
CONSTANTS
    Sessions = {s1}
    Bobs = {b1}
    Answers = {right, wrong}
    Null = Null
    DubiousKeys = {}
    Requests = {r1}
    Matching <- MCMatching
    Faults = {"fetch_refused"}
INVARIANT ExpiredScreenIsTruthful
CHECK_DEADLOCK FALSE
