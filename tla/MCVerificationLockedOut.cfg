SPECIFICATION Spec
CONSTANTS
    Sessions = {s1}
    Bobs = {b1}
    Answers = {right, wrong}
    Null = Null
    DubiousKeys = {}
    Requests = {r1, r2}
    Matching <- MCMatching
    Faults = {"reply_lost"}
INVARIANT WinnerIsNotLockedOut
CHECK_DEADLOCK FALSE
