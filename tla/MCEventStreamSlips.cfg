SPECIFICATION Spec
CONSTANTS
    Sessions = {s1}
    Bobs = {b1}
    Answers = {memory}
    Null = Null
    DubiousKeys = {}
    Workers = {w1}
    Streams = {st1}
    Faults = {}
    MaxFaults = 0
INVARIANT NothingSlipsThrough
CHECK_DEADLOCK FALSE
