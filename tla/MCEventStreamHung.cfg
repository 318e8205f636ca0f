SPECIFICATION FairSpec
CONSTANTS
    Sessions = {s1}
    Bobs = {b1}
    Answers = {memory}
    Null = Null
    DubiousKeys = {}
    Workers = {w1}
    Streams = {st1, st2}
    Faults = {"refused"}
    MaxFaults = 1
PROPERTY AliceLearns
CHECK_DEADLOCK FALSE
