SPECIFICATION FairSpec
CONSTANTS
    Sessions = {s1}
    Bobs = {b1, b2}
    Answers = {memory}
    Null = Null
    DubiousKeys = {b2}
    Workers = {w1}
    Streams = {st1, st2, st3}
    Faults = {"drop", "listener_lost", "worker_crash", "store_error", "ttl_above_cap"}
    MaxFaults = 2
PROPERTIES
    AliceLearns
    StreamsEnd
    ExpiryIsNoticed
CHECK_DEADLOCK FALSE
