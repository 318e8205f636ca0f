SPECIFICATION Spec
CONSTANTS
    Sessions = {s1, s2}
    Bobs = {b1}
    Answers = {memory}
    Null = Null
    DubiousKeys = {}
    Workers = {w1, w2}
    Streams = {st1, st2, st3}
    Faults = {"drop", "listener_lost", "worker_crash", "store_error", "refused"}
    MaxFaults = 1
SYMMETRY EventStreamSymmetry
INVARIANTS
    TypeOK
    RegistryMatchesStreams
    VerdictScreenIsTruthful
    ExpiredOnlyWhenGone
CHECK_DEADLOCK FALSE
