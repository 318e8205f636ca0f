SPECIFICATION SystemSpec
CONSTANTS
    Sessions = {s1}
    Bobs = {b1, b2}
    Answers = {right, wrong}
    Null = Null
    DubiousKeys = {s1}
    Requests = {r1, r2}
    Matching <- MCMatching
    Faults = {"fetch_refused", "refused", "store_error", "embed_unavailable", "reply_lost", "connection_lost", "body_lost"}
    Workers = {w1}
    Streams = {st1, st2}
    StreamFaults = {"listener_lost", "worker_crash", "store_error", "refused"}
    MaxStreamFaults = 1
SYMMETRY SystemSymmetry
INVARIANTS
    TypeOK
    ChannelEndsAgree
    OneSecretPerSession
PROPERTIES
    RendezvousSpec
CHECK_DEADLOCK FALSE
