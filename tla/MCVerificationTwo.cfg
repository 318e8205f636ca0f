SPECIFICATION Spec
CONSTANTS
    Sessions = {s1, s2}
    Bobs = {b1, b2}
    Answers = {right, wrong}
    Null = Null
    DubiousKeys = {s1, s2}
    Requests = {r1, r2, r3}
    Matching <- MCMatching
    Faults = {"store_error", "reply_lost", "connection_lost", "body_lost"}
SYMMETRY VerificationSymmetry
INVARIANTS
    StoreTypeOK
    OneAnswerDecides
    DecisionIsEarned
    AnnouncedAtMostOnce
    RebuiltEventIsAnnounced
    KeyOnlyForTheWinner
    ExpiredScreenIsTruthful
PROPERTIES
    NeverReopens
    GateSpec
CHECK_DEADLOCK FALSE
