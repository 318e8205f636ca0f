SPECIFICATION FairSpec
CONSTANTS
    Threads = {t1, t2, t3}
    Nobody = Nobody
    MaxInFlight = 1
INVARIANTS
    TypeOK
    OneClientPerProcess
    SlotsConserved
    OneListenerPerProcess
    CutOffOnlyByOverlap
    NothingLeaks
PROPERTY RequestsEnd
CHECK_DEADLOCK FALSE
