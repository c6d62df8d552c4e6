SPECIFICATION FairSpec
CONSTANTS
    MaxDispatch = 1
    MaxPanics = 1
    Commit = {"valid", "misnamed"}
    Events = {"cancel", "route", "setup", "panic", "wait_error", "bad_sentinel"}
INVARIANTS
    TypeOK
    OneVerdict
    TimeoutIsReal
    ExitCompletesValidated
PROPERTIES
    EventuallyDecided
    EventuallyStopped
CHECK_DEADLOCK FALSE
