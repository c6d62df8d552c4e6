SPECIFICATION FairSpec
CONSTANTS
    MaxDispatch = 1
    MaxPanics = 1
    Commit = {"valid", "misnamed"}
    Events = {"panic"}
PROPERTIES
    PanicIsDecided
CHECK_DEADLOCK FALSE
