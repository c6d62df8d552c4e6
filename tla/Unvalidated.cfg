SPECIFICATION Spec
CONSTANTS
    MaxDispatch = 1
    MaxPanics = 1
    Commit = {"valid", "invalid"}
    Events = {}
INVARIANTS
    CompletedMeansValidated
CHECK_DEADLOCK FALSE
