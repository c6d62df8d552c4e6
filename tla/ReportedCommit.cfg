SPECIFICATION Spec
CONSTANTS
    MaxDispatch = 2
    MaxPanics = 1
    Commit = {"valid", "misnamed"}
    Events = {}
INVARIANTS
    ReportedIsValidated
CHECK_DEADLOCK FALSE
