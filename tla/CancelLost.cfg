SPECIFICATION Spec
CONSTANTS
    NTasks = 1
    Agy = {}
    DegradedRoute = FALSE
    RequireReview = FALSE
    Wait = FALSE
    Verdicts = {}
    Recoverers = {}
    Events = {"cancel"}

PROPERTIES CancelHonoured
CHECK_DEADLOCK FALSE
