SPECIFICATION Spec
CONSTANTS
    NTasks = 2
    Agy = {1}
    DegradedRoute = TRUE
    RequireReview = FALSE
    Wait = FALSE
    Verdicts = {}
    Recoverers = {}
    Events = {"cancel", "untracked", "panic", "prepare", "refuse"}
INVARIANTS TypeOK NotStranded CancelReachesEveryWorker
PROPERTIES CancelKeptByFailedTasks
CHECK_DEADLOCK FALSE
