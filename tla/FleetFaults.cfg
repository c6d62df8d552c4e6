SPECIFICATION Spec
CONSTANTS
    NTasks = 2
    Agy = {}
    DegradedRoute = FALSE
    RequireReview = TRUE
    Wait = TRUE
    Verdicts = {"concerns", "reject"}
    Recoverers = {}
    Events = {"ledger", "panic", "cancel"}
INVARIANTS MergeAdmitsOne BlockedVerdictNotMerged DoneMeansMerged
CHECK_DEADLOCK FALSE
