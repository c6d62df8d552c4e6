SPECIFICATION FairSpec
CONSTANTS
    NTasks = 2
    Agy = {}
    DegradedRoute = FALSE
    RequireReview = FALSE
    Wait = FALSE
    Verdicts = {}
    Recoverers = {"d1"}
    Events = {"crash", "cancel", "claim", "interrupt"}
INVARIANTS CancelReachesEveryWorker OrphanLeavesEvidence NoSecondWorker GrantedOnce
PROPERTIES ImplementsContract FleetSettles OrphanStopped
CHECK_DEADLOCK FALSE
