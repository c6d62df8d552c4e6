CONSTANTS
    NMembers = 1
    NDaemons = 2
    Events = {"crash", "cancel", "ledger", "kill", "orphan", "refuse", "stall", "setup"}
SPECIFICATION Spec
INVARIANTS TypeOK OneAgentPerMember AbortedMeansStopped OutcomesReachLedger
CHECK_DEADLOCK FALSE
