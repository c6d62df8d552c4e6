CONSTANTS
    NMembers = 1
    NDaemons = 2
    Events = {"crash"}
SPECIFICATION Spec
INVARIANT EndedMeansSettled
CHECK_DEADLOCK FALSE
