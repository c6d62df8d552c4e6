CONSTANTS
    NMembers = 1
    NDaemons = 2
    Events = {"crash"}
SPECIFICATION Spec
INVARIANT LaunchWindowClosed
CHECK_DEADLOCK FALSE
