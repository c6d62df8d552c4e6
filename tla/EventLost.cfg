SPECIFICATION Spec
CONSTANTS
    Patient = {"w1", "w2"}
    OneShot = {}
    Drains = {"sweep"}
    NFiles = 0
    MaxTries = 8
    MaxFaults = 0
    Events = {}
INVARIANTS LostMeansSaid
CHECK_DEADLOCK FALSE
