SPECIFICATION FairSpec
CONSTANTS
    Patient = {"w1"}
    OneShot = {"w2"}
    Drains = {"sweep", "wake"}
    NFiles = 1
    MaxTries = 2
    MaxFaults = 2
    Events = {"death", "gc"}
INVARIANTS TypeOK SpoolNotLost CountsEachRowOnce
PROPERTIES AppendsAtEnd SpoolDrained
CHECK_DEADLOCK FALSE
