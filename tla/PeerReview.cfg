SPECIFICATION Spec
CONSTANTS
    NReviews = 3
    MaxInflight = 1
    Callers = {c1, c2}
    Faults = {"death", "sweep"}
INVARIANTS TypeOK VerdictAuthorised CapOvershoot
PROPERTIES VerdictStands PromotedInOrder
CHECK_DEADLOCK FALSE
