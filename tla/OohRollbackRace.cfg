\* Two promotions at once, and one UpdateItem that fails.
SPECIFICATION Spec
CONSTANTS
    Ingests = {i1}
    Promoters = {p1, p2}
    Downloaders = {}
    Ttl = 1
    MaxTime = 1
    Faults = {"commit"}
    Serial = FALSE
    StaleReads = FALSE
INVARIANTS AnsweredSuccessIsKept
CHECK_DEADLOCK FALSE
