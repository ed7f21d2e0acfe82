\* A reviewer who retries: one promotion at a time, any call may fail cleanly,
\* any invocation may be killed between two calls.
SPECIFICATION Spec
CONSTANTS
    Ingests = {i1}
    Promoters = {p1, p2, p3}
    Downloaders = {d1, d2}
    Ttl = 1
    MaxTime = 2
    Faults = {"put", "read", "copy", "commit", "rollback", "source_delete", "crash"}
    Serial = TRUE
    StaleReads = FALSE
SYMMETRY InvocationSymmetry
INVARIANTS PromotedIsDownloadable
CHECK_DEADLOCK FALSE
