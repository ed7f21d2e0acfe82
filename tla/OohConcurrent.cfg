\* Promotions of one snapshot racing each other, the expiry and downloads;
\* only calls whose failure changes nothing may fail, and UpdateItem fails only
\* on its own condition; GetItem answers from a lagging replica.
SPECIFICATION FairSpec
CONSTANTS
    Ingests = {i1}
    Promoters = {p1, p2, p3}
    Downloaders = {d1}
    Ttl = 1
    MaxTime = 2
    Faults = {"put", "read", "source_delete"}
    Serial = FALSE
    StaleReads = TRUE
INVARIANTS TypeOK RecordedKeyResolves AnsweredSuccessIsKept NoOrphanCopy
PROPERTIES KeepsPromise EventuallyKeptOrErased
\* every invocation may have been answered and the clock stand at its bound
CHECK_DEADLOCK FALSE
