\* One change of the working hours of any site, then captures: no reads, no
\* deletes, no failures.
SPECIFICATION Spec
CONSTANTS
    DayLength = 3
    DaysPerWeek = 2
    Offset <- MCOffset
    None = None
    Sites <- MCSites
    Updates <- MCUpdates
    Requests = {}
    DaysBack = 3
    PageSize = 2
    Deleters = {}
    Batches = {}
    Horizon = 6
    FirstRequest = 0
    MaxPatches = 1
    PatchesFirst = 1
    MaxFaults = 0
PROPERTIES ClassifiedAsAsked
CHECK_DEADLOCK FALSE
