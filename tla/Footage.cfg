\* One reader of each kind, two DELETE requests that may fail half-way, and up
\* to two changes of the working hours before them, over a week of six captures.
SPECIFICATION Spec
CONSTANTS
    DayLength = 3
    DaysPerWeek = 2
    Offset <- MCOffset
    None = None
    Sites <- MCSites
    Updates <- MCUpdates
    Requests <- MCRequests
    DaysBack = 3
    PageSize = 2
    Deleters = {d1, d2}
    Batches <- MCBatches
    Horizon = 6
    FirstRequest = 5
    MaxPatches = 2
    PatchesFirst = 1
    MaxFaults = 1
SYMMETRY DeleterSymmetry
INVARIANTS TypeOK ListingIsFaithful SampleIsFaithful FramesSpanFootage DeletedIsGone
PROPERTIES ClassifiedUnlessLegacyKept
CHECK_DEADLOCK FALSE
