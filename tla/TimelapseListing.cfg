\* Requests with and without a filter, every order of submission of four jobs,
\* up to two events while it pages.
SPECIFICATION FairSpec
CONSTANTS
    Jobs = {1, 2, 3, 4}
    Limit = 2
    Filters = {TRUE, FALSE}
    MaxEvents = 2
INVARIANTS TypeOK UnfilteredSkipsNothing
PROPERTIES NoDuplicate EveryListingEnds
CHECK_DEADLOCK FALSE
