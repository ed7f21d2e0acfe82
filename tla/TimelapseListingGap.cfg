\* One filter: the second Query of a request finds more matches than the page
\* takes.
SPECIFICATION Spec
CONSTANTS
    Jobs = {1, 2, 3, 4}
    Limit = 2
    Filters = {TRUE}
    MaxEvents = 0
INVARIANTS NothingSkipped
CHECK_DEADLOCK FALSE
