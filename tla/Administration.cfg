\* Two creations of one account, two reports, two PATCH requests and a listing of
\* the flags of two tenants, three calls in all, with one failing call and an
\* index that lags.
SPECIFICATION Spec
CONSTANTS
    None = None
    Emails <- MCEmails
    Founders <- MCFounders
    SitesOf <- MCSitesOf
    Bodies <- MCBodies
    Raised <- MCRaised
    Creators = {c1, c2}
    Reports = {r1, r2}
    Patches = {p1, p2}
    Listings = {l1}
    Reasons = {"dark"}
    Limit = 2
    MaxTime = 2
    MaxCalls = 3
    MaxFaults = 1
SYMMETRY FlagSymmetry
INVARIANTS TypeOK AccountsAsRequested DuplicatesOnlyFromOverlap TenantsAreIsolated LiveFlagsAreListed
PROPERTIES StatusMovesForward
CHECK_DEADLOCK FALSE
