\* Two creations, two transfers, a delete and one edit of each kind race each
\* other over three places; one write may fail, or be applied and its reply
\* lost.
SPECIFICATION Spec
CONSTANTS
    Places = {sandbox, site1, site2}
    Creators = {c1, c2}
    Rotators = {r1}
    Patchers = {p1}
    Deleters = {d1}
    Transferers = {t1, t2}
    MaxFaults = 1
SYMMETRY RegistrySymmetry
INVARIANTS TypeOK OnePlace NoCameraLost RevertsOnlyWhenOvertaken
PROPERTIES NeverOverwritten GhostsOnlyFromOvertakenEdits
CHECK_DEADLOCK FALSE
