\* A rotation and a transfer of the same camera, nothing fails.
SPECIFICATION Spec
CONSTANTS
    Places = {sandbox, site1}
    Creators = {c1}
    Rotators = {r1}
    Patchers = {}
    Deleters = {}
    Transferers = {t1}
    MaxFaults = 0
INVARIANTS NothingReverts
CHECK_DEADLOCK FALSE
