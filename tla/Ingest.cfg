\* Two uploads of a camera, two requests for a session, a stop and a viewer;
\* every read and write may fail.
SPECIFICATION Spec
CONSTANTS
    Posters = {u1, u2}
    Deleters = {d1}
    Viewers = {v1}
    Uploads = {i1, i2}
    SessionLength = 2
    LiveTtl = 1
    LiveObjectLife = 2
    Cadence = 2
    MaxTime = 4
    MaxRunning = 2
    Faults = {"read", "write"}
SYMMETRY UploadSymmetry
INVARIANTS TypeOK AnsweredIsCovered CadenceKept ShownImageResolves
PROPERTIES OneSession
CHECK_DEADLOCK FALSE
