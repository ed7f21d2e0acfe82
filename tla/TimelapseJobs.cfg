\* Everything that can go wrong with submission and delivery, up to two copies
\* of the message.
SPECIFICATION FairSpec
CONSTANTS
    Copies = {c1, c2}
    MaxReceives = 3
    Faults = {"store", "send", "duplicate", "worker", "ack"}
INVARIANTS TypeOK CompleteHasArtifact UnavailableOnlyExpired DrainedIsSettled
PROPERTIES SettledIsFinal EveryMessageDrains
