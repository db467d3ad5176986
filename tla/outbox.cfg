\* Two replicas drain one outbox; three calls fail or replicas die; one entry is never accepted.
CONSTANTS
    Dispatcher = {d1, d2}
    Entry <- MCEntry
    Limit = 2
    Rejected <- MCRejected
    ConflictOnReplay = FALSE
    MaxFaults = 3
SPECIFICATION FairSpec
INVARIANTS
    TypeOK
    EmittedIsDelivered
    PostingsBounded
PROPERTIES
    Delivered
CHECK_DEADLOCK FALSE
