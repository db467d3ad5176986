\* Three callers, an outage of six failed attempts, one abandoned call.
CONSTANTS
    Caller = {c1, c2, c3}
    Threshold = 2
    MaxAttempts = 2
    MaxFails = 6
    MaxGiveUps = 1
SPECIFICATION FairSpec
INVARIANTS
    TypeOK
    OpenIffTripped
    HalfOpenHasProbe
PROPERTIES
    Recovers
