\* Two replicas and two commands on a fresh database, two migrations, one fault.
CONSTANTS
    Replica = {r1, r2}
    Command = {m1, m2}
    Last = 2
    MaxFaults = 1
SPECIFICATION FairSpec
INVARIANTS
    TypeOK
    SchemaSound
PROPERTIES
    AllServe
CHECK_DEADLOCK FALSE
