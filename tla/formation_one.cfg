\* One replica, one fault: the consumer against the ticker and manual closes.
CONSTANTS
    Replica = {r1}
    Served = {r1}
    Tx = {t1, t2}
    Pair = {p1}
    BatchId = {b1, b2}
    None = None
    PairOf <- MCPairOf
    ReachesThreshold <- MCReaches
    MaxDeliveries = 1
    MaxExpiries = 0
    MaxFaults = 1
SPECIFICATION FairSpec
INVARIANTS
    TypeOK
    OpenPerReplica
    LossPerFault
    OpenAudited
PROPERTIES
    DueCloses
    LifecyclePromise
CHECK_DEADLOCK FALSE
