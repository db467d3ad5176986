\* Two replicas on one Postgres and one Redis, with replays and key expiry.
CONSTANTS
    Replica = {r1, r2}
    Served = {}
    Tx = {t1, t2}
    Pair = {p1}
    BatchId = {b1, b2}
    None = None
    PairOf <- MCPairOf
    ReachesThreshold <- MCReaches
    MaxDeliveries = 2
    MaxExpiries = 1
    MaxFaults = 0
SPECIFICATION Spec
INVARIANTS
    NoDoubleClose
    NoTxOrderedTwice
SYMMETRY Symmetry
CHECK_DEADLOCK FALSE
