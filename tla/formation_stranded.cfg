\* One replica, no fault: a close between OpenBatch and AddMembership strands a member.
CONSTANTS
    Replica = {r1}
    Served = {r1}
    Tx = {t1, t2}
    Pair = {p1}
    BatchId = {b1, b2}
    None = None
    PairOf <- MCPairOf
    ReachesThreshold <- MCReaches
    MaxDeliveries = 1
    MaxExpiries = 0
    MaxFaults = 0
SPECIFICATION Spec
INVARIANT
    OrderCoversMembers
CHECK_DEADLOCK FALSE
