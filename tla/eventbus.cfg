\* Five messages of which one is poison, or three posts; a channel of two; two faults.
CONSTANTS
    Last = 5
    Posted = {1, 2, 3}
    Poison = {2}
    Cap = 2
    MaxFaults = 2
SPECIFICATION FairSpec
INVARIANTS
    TypeOK
    DeliveredInOrder
    LossBounded
PROPERTIES
    Consumed
CHECK_DEADLOCK FALSE
