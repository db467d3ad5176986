\* Two calls of any kind, two samples of demand, two faults; both samples together are over
\* the ceiling.
CONSTANTS
    Sample = {s1, s2}
    Window = 1
    MaxTime = 1
    Call = {c1, c2}
    Amount = {1, 2}
    MaxFundingAmount = 1
    Target = 1
    Notional = 2
    MaxFaults = 2
    None = None
SPECIFICATION FairSpec
INVARIANTS
    TypeOK
    DemandIsWindow
    RecordMatchesWallet
    MovesBounded
PROPERTIES
    Resolves
CHECK_DEADLOCK FALSE
