\* The closing of a batch races a replay; calls fail, a key runs out, a total is late.
CONSTANTS
    Worker = {w1, w2}
    Batch = {b1}
    Amount = {0, 1}
    Bound <- MCRacing
    None = None
SPECIFICATION FairSpec
INVARIANTS
    TypeOK
    EffectsOnce
    PersistedFirst
    SubmittedAsOrdered
    RecordsAgree
PROPERTIES
    LifecyclePromise
    ClosedSettles
CHECK_DEADLOCK FALSE
