\* Three fills in two currencies, in Postgres or in memory; two faults.
CONSTANTS
    Fill <- MCFill
    usd = usd
    eur = eur
    Currency = {usd, eur}
    FiatOf <- MCFiatOf
    RowId <- MCRowId
    OverMax <- MCOverMax
    MaxFaults = 2
    None = None
SPECIFICATION FairSpec
INVARIANTS
    TypeOK
    FloatAddsUp
    BreachReported
PROPERTIES
    SweptWithDue
    SettlesInMemory
CHECK_DEADLOCK FALSE
