SPECIFICATION FairSpec
CONSTANTS
    Receipts = {r1}
    Workers = {w1, w2}
    Handlers = {h1, h2}
    None = None
    MaxRetries = 2
    MaxFaults = 2
INVARIANTS
    TypeOK
    Custody
    CompletedHasTransaction
    ScansAreMetered
    AttemptsPaidFor
    RowsComeTogether
PROPERTIES
    CompletedIsStable
    RedeliveryDoesNotRepeatWork
    ImplementsLedger
    UploadsSettle
CHECK_DEADLOCK FALSE
