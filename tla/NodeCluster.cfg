SPECIFICATION FairSpec
CONSTANTS
    w1 = w1
    w2 = w2
    b1 = b1
    b2 = b2
    b3 = b3
    x1 = x1
    x2 = x2
    NoWorker = NoWorker
    Workers = {w1, w2}
    Batches = {b1, b2, b3}
    Closers = {x1, x2}
    Length <- MCLength
    Retries = 1
INVARIANTS
    TypeOK
    ResultsAreOfOneAttempt
    RollBackIsComplete
PROPERTIES
    BatchesEnd
    CloseMissesOnlyLeasedTabs
    ImplementsWorkerPool
CHECK_DEADLOCK FALSE
