SPECIFICATION FairSpec
CONSTANTS
    w1 = w1
    w2 = w2
    t1 = t1
    t2 = t2
    t3 = t3
    t4 = t4
    NoWorker = NoWorker
    Workers = {w1, w2}
    Tasks = {t1, t2, t3, t4}
    Panicking = {t1}
    Spawned = {t2, t3}
    Cancellable = {t1, t2}
    Retries = 1
INVARIANT NobodyFindsAWorkerMissing
CHECK_DEADLOCK FALSE
