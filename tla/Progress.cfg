SPECIFICATION FairSpec
CONSTANTS
    T = {a, b, c}
    Capacity = 3
    Nothing = Nothing
    Thread = {t1, t2, t3}
    Nil = Nil
    MaxIssued = 4
INVARIANTS
    PoolIsSound
    
PROPERTIES
    FifoSpec
    IsFairLock
    AcquireReturns
    TasksComplete
    TransactionsEnd
    RunEnds
