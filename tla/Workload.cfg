SPECIFICATION AllSpec
CONSTANTS
    NWorkers = 1
    Worker <- MCWorker
    Txn = {t1, t2}
    Policy = 3
    max_preempted_cycle_pct = 50
    retry_aborted_transactions = TRUE
    phantom_prot = TRUE
    MainQueueSize = 1
    PrioritizedQueueSize = 2
    GlobalQueueSize = 2
    TxnSteps = 2
    MaxTicks = 2
SYMMETRY TxnSymmetry
INVARIANTS
    ExactlyOnce
    
    
    
    
