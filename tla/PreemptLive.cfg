SPECIFICATION FairSpec
CONSTANTS
    NWorkers = 1
    Worker <- MCWorker
    Txn = {t1, t2}
    Policy = 2
    max_preempted_cycle_pct = 50
    retry_aborted_transactions = FALSE
    phantom_prot = FALSE
    MainQueueSize = 1
    PrioritizedQueueSize = 1
    GlobalQueueSize = 1
    TxnSteps = 1
    MaxTicks = 0
PROPERTIES
    PrioritizedFinishes
    RegularFinishes
