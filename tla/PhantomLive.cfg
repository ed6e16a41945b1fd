SPECIFICATION FairSpec
CONSTANTS
    NWorkers = 1
    Worker <- MCWorker
    Txn = {t1}
    Policy = 2
    max_preempted_cycle_pct = 50
    retry_aborted_transactions = FALSE
    phantom_prot = TRUE
    MainQueueSize = 1
    PrioritizedQueueSize = 1
    GlobalQueueSize = 1
    TxnSteps = 2
    MaxTicks = 0
PROPERTIES
    RegularFinishes
