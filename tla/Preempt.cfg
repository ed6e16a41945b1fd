SPECIFICATION Spec
CONSTANTS
    NWorkers = 1
    Worker <- MCWorker
    Txn = {t1, t2}
    Policy = 2
    max_preempted_cycle_pct = 50
    retry_aborted_transactions = FALSE
    phantom_prot = FALSE
    MainQueueSize = 1
    PrioritizedQueueSize = 2
    GlobalQueueSize = 2
    TxnSteps = 2
    MaxTicks = 0
SYMMETRY TxnSymmetry
INVARIANTS
    PreemptionInv
    ControlStaysInContext
    VectorRegistersKept
    PreemptionIsSafe
    ExactlyOnce
