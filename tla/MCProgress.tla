---------------------------- MODULE MCProgress ------------------------------
(***************************************************************************)
(* What must go on, one part at a time: the ring queue and the MCS lock in *)
(* their own variables, and the thread pool, transactions that insert and  *)
(* the benchmark driver as parts.                                          *)
(***************************************************************************)
EXTENDS RingQueue, McsLock, FiniteSets

\* The ring while another part runs.
RingIdle == Init /\ data = [i \in Idx |-> CHOOSE t \in T : TRUE]

VARIABLES part,   \* the part that runs; the others are absent
          v1, v2, v3, v4, v5, v6, v7, v8, v9, v10, v11, v12, v13, v14, v15, v16, v17, v18, v19,
          v20, v21   \* its variables

Tp == INSTANCE ThreadPool WITH
    Threads <- {"t1", "t2"}, Runners <- {"r1", "r2"}, Physical <- {"t1"}, MaxStarts <- 2,
    threadpool <- v1, bitmap <- v2, state <- v3, task <- v4, sleep_when_idle <- v5,
    shutdown <- v6, tpc <- v7, me <- v8, rpc <- v9, b <- v10, starts <- v11, runs <- v12

Tx == INSTANCE Transaction WITH
    XID <- {"t1", "t2"}, OID <- {"x", "y"}, Fresh <- {"y"}, BlindUpdate <- FALSE, MaxOps <- 3,
    current_csn <- v1, xc <- v2, write_set <- v3, entry <- v4, objs <- v5, indexed <- v6,
    op <- v7, reads <- v8

Dr == INSTANCE Driver WITH
    worker_threads <- 2, Modes <- {0, 1}, benchmark_seconds <- 2, regular_workload_size <- 2,
    workload_size <- 3, FetchColdInterval <- 2, MaxJobs <- 2, MaxAborts <- 0,
    benchmark_transactions <- v1, a <- v2, b <- v3, tpc <- v4, registered <- v5, ready <- v6,
    job <- v7, pjob <- v8, ctx <- v9, st <- v10, committed_txn_count <- v11, running <- v12,
    cold <- v13, since <- v14, jobs <- v15, aborts <- v16, rpc <- v17, k <- v18, sec <- v19,
    seen <- v20, n <- v21

Unused12 == v13 = 0 /\ v14 = 0 /\ v15 = 0 /\ v16 = 0 /\ v17 = 0 /\ v18 = 0 /\ v19 = 0 /\ v20 = 0 /\ v21 = 0
Same12 == UNCHANGED <<v13, v14, v15, v16, v17, v18, v19, v20, v21>>
Unused8 == v9 = 0 /\ v10 = 0 /\ v11 = 0 /\ v12 = 0 /\ Unused12
Same8 == UNCHANGED <<v9, v10, v11, v12>> /\ Same12
Unused0 == v1 = 0 /\ v2 = 0 /\ v3 = 0 /\ v4 = 0 /\ v5 = 0 /\ v6 = 0 /\ v7 = 0 /\ v8 = 0 /\ Unused8
Same0 == UNCHANGED <<v1, v2, v3, v4, v5, v6, v7, v8>> /\ Same8

all == <<part, vars, lockVars, v1, v2, v3, v4, v5, v6, v7, v8, v9, v10, v11, v12, v13,
        v14, v15, v16, v17, v18, v19, v20, v21>>

AllInit ==
    \/ part = "pool" /\ Tp!Init /\ Unused12 /\ RingIdle /\ LockInit
    \/ part = "txn" /\ Tx!Init /\ Unused8 /\ RingIdle /\ LockInit
    \/ part = "driver" /\ Dr!Init /\ RingIdle /\ LockInit
    \/ part = "ring" /\ Unused0 /\ Init /\ LockInit
    \/ part = "lock" /\ Unused0 /\ RingIdle /\ LockInit

AllNext ==
    \/ part = "pool" /\ Tp!Next /\ Same12 /\ UNCHANGED <<part, vars, lockVars>>
    \/ part = "txn" /\ Tx!Next /\ Same8 /\ UNCHANGED <<part, vars, lockVars>>
    \/ part = "driver" /\ Dr!Next /\ UNCHANGED <<part, vars, lockVars>>
    \/ part = "ring" /\ Next /\ Same0 /\ UNCHANGED <<part, lockVars>>
    \/ part = "lock" /\ LockNext /\ Same0 /\ UNCHANGED <<part, vars>>
    \/ part \in {"lock", "pool", "driver"} /\ UNCHANGED all   \* their bounds are reached

AllSpec == AllInit /\ [][AllNext]_all

poolVars == Tp!vars
txnVars == Tx!vars
driverVars == Dr!vars

\* The operating system runs every thread that can run.  The guards keep a part
\* from looking at the variables of another.
FairSpec ==
    /\ AllSpec
    /\ \A t \in Thread : WF_lockVars(LockStep(t))
    /\ \A t \in {"t1", "t2"} : /\ WF_poolVars(part = "pool" /\ Tp!Awake(t))
                              /\ WF_poolVars(part = "pool" /\ Tp!GoesToSleep(t))
    /\ \A r \in {"r1", "r2"} : WF_poolVars(part = "pool" /\ Tp!Runs(r))
    /\ \A x \in {"t1", "t2"} : /\ WF_txnVars(part = "txn" /\ Tx!Operation(x))
                              /\ WF_txnVars(part = "txn" /\ (Tx!commit(x) \/ Tx!Abort(x)))
    /\ WF_driverVars(part = "driver" /\ Dr!RunnerStep)
    /\ \A t \in 1..Dr!Sender : WF_driverVars(part = "driver" /\ Dr!ThreadStep(t))

-----------------------------------------------------------------------------
\* A task runs exactly once between its Start and the end of its Join, on a
\* thread that works for one runner at a time and had no task: no start is lost
\* on a thread that is falling asleep or waking up, and no stale task runs again
\* (StartTask and IdleTask, "No CC whatsoever"; GetThread, PutThread).
PoolIsSound == part = "pool" => Tp!PoolIsSound


\* Every started task ends and is joined: no wake-up is lost for good.
TasksComplete ==
    \A r \in {"r1", "r2"} : (part = "pool" /\ Tp!Started(r)) ~> (part = "pool" /\ Tp!Joined(r))

\* Every transaction ends: no operation spins for ever, neither on a
\* committing holder nor on a version that is being unlinked.
TransactionsEnd ==
    \A x \in {"t1", "t2"} : (part = "txn" /\ Tx!Active(x)) ~> (part = "txn" /\ Tx!Ended(x))

\* A run comes to its end: barriers open, running is cleared, every thread is
\* joined and the totals are printed.
RunEnds == part = "driver" => <>(part = "driver" /\ Dr!Ended)
=============================================================================
