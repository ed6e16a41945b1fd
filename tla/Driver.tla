------------------------------- MODULE Driver -------------------------------
(***************************************************************************)
(* The benchmark driver: bench_runner::start_measurement starts the worker *)
(* threads and the scheduler thread, holds them at two spin barriers, lets *)
(* them run for a time or until enough transactions have committed, joins  *)
(* them and adds up their counters.  A worker thread runs two contexts,    *)
(* the preemptive one nested in the main one, each with counters of its    *)
(* own.  (Queues and context switches are the subject of Scheduler.tla;    *)
(* here a queue is one slot.)                                              *)
(***************************************************************************)
EXTENDS Integers, FiniteSets, Folds

CONSTANTS
    worker_threads,          \* the scheduler thread is number worker_threads + 1
    Modes,                   \* values of benchmark_transactions; 0: time based
    benchmark_seconds,
    regular_workload_size, workload_size,
    FetchColdInterval,       \* config::fetch_cold_tx_interval, 0: random mix
    MaxJobs, MaxAborts       \* bounds: jobs handed out, and aborts, in all

VARIABLES
    benchmark_transactions,
    a, b,                    \* barrier_a, barrier_b
    tpc,                     \* per thread: where it is
    registered, ready,       \* receiver_fd_map; the queues and senders are set up
    job, pjob,               \* the worker's main and preemptive queue: an index or -1
    ctx,                     \* per worker and context: [pc, idx]
    st,                      \* per worker and context: the counters
    committed_txn_count, running,
    cold, since,             \* fetch_cold_tx_interval; history: fetches since a cold one
    jobs, aborts,            \* history, for the bounds
    rpc, k, sec, seen, n     \* start_measurement

vars == <<benchmark_transactions, a, b, tpc, registered, ready, job, pjob, ctx, st,
          committed_txn_count, running, cold, since, jobs, aborts, rpc, k, sec, seen, n>>

Workers == 1..worker_threads

Sender == worker_threads + 1

Contexts == {"main", "pre"}

\* The counters of a bench_worker; types is the commits per transaction type.
NoStats == [commits |-> 0, aborts |-> 0, user |-> 0, system |-> 0,
            types |-> [i \in 0..(workload_size - 1) |-> 0]]

Plus(x, y) == [commits |-> x.commits + y.commits, aborts |-> x.aborts + y.aborts,
               user |-> x.user + y.user, system |-> x.system + y.system,
               types |-> [i \in DOMAIN x.types |-> x.types[i] + y.types[i]]]

\* The constructors of bench_runner and bench_worker.
Init ==
    /\ benchmark_transactions \in Modes
    /\ a = worker_threads + 1 /\ b = 1
    /\ tpc = [t \in 1..Sender |-> "new"] /\ registered = {} /\ ready = FALSE
    /\ job = [w \in Workers |-> -1] /\ pjob = [w \in Workers |-> -1]
    /\ ctx = [w \in Workers |-> [c \in Contexts |-> [pc |-> "idle", idx |-> 0]]]
    /\ st = [w \in Workers |-> [c \in Contexts |-> NoStats]]
    /\ committed_txn_count = 0 /\ running = TRUE
    /\ cold = FetchColdInterval /\ since = FetchColdInterval
    /\ jobs = 0 /\ aborts = 0
    /\ rpc = "start" /\ k = 1 /\ sec = 0 /\ seen = NoStats /\ n = NoStats

run_state == <<job, pjob, ctx, st, committed_txn_count, cold, since, jobs, aborts>>

runner_state == <<rpc, k, sec, seen, n>>

-----------------------------------------------------------------------------
\* MyWork up to the barriers.

\* A worker registers its user-interrupt handler.
RegisterReceiver(w) ==
    /\ tpc[w] = "started" /\ registered' = registered \cup {w}
    /\ tpc' = [tpc EXCEPT ![w] = "set up"]
    /\ UNCHANGED <<benchmark_transactions, a, b, ready, running, run_state, runner_state>>

\* The scheduler thread waits for every receiver, registers as their sender and
\* initialises everyone's queues.
RegisterSender ==
    /\ tpc[Sender] = "started" /\ Cardinality(registered) >= worker_threads
    /\ ready' = TRUE /\ tpc' = [tpc EXCEPT ![Sender] = "set up"]
    /\ UNCHANGED <<benchmark_transactions, a, b, registered, running, run_state, runner_state>>

\* spin_barrier::count_down of barrier_a.
count_down(t) ==
    /\ tpc[t] = "set up" /\ a' = a - 1 /\ tpc' = [tpc EXCEPT ![t] = "wait b"]
    /\ UNCHANGED <<benchmark_transactions, b, registered, ready, running, run_state, runner_state>>

\* spin_barrier::wait_for of barrier_b.
wait_for(t) ==
    /\ tpc[t] = "wait b" /\ b = 0 /\ tpc' = [tpc EXCEPT ![t] = "loop"]
    /\ UNCHANGED <<benchmark_transactions, a, b, registered, ready, running, run_state,
                   runner_state>>

-----------------------------------------------------------------------------
\* The loops.

setup == <<benchmark_transactions, a, b, registered, ready>>

fetch_workload(i) ==
    IF cold # 0
    THEN /\ i = (IF cold = FetchColdInterval THEN 1 ELSE 0)
         /\ cold' = IF cold = FetchColdInterval THEN cold - 1
                    ELSE IF cold = 1 THEN FetchColdInterval ELSE cold - 1
         /\ since' = IF i = 1 THEN 1 ELSE since + 1
    ELSE i < regular_workload_size /\ UNCHANGED <<cold, since>>

fetch_preemptive_workload(i) == i >= regular_workload_size

\* The scheduler thread gives a worker a transaction for its main context ...
PushMain(w, i) ==
    /\ tpc[Sender] = "loop" /\ running /\ job[w] = -1 /\ jobs < MaxJobs
    /\ fetch_workload(i) /\ job' = [job EXCEPT ![w] = i] /\ jobs' = jobs + 1
    /\ UNCHANGED <<setup, tpc, pjob, ctx, st, committed_txn_count, running, aborts, runner_state>>

\* ... or for its preemptive one, and interrupts it.
PushPreemptive(w, i) ==
    /\ tpc[Sender] = "loop" /\ running /\ pjob[w] = -1 /\ jobs < MaxJobs
    /\ fetch_preemptive_workload(i) /\ pjob' = [pjob EXCEPT ![w] = i] /\ jobs' = jobs + 1
    /\ UNCHANGED <<setup, tpc, job, ctx, st, committed_txn_count, running, cold, since, aborts,
                   runner_state>>

\* The context that runs on w's thread.
Active(w) == IF ctx[w]["pre"].pc = "idle" THEN "main" ELSE "pre"

Go(w, c, pc) == ctx' = [ctx EXCEPT ![w][c].pc = pc]

\* The main loop takes the transaction at the front of its queue.
TakeMain(w) ==
    /\ tpc[w] = "loop" /\ Active(w) = "main" /\ ctx[w]["main"].pc = "idle"
    /\ running /\ job[w] # -1
    /\ ctx' = [ctx EXCEPT ![w]["main"] = [pc |-> "txn", idx |-> job[w]]]
    /\ job' = [job EXCEPT ![w] = -1]
    /\ UNCHANGED <<setup, tpc, pjob, st, committed_txn_count, running, cold, since, jobs, aborts,
                   runner_state>>

\* An interrupt: do_preemptive_transaction runs, wherever the main context is.
TakePreemptive(w) ==
    /\ tpc[w] = "loop" /\ Active(w) = "main" /\ pjob[w] # -1
    /\ ctx' = [ctx EXCEPT ![w]["pre"] = [pc |-> "txn", idx |-> pjob[w]]]
    /\ pjob' = [pjob EXCEPT ![w] = -1]
    /\ UNCHANGED <<setup, tpc, job, st, committed_txn_count, running, cold, since, jobs, aborts,
                   runner_state>>


\* finish_workload of a committed transaction: the shared count first ...
finish_commit(w, c) ==
    /\ Active(w) = c /\ ctx[w][c].pc = "txn"
    /\ IF benchmark_transactions # 0
       THEN /\ committed_txn_count' = committed_txn_count + 1
            /\ IF committed_txn_count >= benchmark_transactions
               THEN running' = FALSE /\ Go(w, c, "idle")
               ELSE Go(w, c, "count") /\ UNCHANGED running
       ELSE Go(w, c, "count") /\ UNCHANGED <<committed_txn_count, running>>
    /\ UNCHANGED <<setup, tpc, job, pjob, st, cold, since, jobs, aborts, runner_state>>

\* ... then the context's own.
count_commit(w, c) ==
    /\ Active(w) = c /\ ctx[w][c].pc = "count" /\ Go(w, c, "idle")
    /\ st' = [st EXCEPT ![w][c].commits = @ + 1, ![w][c].types[ctx[w][c].idx] = @ + 1]
    /\ UNCHANGED <<setup, tpc, job, pjob, committed_txn_count, running, cold, since, jobs, aborts,
                   runner_state>>

\* finish_workload of an aborted one.  The main context tries again.
finish_abort(w, c, user) ==
    /\ Active(w) = c /\ ctx[w][c].pc = "txn" /\ aborts < MaxAborts
    /\ st' = [st EXCEPT ![w][c].aborts = @ + 1,
                        ![w][c].user = @ + (IF user THEN 1 ELSE 0),
                        ![w][c].system = @ + (IF user THEN 0 ELSE 1)]
    /\ aborts' = aborts + 1
    /\ IF c = "main" /\ ~user /\ running THEN UNCHANGED ctx ELSE Go(w, c, "idle")
    /\ UNCHANGED <<setup, tpc, job, pjob, committed_txn_count, running, cold, since, jobs,
                   runner_state>>

\* Mutant: a worker leaves only when its queue is empty.
LeaveLoop_drained(t) ==
    /\ tpc[t] = "loop" /\ ~running
    /\ t \in Workers => job[t] = -1 /\ Active(t) = "main" /\ ctx[t]["main"].pc = "idle"
    /\ tpc' = [tpc EXCEPT ![t] = "done"]
    /\ UNCHANGED <<setup, running, run_state, runner_state>>

\* while (running) ends.
LeaveLoop(t) ==
    /\ tpc[t] = "loop" /\ ~running
    /\ t \in Workers => Active(t) = "main" /\ ctx[t]["main"].pc = "idle"
    /\ tpc' = [tpc EXCEPT ![t] = "done"]
    /\ UNCHANGED <<setup, running, run_state, runner_state>>

-----------------------------------------------------------------------------
\* start_measurement.

Runner(from, to) == rpc = from /\ rpc' = to

StartWorkers ==
    /\ rpc = "start" /\ tpc' = [tpc EXCEPT ![k] = "started"]
    /\ IF k = Sender THEN rpc' = "wait a" /\ k' = 1 ELSE k' = k + 1 /\ UNCHANGED rpc
    /\ UNCHANGED <<setup, running, run_state, sec, seen, n>>

WaitForWorkers ==
    /\ Runner("wait a", "go") /\ a = 0
    /\ UNCHANGED <<setup, tpc, running, run_state, k, sec, seen, n>>

BombsAway ==
    /\ Runner("go", "run") /\ b' = b - 1
    /\ UNCHANGED <<benchmark_transactions, a, registered, ready, tpc, running, run_state, k, sec,
                   seen, n>>

\* Both contexts' counters of worker w, as gather_stats and the totals read them.
StatsOf(w) == Plus(st[w]["main"], st[w]["pre"])

\* Time based: every second gather_stats reads the counters, worker by worker.
gather_stats ==
    /\ rpc = "run" /\ benchmark_transactions = 0
    /\ IF k <= worker_threads
       THEN k' = k + 1 /\ seen' = Plus(seen, StatsOf(k)) /\ UNCHANGED <<rpc, sec, running>>
       ELSE /\ k' = 1 /\ sec' = sec + 1
            /\ IF sec' = benchmark_seconds THEN running' = FALSE /\ rpc' = "join" /\ UNCHANGED seen
               ELSE seen' = NoStats /\ UNCHANGED <<running, rpc>>
    /\ UNCHANGED <<setup, tpc, run_state, n>>

\* Operation based: wait for a worker to clear running.
WaitForCount ==
    /\ Runner("run", "join") /\ benchmark_transactions # 0 /\ ~running
    /\ UNCHANGED <<setup, tpc, running, run_state, k, sec, seen, n>>

Join ==
    /\ rpc = "join" /\ tpc[k] = "done"
    /\ IF k = Sender THEN k' = 1 /\ rpc' = "sum" ELSE k' = k + 1 /\ UNCHANGED rpc
    /\ UNCHANGED <<setup, tpc, running, run_state, sec, seen, n>>

Totals ==
    /\ rpc = "sum" /\ n' = Plus(n, StatsOf(k))
    /\ IF k = worker_threads THEN k' = 1 /\ rpc' = "done" ELSE k' = k + 1 /\ UNCHANGED rpc
    /\ UNCHANGED <<setup, tpc, running, run_state, sec, seen>>

-----------------------------------------------------------------------------
ThreadStep(t) ==
    IF t = Sender
    THEN \/ RegisterSender \/ count_down(t) \/ wait_for(t) \/ LeaveLoop(t)
         \/ \E w \in Workers, i \in 0..(workload_size - 1) : PushMain(w, i) \/ PushPreemptive(w, i)
    ELSE \/ RegisterReceiver(t) \/ count_down(t) \/ wait_for(t) \/ LeaveLoop(t)
         \/ TakeMain(t) \/ TakePreemptive(t)
         \/ \E c \in Contexts : finish_commit(t, c) \/ count_commit(t, c)
                                \/ \E user \in BOOLEAN : finish_abort(t, c, user)

RunnerStep == \/ StartWorkers \/ WaitForWorkers \/ BombsAway \/ gather_stats \/ WaitForCount
              \/ Join \/ Totals

Next == (\E t \in 1..Sender : ThreadStep(t)) \/ RunnerStep

Spec == Init /\ [][Next]_vars

FairSpec == Spec /\ WF_vars(RunnerStep) /\ \A t \in 1..Sender : WF_vars(ThreadStep(t))

-----------------------------------------------------------------------------

\* No thread enters its loop before every thread has arrived at barrier_a with
\* its interrupt handler registered and, for the scheduler thread, the queues
\* of all workers initialised; and no count_down finds a barrier at zero.
StartTogether ==
    /\ a >= 0
    /\ (\E t \in 1..Sender : tpc[t] = "loop") => a = 0 /\ b = 0 /\ ready /\ registered = Workers

Total(f(_), S) == MapThenFoldSet(+, 0, f, LAMBDA T : CHOOSE x \in T : TRUE, S)

\* What start_measurement prints is final and consistent: once it adds up the
\* counters nobody changes them, aborts are user plus system aborts, and the
\* commits per transaction type add up to the commits.
TotalsAgree ==
    rpc = "done" =>
        /\ n.commits = Total(LAMBDA w : StatsOf(w).commits, Workers)
        /\ n.aborts = n.user + n.system /\ n.aborts = aborts
        /\ n.commits = Total(LAMBDA i : n.types[i], DOMAIN n.types)
        /\ benchmark_transactions = 0 => seen.commits <= n.commits

\* An operation-based run reports exactly benchmark_transactions commits,
\* however the contexts interleave around the shared counter.
ExactCount == rpc = "done" /\ benchmark_transactions # 0 => n.commits = benchmark_transactions

\* With an interval above 1, fetch_workload returns the cold transaction (index
\* 1) first and then exactly once in every FetchColdInterval calls.
ColdEveryInterval ==
    FetchColdInterval > 1 => since <= FetchColdInterval /\ cold = 1 + FetchColdInterval -
        (IF since = FetchColdInterval THEN 1 ELSE since + 1)

Ended == rpc = "done"

\* A run comes to its end: barriers open, running is cleared, every thread is
\* joined and the totals are printed.
RunEnds == <>Ended

=============================================================================
