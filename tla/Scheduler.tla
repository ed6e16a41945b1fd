----------------------------- MODULE Scheduler ------------------------------
(***************************************************************************)
(* The whole scheduling system: the scheduler thread (the scheduler branch *)
(* of tpcc_sequential_worker::MyWork) and the workers of Worker.tla.  The  *)
(* scheduler keeps every main queue topped up; when prioritized            *)
(* transactions arrive it fills the global queue, then goes round the      *)
(* workers, moving transactions to their preemptive queues and posting a   *)
(* user interrupt to each (policy 2).                                      *)
(*                                                                         *)
(* Txn is a set of tokens for prioritized transactions.  A token that was  *)
(* finished may arrive again, so arrivals never end.  Not modelled: the    *)
(* end of the run (the flag `running') and the registration of senders.    *)
(***************************************************************************)
EXTENDS Worker, FiniteSets

CONSTANTS NWorkers, GlobalQueueSize

ASSUME SchedulerAssumption ==
    /\ NWorkers \in Nat \ {0}
    /\ Worker = 0..(NWorkers - 1)
    /\ GlobalQueueSize \in Nat \ {0}

VARIABLES
    sched,                     \* program point and worker_id of the scheduler
    global_workload_queue

sched_vars == <<sched, global_workload_queue>>
vars == <<pcontext_vars, worker_vars, sched_vars>>

SchedPC == {"fill", "wait", "arrive", "dispatch", "starved", "move", "send"}

TypeOK ==
    /\ WorkerTypeOK
    /\ sched \in [pc : SchedPC, worker_id : Worker]
    /\ global_workload_queue \in Seq(Txn)
    /\ Len(global_workload_queue) <= GlobalQueueSize

Init ==
    /\ WorkerInit
    /\ sched = [pc |-> "fill", worker_id |-> 0]
    /\ global_workload_queue = <<>>
-----------------------------------------------------------------------------
next_worker == (sched.worker_id + 1) % NWorkers

SchedGoto(p, w) == sched' = [pc |-> p, worker_id |-> w]

\* The for loop that tops up every main queue.
s_fill ==
    LET w == sched.worker_id
    IN  /\ sched.pc = "fill"
        /\ main_workload_queue' = [main_workload_queue EXCEPT
               ![w] = IF @ < MainQueueSize THEN @ + 1 ELSE @]
        /\ SchedGoto(IF next_worker = 0 THEN "wait" ELSE "fill", next_worker)
        /\ UNCHANGED <<pcontext_vars, preemptive_workload_queue, outcome,
                       timer_vars, latch, committing, global_workload_queue>>

\* The arrival interval may or may not have passed.
s_wait ==
    /\ sched.pc = "wait"
    /\ \E p \in {"fill", "arrive"} : SchedGoto(p, 0)
    /\ UNCHANGED <<pcontext_vars, worker_vars, global_workload_queue>>

\* Fill the global queue; the tokens of Txn bound what can be under way.
s_arrive ==
    /\ sched.pc = "arrive"
    /\ Len(global_workload_queue) < GlobalQueueSize
    /\ \E t \in {x \in Txn : outcome[x] # "pending"} :
          /\ global_workload_queue' = Append(global_workload_queue, t)
          /\ outcome' = [outcome EXCEPT ![t] = "pending"]
    /\ UNCHANGED <<pcontext_vars, queue_vars, timer_vars, latch, committing,
                   sched>>

s_arrived ==
    /\ sched.pc = "arrive"
    /\ \/ Len(global_workload_queue) = GlobalQueueSize
       \/ \A t \in Txn : outcome[t] = "pending"
    /\ SchedGoto("dispatch", 0)
    /\ UNCHANGED <<pcontext_vars, worker_vars, global_workload_queue>>

\* The next worker gets regular work if it has none.
s_dispatch ==
    LET w == sched.worker_id
    IN  /\ sched.pc = "dispatch"
        /\ IF global_workload_queue = <<>>
           THEN SchedGoto("fill", 0) /\ UNCHANGED main_workload_queue
           ELSE /\ SchedGoto("starved", w)
                /\ main_workload_queue' =
                       [main_workload_queue EXCEPT ![w] = IF @ = 0 THEN 1 ELSE @]
        /\ UNCHANGED <<pcontext_vars, preemptive_workload_queue, outcome,
                       timer_vars, latch, committing, global_workload_queue>>

s_starved ==
    LET w == sched.worker_id
    IN  /\ sched.pc = "starved"
        /\ IF Policy > 1 /\ starved(w)
           THEN SchedGoto("dispatch", next_worker)
           ELSE SchedGoto("move", w)
        /\ UNCHANGED <<pcontext_vars, worker_vars, global_workload_queue>>

CanMove(w) ==
    /\ Len(preemptive_workload_queue[w]) < PrioritizedQueueSize
    /\ global_workload_queue # <<>>

s_move ==
    LET w == sched.worker_id
    IN  /\ sched.pc = "move"
        /\ CanMove(w)
        /\ preemptive_workload_queue' = [preemptive_workload_queue EXCEPT
               ![w] = Append(@, Head(global_workload_queue))]
        /\ global_workload_queue' = Tail(global_workload_queue)
        /\ UNCHANGED <<pcontext_vars, main_workload_queue, outcome, timer_vars,
                       latch, committing, sched>>

s_moved ==
    /\ sched.pc = "move"
    /\ ~CanMove(sched.worker_id)
    /\ SchedGoto("send", sched.worker_id)
    /\ UNCHANGED <<pcontext_vars, worker_vars, global_workload_queue>>

s_send ==
    /\ sched.pc = "send"
    /\ IF Policy = 2 THEN senduipi(sched.worker_id) ELSE UNCHANGED upid
    /\ SchedGoto("dispatch", next_worker)
    /\ UNCHANGED <<uif, curr_ctx, regs, fpu, rsp, xsave_area, new_context,
                   lock_counter, in_swap, worker_vars, global_workload_queue>>

SchedulerStep ==
    \/ s_fill \/ s_wait \/ s_arrive \/ s_arrived \/ s_dispatch \/ s_starved
    \/ s_move \/ s_moved \/ s_send

CoreStep(w) ==
    /\ WorkerStep(w)
    /\ UNCHANGED sched_vars

CoreInterrupt(w) ==
    /\ Interrupt(w)
    /\ UNCHANGED sched_vars

Next ==
    \/ SchedulerStep
    \/ \E w \in Worker : CoreStep(w) \/ CoreInterrupt(w)

Spec == Init /\ [][Next]_vars

\* Every thread is pinned to a core of its own and never blocks in the kernel,
\* and a pending interrupt is delivered while UIF stays set.
Fairness ==
    /\ WF_vars(SchedulerStep)
    /\ \A w \in Worker : WF_vars(CoreStep(w)) /\ WF_vars(CoreInterrupt(w))

FairSpec == Spec /\ Fairness
-----------------------------------------------------------------------------
(* Safety.                                                                 *)

\* The frame of every context: live when its core runs it, else the saved one.
frames ==
    [w \in Worker |->
        [c \in Context |-> IF curr_ctx[w] = c THEN regs[w] ELSE rsp[w][c]]]

ContextPC(c) == IF c = Main THEN MainPC ELSE PreemptivePC

InOwnProgram(w, c) ==
    LET fr == frames[w][c]
    IN  \/ fr.pc \in ContextPC(c) /\ fr.txn = Idle
        \/ fr.pc \in BodyPC /\ fr.txn \in Txn
        \/ fr.pc \in BodyPC /\ fr.txn = Regular /\ c = Main

\* Each context only ever runs its own program: whatever the order of
\* interrupts and swaps, the frame that handler_helper or swap_context restores
\* is the one its context was suspended with, and MyWork never runs a frame of
\* do_preemptive_transaction or the other way round.
ControlStaysInContext ==
    \A w \in Worker, c \in Context : InOwnProgram(w, c)

\* The vector registers a context runs with are its own: xsave and xrstor are
\* paired over every path through the handler and swap_context.
VectorRegistersKept ==
    \A w \in Worker :
        /\ curr_ctx[w] = Main => fpu[w] = Main
        /\ curr_ctx[w] # Main => xsave_area[w][Main] = Main
        /\ ~new_context[w] /\ frames[w][Preemptive].pc # "p_loop" =>
               curr_ctx[w] = Preemptive /\ fpu[w] = Preemptive

\* A context that holds a latch is never the suspended one of its core, so a
\* prioritized transaction never spins on a latch of the transaction it
\* preempted.  This is what pcontext::lock is for.
LatchHolderRuns ==
    \A w \in Worker, c \in Context : latch = <<w, c>> => curr_ctx[w] = c

\* The same for a transaction in TXN_COMMITTING, on which readers and writers
\* of its tuples spin (wait_for_commit).
CommitterRuns ==
    \A w \in Worker, c \in Context : <<w, c>> \in committing => curr_ctx[w] = c

\* A prioritized transaction runs to its end with UIF clear, in the preemptive
\* context and in the main loop alike: it is never itself preempted.
PrioritizedNotPreempted ==
    \A w \in Worker :
        /\ frames[w][curr_ctx[w]].txn \in Txn => ~uif[w]
        /\ curr_ctx[w] = Preemptive => frames[w][Main].txn \notin Txn

\* A core is never taken from a context that others wait for, nor from a
\* prioritized transaction.  (With phantom protection a failed commit leaves
\* the state TXN_COMMITTING behind while it aborts, preemptible.)
PreemptionIsSafe ==
    /\ LatchHolderRuns
    /\ ~phantom_prot => CommitterRuns
    /\ PrioritizedNotPreempted

\* Where a prioritized transaction is: waiting in a queue, or being run.  The
\* main loop leaves the transaction it runs at the head of the queue.
Places(t) ==
    {<<"global", i>> : i \in {j \in DOMAIN global_workload_queue :
                                 global_workload_queue[j] = t}}
    \cup UNION {{<<"queue", w, i>> :
              i \in {j \in DOMAIN preemptive_workload_queue[w] :
                        preemptive_workload_queue[w][j] = t}} : w \in Worker}
    \cup {<<"run", w>> : w \in {v \in Worker :
                                   frames[v][Preemptive].txn = t}}

\* Every prioritized transaction under way is in exactly one place, and a
\* finished one in none: the two contexts that consume a preemptive queue never
\* run a transaction twice, and never pop one that nobody ran.
ExactlyOnce ==
    \A t \in Txn :
        Cardinality(Places(t)) = IF outcome[t] = "pending" THEN 1 ELSE 0

\* With retry_aborted_transactions a prioritized transaction only ends by
\* committing or by its own decision, whichever context ran it.
AbortedAreRetried ==
    retry_aborted_transactions => \A t \in Txn : outcome[t] # "aborted"
-----------------------------------------------------------------------------
(* The inductive invariant behind the safety properties, context by        *)
(* context.                                                                *)

\* lock_counter counts the locked regions the context is in: a critical section
\* and Engine::Commit, which phantom aborts leave with the state still
\* TXN_COMMITTING.
LockBalance(w, c) ==
    lock_counter[w][c] =
        (IF frames[w][c].pc \in LatchPC THEN 1 ELSE 0)
        + (IF <<w, c>> \in committing /\ frames[w][c].pc # "t_abort"
           THEN 1 ELSE 0)

LatchPoint(w, c) == latch = <<w, c>> <=> frames[w][c].pc = "t_held"

CommitPoint(w, c) ==
    /\ frames[w][c].pc = "t_commit" => <<w, c>> \in committing
    /\ <<w, c>> \in committing =>
           \/ frames[w][c].pc \in LatchPC \cup {"t_commit"}
           \/ phantom_prot /\ frames[w][c].pc = "t_abort"

\* Where a context can be suspended: the preemptive one only in its own call of
\* swap_context, the main one anywhere it runs unlocked with UIF set.
SuspendedAt(w, c) ==
    curr_ctx[w] # c =>
        /\ c = Preemptive => frames[w][c] = At("p_loop")
        /\ c = Main =>
               /\ frames[w][c].pc \notin LatchPC \cup {"t_commit", "m_stat"}
               /\ frames[w][c].txn \notin Txn

UifClear(w, c) ==
    /\ curr_ctx[w] = c
    /\ frames[w][c].pc \in {"m_stat", "p_check"} \/ frames[w][c].txn \in Txn
    => ~uif[w]

\* What the main context works on stays in its queue: a regular transaction is
\* popped at the end of MyWork's loop, a prioritized one is still the head,
\* whatever the scheduler pushes meanwhile.
WorkQueued(w, c) ==
    LET fr == frames[w][c]
    IN  c = Main =>
            /\ fr.pc \in {"m_stui", "m_begin", "m_end"} \/ fr.txn = Regular =>
                   main_workload_queue[w] > 0
            /\ fr.txn \in Txn =>
                   /\ preemptive_workload_queue[w] # <<>>
                   /\ fr.txn = Head(preemptive_workload_queue[w])

ContextInv(w, c) ==
    /\ InOwnProgram(w, c)
    /\ LockBalance(w, c)
    /\ LatchPoint(w, c)
    /\ CommitPoint(w, c)
    /\ SuspendedAt(w, c)
    /\ UifClear(w, c)
    /\ WorkQueued(w, c)

\* The conjunction is inductive; alone, none of the safety properties is.
PreemptionInv ==
    /\ TypeOK
    /\ \A w \in Worker, c \in Context : ContextInv(w, c)

-----------------------------------------------------------------------------
(* Liveness.                                                               *)

\* A prioritized transaction that arrived is finished: interrupts lost to a
\* locked region or to swap_context, a starved main context and a full queue
\* delay it, but not for ever.
PrioritizedFinishes ==
    \A t \in Txn : outcome[t] = "pending" ~> outcome[t] # "pending"

\* A regular transaction that was begun is finished, however many prioritized
\* transactions arrive: it is resumed when the preemptive queue is empty or the
\* main context is starved.
RegularFinishes ==
    \A w \in Worker :
        frames[w][Main].txn = Regular ~> frames[w][Main].pc = "m_loop"
=============================================================================
