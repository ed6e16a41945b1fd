------------------------------- MODULE Worker -------------------------------
(***************************************************************************)
(* The program the two contexts of a worker run: the worker branch of      *)
(* tpcc_sequential_worker::MyWork (main context), bench_worker::           *)
(* do_preemptive_transaction (preemptive context), and, in either, the     *)
(* body of a transaction.  A body is a bounded number of steps, each a     *)
(* stretch of preemptible code, a critical section under pcontext::lock    *)
(* and a latch, or an access to a tuple that another transaction wrote and *)
(* may be committing; then Engine::Commit or Engine::Abort.                *)
(*                                                                         *)
(* Time is counted in ticks: one per preemptible step of a regular         *)
(* transaction and one per prioritized transaction.                        *)
(***************************************************************************)
EXTENDS PContext, Integers, Sequences

CONSTANTS
    Txn,                       \* prioritized transactions (tokens, reused)
    Policy,                    \* scheduling_policy
    max_preempted_cycle_pct,
    retry_aborted_transactions,
    phantom_prot,
    MainQueueSize, PrioritizedQueueSize,
    TxnSteps,                  \* bound: steps of a transaction's body
    MaxTicks                   \* bound: ticks after which no attempt is retried

ASSUME WorkerAssumption ==
    /\ "regular" \notin Txn /\ "none" \notin Txn
    /\ Policy \in 1..3
    /\ max_preempted_cycle_pct \in 0..100
    /\ retry_aborted_transactions \in BOOLEAN
    /\ phantom_prot \in BOOLEAN
    /\ MainQueueSize \in Nat \ {0}
    /\ PrioritizedQueueSize \in Nat \ {0}
    /\ TxnSteps \in Nat \ {0}
    /\ MaxTicks \in Nat

VARIABLES
    main_workload_queue,       \* number of regular transactions queued
    preemptive_workload_queue, \* prioritized transactions queued, in order
    outcome,                   \* what became of each prioritized transaction
    total_cycles,              \* rdtsc() - start_timestamp of the main context
    preempted_cycles,
    latch,                     \* holder of the shared latch
    committing                 \* contexts whose transaction is TXN_COMMITTING

timer_vars == <<total_cycles, preempted_cycles>>
queue_vars == <<main_workload_queue, preemptive_workload_queue>>
worker_vars == <<queue_vars, outcome, timer_vars, latch, committing>>

Nobody == <<>>
Who == Worker \X Context
Self(w) == <<w, curr_ctx[w]>>

Regular == "regular"           \* some transaction of the regular mix
Idle == "none"

MainPC == {"m_loop", "m_stat", "m_stui", "m_begin", "m_end"}
PreemptivePC == {"p_loop", "p_check"}
LatchPC == {"t_locked", "t_held", "t_unlock"}
BodyPC == LatchPC \cup {"t_work", "t_spin", "t_commit", "t_abort",
                       "t_ok", "t_fail", "t_user"}

Frame == [pc : MainPC \cup PreemptivePC \cup BodyPC,
          txn : Txn \cup {Regular, Idle},
          left : 0..TxnSteps,
          target : Who \cup {Nobody}]

At(pc) == [pc |-> pc, txn |-> Idle, left |-> 0, target |-> Nobody]
Body(t) == [pc |-> "t_work", txn |-> t, left |-> TxnSteps, target |-> Nobody]

Outcome == {"free", "pending", "committed", "aborted", "user_aborted"}

WorkerTypeOK ==
    /\ PContextTypeOK(Frame)
    /\ main_workload_queue \in [Worker -> 0..MainQueueSize]
    /\ preemptive_workload_queue \in [Worker -> Seq(Txn)]
    /\ \A w \in Worker :
          Len(preemptive_workload_queue[w]) <= PrioritizedQueueSize
    /\ outcome \in [Txn -> Outcome]
    /\ total_cycles \in [Worker -> Nat]
    /\ preempted_cycles \in [Worker -> Nat]
    /\ latch \in Who \cup {Nobody}
    /\ committing \subseteq Who

WorkerInit ==
    /\ PContextInit([c \in Context |->
                        At(IF c = Main THEN "m_loop" ELSE "p_loop")])
    /\ main_workload_queue = [w \in Worker |-> 0]
    /\ preemptive_workload_queue = [w \in Worker |-> <<>>]
    /\ outcome = [t \in Txn |-> "free"]
    /\ total_cycles = [w \in Worker |-> 0]
    /\ preempted_cycles = [w \in Worker |-> 0]
    /\ latch = Nobody
    /\ committing = {}
-----------------------------------------------------------------------------
pc(w) == regs[w].pc
f(w) == regs[w]

\* Take one step at program point `from' of the running context.
Run(w, from, to) == pc(w) = from /\ Execute(w, to)

\* The step neither sets UIF nor enters or leaves a locked region.
Plain == UNCHANGED <<uif, lock_counter>>

\* 100 * preempted / total is not a number, hence not above the limit, at 0/0.
starved(w) ==
    100 * preempted_cycles[w] > max_preempted_cycle_pct * total_cycles[w]

reset_timer(w) ==
    /\ total_cycles' = [total_cycles EXCEPT ![w] = IF Policy > 1 THEN 0 ELSE @]
    /\ preempted_cycles' =
           [preempted_cycles EXCEPT ![w] = IF Policy > 1 THEN 0 ELSE @]

\* A prioritized transaction took one tick, all of it from the main context.
add_preempted_time(w) ==
    IF Policy > 1
    THEN /\ total_cycles' = [total_cycles EXCEPT ![w] = @ + 1]
         /\ preempted_cycles' = [preempted_cycles EXCEPT ![w] = @ + 1]
    ELSE UNCHANGED timer_vars
-----------------------------------------------------------------------------
(* The main context: MyWork.                                               *)

\* Mutant: interrupts stay enabled while the main loop looks at its queues.
m_no_clui(w) ==
    /\ Run(w, "m_loop", At("m_stat"))
    /\ Plain
    /\ UNCHANGED worker_vars

m_clui(w) ==
    /\ Run(w, "m_loop", At("m_stat"))
    /\ uif' = [uif EXCEPT ![w] = FALSE]
    /\ UNCHANGED <<lock_counter, worker_vars>>

\* stat 0b000 and 0b100: nothing to do, UIF stays clear.
m_idle(w) ==
    /\ main_workload_queue[w] = 0
    /\ preemptive_workload_queue[w] = <<>>
    /\ Run(w, "m_stat", At("m_loop"))
    /\ Plain
    /\ UNCHANGED worker_vars

\* Mutant: prioritized work is left to the interrupt while there is other work.
PrioritizedLast(w) ==
    /\ preemptive_workload_queue[w] # <<>>
    /\ main_workload_queue[w] = 0

\* stat 0b001, 0b011 and 0b101: prioritized work first, unless the main context
\* is starved and has work.  The head is popped only when it is finished.
PrioritizedFirst(w) ==
    /\ preemptive_workload_queue[w] # <<>>
    /\ main_workload_queue[w] = 0 \/ Policy = 1 \/ ~starved(w)

m_prioritized(w) ==
    /\ PrioritizedFirst(w)
    /\ Run(w, "m_stat", Body(Head(preemptive_workload_queue[w])))
    /\ Plain
    /\ UNCHANGED worker_vars

\* stat 0b010, 0b110 and 0b111: a regular transaction, preemptible from here.
m_regular(w) ==
    /\ main_workload_queue[w] > 0
    /\ ~PrioritizedFirst(w)
    /\ Run(w, "m_stat", At("m_stui"))
    /\ Plain
    /\ UNCHANGED worker_vars

m_stui(w) ==
    /\ Run(w, "m_stui", At("m_begin"))
    /\ uif' = [uif EXCEPT ![w] = TRUE]
    /\ UNCHANGED <<lock_counter, worker_vars>>

m_begin(w) ==
    /\ Run(w, "m_begin", Body(Regular))
    /\ reset_timer(w)
    /\ Plain
    /\ UNCHANGED <<queue_vars, outcome, latch, committing>>

\* finish_workload says whether to run the transaction again.
Finished == {"t_ok", "t_fail", "t_user"}
Again(w) == pc(w) = "t_fail" /\ retry_aborted_transactions

OutcomeAt(p) == CASE p = "t_ok" -> "committed"
                  [] p = "t_fail" -> "aborted"
                  [] p = "t_user" -> "user_aborted"

m_finish_regular(w) ==
    /\ pc(w) \in Finished
    /\ f(w).txn = Regular
    /\ IF Again(w)
       THEN Execute(w, Body(Regular)) /\ UNCHANGED timer_vars
       ELSE Execute(w, At("m_end")) /\ reset_timer(w)
    /\ Plain
    /\ UNCHANGED <<queue_vars, outcome, latch, committing>>

m_pop(w) ==
    /\ Run(w, "m_end", At("m_loop"))
    /\ main_workload_queue' = [main_workload_queue EXCEPT ![w] = @ - 1]
    /\ Plain
    /\ UNCHANGED <<preemptive_workload_queue, outcome, timer_vars, latch,
                   committing>>

m_finish_prioritized(w) ==
    /\ pc(w) \in Finished
    /\ curr_ctx[w] = Main
    /\ f(w).txn \in Txn
    /\ add_preempted_time(w)
    /\ IF Again(w)
       THEN /\ Execute(w, Body(f(w).txn))
            /\ UNCHANGED <<preemptive_workload_queue, outcome>>
       ELSE /\ Execute(w, At("m_loop"))
            /\ preemptive_workload_queue' =
                   [preemptive_workload_queue EXCEPT ![w] = Tail(@)]
            /\ outcome' = [outcome EXCEPT ![f(w).txn] = OutcomeAt(pc(w))]
    /\ Plain
    /\ UNCHANGED <<main_workload_queue, latch, committing>>
-----------------------------------------------------------------------------
(* The preemptive context: do_preemptive_transaction.                      *)

p_clui(w) ==
    /\ Run(w, "p_loop", At("p_check"))
    /\ uif' = [uif EXCEPT ![w] = FALSE]
    /\ UNCHANGED <<lock_counter, worker_vars>>

NoPreemptiveWork(w) == preemptive_workload_queue[w] = <<>> \/ starved(w)

p_swap(w) ==
    /\ pc(w) = "p_check"
    /\ ~in_swap[w]
    /\ NoPreemptiveWork(w)
    /\ swap_context(w, Main, At("p_loop"))
    /\ UNCHANGED worker_vars

\* Mutant: the head stays in the queue.
p_run_no_pop(w) ==
    /\ ~NoPreemptiveWork(w)
    /\ Run(w, "p_check", Body(Head(preemptive_workload_queue[w])))
    /\ Plain
    /\ UNCHANGED worker_vars

p_run(w) ==
    /\ ~NoPreemptiveWork(w)
    /\ Run(w, "p_check", Body(Head(preemptive_workload_queue[w])))
    /\ preemptive_workload_queue' =
           [preemptive_workload_queue EXCEPT ![w] = Tail(@)]
    /\ Plain
    /\ UNCHANGED <<main_workload_queue, outcome, timer_vars, latch, committing>>

\* An aborted transaction is not run again here, whatever finish_workload says.
p_finish(w) ==
    /\ pc(w) \in Finished
    /\ curr_ctx[w] = Preemptive
    /\ Execute(w, At("p_loop"))
    /\ add_preempted_time(w)
    /\ outcome' = [outcome EXCEPT ![f(w).txn] = OutcomeAt(pc(w))]
    /\ Plain
    /\ UNCHANGED <<queue_vars, latch, committing>>
-----------------------------------------------------------------------------
(* The body of a transaction, in either context.                           *)

Goto(w, p) == [f(w) EXCEPT !.pc = p]
Spend(w, p) == [f(w) EXCEPT !.pc = p, !.left = @ - 1]

t_step(w) ==
    /\ f(w).left > 0
    /\ Run(w, "t_work", Spend(w, "t_work"))
    /\ total_cycles' = [total_cycles EXCEPT
           ![w] = IF f(w).txn = Regular /\ Policy > 1 THEN @ + 1 ELSE @]
    /\ Plain
    /\ UNCHANGED <<queue_vars, outcome, preempted_cycles, latch, committing>>

\* The yield of TxnQuery2 under the cooperative policy.  Only the regular mix
\* holds transactions that yield.
t_yield(w) ==
    /\ Policy = 3
    /\ pc(w) = "t_work"
    /\ ~in_swap[w]
    /\ f(w).txn = Regular
    /\ f(w).left > 0
    /\ swap_context(w, Preemptive, Spend(w, "t_work"))
    /\ total_cycles' = [total_cycles EXCEPT ![w] = @ + 1]
    /\ UNCHANGED <<queue_vars, outcome, preempted_cycles, latch, committing>>

\* Enter a critical section, before the commit or within it.
t_lock(w) ==
    /\ pc(w) \in {"t_work", "t_commit"}
    /\ f(w).left > 0
    /\ Execute(w, Spend(w, "t_locked"))
    /\ lock(w)
    /\ UNCHANGED <<uif, worker_vars>>

t_acquire(w) ==
    /\ Run(w, "t_locked", Goto(w, "t_held"))
    /\ latch = Nobody
    /\ latch' = Self(w)
    /\ Plain
    /\ UNCHANGED <<queue_vars, outcome, timer_vars, committing>>

t_release(w) ==
    /\ Run(w, "t_held", Goto(w, "t_unlock"))
    /\ latch' = Nobody
    /\ Plain
    /\ UNCHANGED <<queue_vars, outcome, timer_vars, committing>>

t_unlock(w) ==
    /\ Run(w, "t_unlock",
           Goto(w, IF Self(w) \in committing THEN "t_commit" ELSE "t_work"))
    /\ unlock(w)
    /\ UNCHANGED <<uif, worker_vars>>

\* The version at hand carries the XID of another transaction ...
t_meet(w) ==
    /\ f(w).left > 0
    /\ \E other \in Who \ {Self(w)} :
          Run(w, "t_work", [Spend(w, "t_spin") EXCEPT !.target = other])
    /\ Plain
    /\ UNCHANGED worker_vars

\* ... and wait_for_commit spins while that transaction is TXN_COMMITTING.
t_met(w) ==
    /\ f(w).target \notin committing
    /\ Run(w, "t_spin", [Goto(w, "t_work") EXCEPT !.target = Nobody])
    /\ Plain
    /\ UNCHANGED worker_vars

\* Engine::Commit: preemption is locked around transaction::commit.
t_commit(w) ==
    /\ Run(w, "t_work", Goto(w, "t_commit"))
    /\ lock(w)
    /\ committing' = committing \cup {Self(w)}
    /\ UNCHANGED <<uif, queue_vars, outcome, timer_vars, latch>>

t_committed(w) ==
    /\ Run(w, "t_commit", Goto(w, "t_ok"))
    /\ unlock(w)
    /\ committing' = committing \ {Self(w)}
    /\ UNCHANGED <<uif, queue_vars, outcome, timer_vars, latch>>

\* si_commit returns RC_ABORT_PHANTOM with the state still TXN_COMMITTING;
\* Engine::Commit unlocks and the caller then calls Engine::Abort.
t_phantom(w) ==
    /\ phantom_prot
    /\ retry_aborted_transactions => total_cycles[w] < MaxTicks
    /\ Run(w, "t_commit", Goto(w, "t_abort"))
    /\ unlock(w)
    /\ UNCHANGED <<uif, worker_vars>>

\* An operation of the body failed (a write conflict, or a user abort).  With
\* retries the failed attempts are bounded, as each adds to total_cycles.
t_error(w) ==
    /\ retry_aborted_transactions => total_cycles[w] < MaxTicks
    /\ Run(w, "t_work", Goto(w, "t_abort"))
    /\ Plain
    /\ UNCHANGED worker_vars

\* Engine::Abort: one step, since nothing interrupts a locked region.
t_abort(w) ==
    /\ \E p \in {"t_fail", "t_user"} :
          /\ Self(w) \in committing => p = "t_fail"
          /\ Run(w, "t_abort", Goto(w, p))
    /\ committing' = committing \ {Self(w)}
    /\ Plain
    /\ UNCHANGED <<queue_vars, outcome, timer_vars, latch>>

\* The end of swap_context, in whichever context it went to.
t_jmp(w) ==
    /\ swap_jmp(w)
    /\ UNCHANGED worker_vars

\* Everything the core of worker w does by executing instructions.
WorkerStep(w) ==
    \/ m_clui(w) \/ m_idle(w) \/ m_prioritized(w) \/ m_regular(w)
    \/ m_stui(w) \/ m_begin(w) \/ m_finish_regular(w) \/ m_pop(w)
    \/ m_finish_prioritized(w)
    \/ p_clui(w) \/ p_swap(w) \/ p_run(w) \/ p_finish(w)
    \/ t_step(w) \/ t_yield(w) \/ t_lock(w) \/ t_acquire(w) \/ t_release(w)
    \/ t_unlock(w) \/ t_meet(w) \/ t_met(w) \/ t_commit(w) \/ t_committed(w)
    \/ t_phantom(w) \/ t_error(w) \/ t_abort(w)
    \/ t_jmp(w)

Interrupt(w) ==
    /\ handler_return(w) \/ handler_helper(w)
    /\ UNCHANGED worker_vars
=============================================================================
