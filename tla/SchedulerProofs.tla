-------------------------- MODULE SchedulerProofs ---------------------------
(***************************************************************************)
(* Interrupts, swaps and the scheduler preserve PreemptionInv, which is    *)
(* therefore an invariant, and the safety properties follow from it.       *)
(***************************************************************************)
EXTENDS TxnBodyProofs

USE DEF Main, Preemptive, Context, Owner, Regular, Idle, Nobody

\* A switch between contexts preserves it when the context left behind is at a
\* point where it may be suspended.
LEMMA SwitchInv ==
  ASSUME PreemptionInv, NEW w \in Worker, NEW to \in Context, NEW fr \in Frame,
         NEW c, c = curr_ctx[w],
         Switch(w, to, fr),
         UNCHANGED <<lock_counter, latch, committing, queue_vars, outcome,
                     preempted_cycles, sched_vars>>,
         uif' \in [Worker -> BOOLEAN], upid' \in [Worker -> BOOLEAN],
         in_swap' \in [Worker -> BOOLEAN], total_cycles' \in [Worker -> Nat],
         \A v \in Worker : v # w => uif'[v] = uif[v],
         \* The frame saved is in an unlocked region, at a point where its context
         \* may be suspended.
         regs[w].pc \notin LatchPC \cup {"t_commit"},
         fr.pc \notin LatchPC \cup {"t_commit"},
         fr.pc = "t_abort" <=> regs[w].pc = "t_abort",
         \/ fr.pc \in ContextPC(c) /\ fr.txn = Idle
         \/ fr.pc \in BodyPC /\ fr.txn = Regular /\ c = Main,
         fr.pc \notin {"m_stat", "m_stui", "m_begin", "m_end", "p_check"}
             \/ (fr.pc = regs[w].pc /\ fr.pc # "m_stat" /\ fr.pc # "p_check"),
         fr.txn = regs[w].txn,
         c = Preemptive /\ to # c => fr = At("p_loop")
  PROVE  PreemptionInv'
  <1>1. TypeOK /\ WorkerTypeOK /\ PContextTypeOK(Frame) /\ c \in Context
    BY ZenonT(60) DEF PreemptionInv, TypeOK, WorkerTypeOK, PContextTypeOK
  <1>2. /\ frames' = [frames EXCEPT ![w][c] = fr]
        /\ curr_ctx' = [curr_ctx EXCEPT ![w] = to]
        /\ frames \in [Worker -> [Context -> Frame]]
        /\ curr_ctx \in [Worker -> Context]
        /\ regs[w] = frames[w][c]
    BY <1>1, SwitchFrames, FramesType DEF PContextTypeOK
  <1>3. PContextTypeOK(Frame)'
    <2>1. curr_ctx' \in [Worker -> Context] BY <1>2
    <2> QED BY <1>1, <2>1, SwitchFrames DEF PContextTypeOK
  <1>4. TypeOK'
    BY <1>1, <1>3 DEF TypeOK, WorkerTypeOK, queue_vars, sched_vars
  <1>5. ASSUME NEW v \in Worker, NEW d \in Context
        PROVE  ContextInv(v, d)'
    <2>1. ContextInv(v, d) /\ ContextInv(w, c) BY <1>1 DEF PreemptionInv
    <2>2. frames'[v][d] = IF v = w /\ d = c THEN fr ELSE frames[v][d]
      BY <1>1, <1>2
    <2>3. InOwnProgram(v, d)' BY <2>1, <2>2 DEF ContextInv, InOwnProgram
    <2>4. LockBalance(v, d)' BY <1>2, <2>1, <2>2 DEF ContextInv, LockBalance, CommitPoint
    <2>5. LatchPoint(v, d)' BY <1>2, <2>1, <2>2 DEF ContextInv, LatchPoint, LatchPC
    <2>6. CommitPoint(v, d)' BY <1>2, <2>1, <2>2 DEF ContextInv, CommitPoint
    <2>7. SuspendedAt(v, d)'
      <3>1. CASE v # w BY <1>2, <2>1, <2>2, <3>1 DEF ContextInv, SuspendedAt
      <3>2. CASE v = w /\ d # c
        BY <1>2, <2>1, <2>2, <3>2 DEF ContextInv, SuspendedAt
      <3>3. CASE v = w /\ d = c
        BY <1>2, <2>1, <2>2, <3>3, WorkerAssumption
           DEF SuspendedAt, ContextPC, MainPC, PreemptivePC, BodyPC, LatchPC
      <3> QED BY <3>1, <3>2, <3>3
    <2>8. UifClear(v, d)'
      <3>1. CASE v # w BY <1>2, <2>1, <2>2, <3>1 DEF ContextInv, UifClear
      <3>2. CASE v = w /\ d # c
        <4>1. SuspendedAt(v, d) /\ curr_ctx[v] # d BY <2>1, <3>2 DEF ContextInv
        <4>2. frames[v][d].pc \notin {"m_stat", "p_check"} /\ frames[v][d].txn \notin Txn
          <5>1. At("p_loop").pc = "p_loop" /\ At("p_loop").txn = Idle
            BY FreshFrames DEF PreemptivePC
          <5>2. CASE d = Preemptive
            BY <4>1, <5>1, <5>2, WorkerAssumption DEF SuspendedAt
          <5>3. CASE d = Main
            BY <2>1, <4>1, <5>3 DEF SuspendedAt, ContextInv, InOwnProgram, ContextPC,
               MainPC, BodyPC, LatchPC
          <5> QED BY <5>2, <5>3
        <4> QED BY <2>2, <3>2, <4>2 DEF UifClear
      <3>3. CASE v = w /\ d = c
        BY <2>2, <3>3, WorkerAssumption DEF UifClear
      <3> QED BY <3>1, <3>2, <3>3
    <2>9. WorkQueued(v, d)'
      <3>1. CASE v # w \/ d # c BY <2>1, <2>2, <3>1 DEF ContextInv, WorkQueued, queue_vars
      <3>2. CASE v = w /\ d = c
        BY <1>2, <2>1, <2>2, <3>2 DEF ContextInv, WorkQueued, queue_vars
      <3> QED BY <3>1, <3>2
    <2> QED BY <2>3, <2>4, <2>5, <2>6, <2>7, <2>8, <2>9 DEF ContextInv
  <1> QED BY <1>4, <1>5 DEF PreemptionInv

\* The interrupt handler preserves it: it switches only when the main context
\* holds no preemption lock.
LEMMA InterruptInv ==
  ASSUME PreemptionInv, NEW w \in Worker, CoreInterrupt(w)
  PROVE  PreemptionInv'
  <1> DEFINE c == curr_ctx[w]
  <1>1. TypeOK /\ WorkerTypeOK /\ PContextTypeOK(Frame)
    BY DEF PreemptionInv, TypeOK, WorkerTypeOK
  <1>2. regs[w] = frames[w][c] /\ ContextInv(w, c) /\ c \in Context /\ regs[w] \in Frame
    BY <1>1, FramesType DEF PreemptionInv, PContextTypeOK
  <1>3. upid' \in [Worker -> BOOLEAN] /\ UNCHANGED <<worker_vars, sched_vars>>
    BY ZenonT(60), <1>1 DEF CoreInterrupt, Interrupt, handler_return, handler_helper, Delivered,
       PContextTypeOK
  <1>4. CASE handler_return(w)
    <2>1. frames' = frames BY <1>4 DEF handler_return, frames
    <2>2. TypeOK'
      BY SMTT(30), <1>1, <1>3, <1>4 DEF handler_return, TypeOK, WorkerTypeOK, PContextTypeOK,
         worker_vars, queue_vars, timer_vars, sched_vars
    <2>3. ASSUME NEW v \in Worker, NEW d \in Context
          PROVE  ContextInv(v, d)'
      <3>1. ContextInv(v, d) BY DEF PreemptionInv
      <3> QED
        BY <1>3, <1>4, <2>1, <3>1
           DEF ContextInv, InOwnProgram, LockBalance, LatchPoint, CommitPoint, SuspendedAt,
               UifClear, WorkQueued, handler_return, worker_vars, queue_vars
    <2> QED BY <2>2, <2>3 DEF PreemptionInv
  <1>5. CASE handler_helper(w)
    <2>1. /\ Switch(w, Preemptive, regs[w]) /\ UNCHANGED <<uif, lock_counter, in_swap>>
          /\ uif[w] /\ ~locked(w)
      BY <1>5 DEF handler_helper, Delivered, Deferred
    <2>2. lock_counter[w][c] = 0
      BY <1>1, <1>2, <2>1 DEF locked, PContextTypeOK
    <2>3. regs[w].pc \notin LatchPC \cup {"t_commit"}
      BY <1>2, <2>2 DEF ContextInv, LockBalance, CommitPoint, LatchPC
    <2>4. regs[w].pc \notin {"m_stat", "p_check"} /\ regs[w].txn \notin Txn
      BY <1>2, <2>1 DEF ContextInv, UifClear
    <2>5. \/ regs[w].pc \in ContextPC(c) /\ regs[w].txn = Idle
          \/ regs[w].pc \in BodyPC /\ regs[w].txn = Regular /\ c = Main
      BY <1>2, <2>4 DEF ContextInv, InOwnProgram
    <2>6. UNCHANGED <<lock_counter, latch, committing, queue_vars, outcome,
                      preempted_cycles, total_cycles, sched_vars>>
      BY <1>3, <2>1 DEF worker_vars, timer_vars
    <2> QED
      BY ZenonT(60), <1>1, <1>2, <1>3, <2>1, <2>3, <2>4, <2>5, <2>6, SwitchInv
         DEF WorkerTypeOK, PContextTypeOK
  <1> QED BY <1>4, <1>5 DEF CoreInterrupt, Interrupt

\* swap_context, from do_preemptive_transaction or from a yield, preserves it.
LEMMA SwapInv ==
  ASSUME PreemptionInv, NEW w \in Worker, UNCHANGED sched_vars,
         \/ p_swap(w) \/ t_yield(w) \/ t_jmp(w)
  PROVE  PreemptionInv'
  <1> DEFINE c == curr_ctx[w]
  <1>1. TypeOK /\ WorkerTypeOK /\ PContextTypeOK(Frame)
    BY DEF PreemptionInv, TypeOK, WorkerTypeOK
  <1>2. regs[w] = frames[w][c] /\ ContextInv(w, c) /\ c \in Context /\ regs[w] \in Frame
    BY <1>1, FramesType DEF PreemptionInv, PContextTypeOK
  <1>3. CASE p_swap(w)
    <2> DEFINE fr == At("p_loop")
    <2>1. fr \in Frame /\ fr.pc = "p_loop" /\ fr.txn = Idle
      BY FreshFrames DEF PreemptivePC
    <2>2. /\ Switch(w, Main, fr) /\ uif' = [uif EXCEPT ![w] = TRUE]
          /\ in_swap' = [in_swap EXCEPT ![w] = TRUE] /\ UNCHANGED upid
          /\ UNCHANGED <<lock_counter, latch, committing, queue_vars, outcome,
                         preempted_cycles, total_cycles, sched_vars>>
          /\ regs[w].pc = "p_check"
      BY <1>3 DEF p_swap, swap_context, pc, worker_vars, timer_vars
    <2>3. /\ uif' \in [Worker -> BOOLEAN] /\ in_swap' \in [Worker -> BOOLEAN]
          /\ upid' \in [Worker -> BOOLEAN] /\ total_cycles' \in [Worker -> Nat]
          /\ \A v \in Worker : v # w => uif'[v] = uif[v]
      BY <1>1, <2>2 DEF PContextTypeOK, WorkerTypeOK
    <2>4. c = Preemptive /\ regs[w].txn = Idle
      BY <1>2, <2>2 DEF ContextInv, InOwnProgram, ContextPC, MainPC, BodyPC, LatchPC
    <2>5. /\ regs[w].pc \notin LatchPC \cup {"t_commit", "t_abort"}
          /\ fr.pc \notin LatchPC \cup {"t_commit", "t_abort", "m_stat", "m_stui",
                                        "m_begin", "m_end", "p_check"}
          /\ fr.pc \in ContextPC(c)
      BY <2>1, <2>2, <2>4 DEF LatchPC, ContextPC, PreemptivePC
    <2> HIDE DEF fr
    <2> QED BY ZenonT(60), <2>1, <2>2, <2>3, <2>4, <2>5, SwitchInv DEF fr
  <1>4. CASE t_yield(w)
    <2> DEFINE fr == Spend(w, "t_work")
    <2>1. fr \in Frame /\ fr.pc = "t_work" /\ fr.txn = regs[w].txn
      BY ZenonT(60), <1>2, <1>4, FrameMoves DEF t_yield, Spend, f, BodyPC
    <2>2. /\ Switch(w, Preemptive, fr) /\ uif' = [uif EXCEPT ![w] = TRUE]
          /\ in_swap' = [in_swap EXCEPT ![w] = TRUE] /\ UNCHANGED upid
          /\ total_cycles' = [total_cycles EXCEPT ![w] = @ + 1]
          /\ UNCHANGED <<lock_counter, latch, committing, queue_vars, outcome,
                         preempted_cycles, sched_vars>>
          /\ regs[w].pc = "t_work" /\ regs[w].txn = Regular
      BY <1>4 DEF t_yield, swap_context, pc, f
    <2>3. /\ uif' \in [Worker -> BOOLEAN] /\ in_swap' \in [Worker -> BOOLEAN]
          /\ upid' \in [Worker -> BOOLEAN] /\ total_cycles' \in [Worker -> Nat]
          /\ \A v \in Worker : v # w => uif'[v] = uif[v]
      BY <1>1, <2>2 DEF PContextTypeOK, WorkerTypeOK
    <2>4. c = Main
      BY <1>2, <2>2, WorkerAssumption
         DEF ContextInv, InOwnProgram, ContextPC, PreemptivePC
    <2>5. /\ regs[w].pc \notin LatchPC \cup {"t_commit", "t_abort"}
          /\ fr.pc \notin LatchPC \cup {"t_commit", "t_abort", "m_stat", "m_stui",
                                        "m_begin", "m_end", "p_check"}
          /\ fr.pc \in BodyPC
      BY <2>1, <2>2 DEF LatchPC, BodyPC
    <2> HIDE DEF fr
    <2> QED BY ZenonT(60), <2>1, <2>2, <2>3, <2>4, <2>5, SwitchInv
  <1>5. CASE t_jmp(w)
    <2>1. frames' = frames BY <1>5 DEF swap_jmp, t_jmp, frames
    <2>2. TypeOK'
      BY ZenonT(60), <1>1, <1>5 DEF swap_jmp, t_jmp, TypeOK, WorkerTypeOK, PContextTypeOK,
         worker_vars, queue_vars, timer_vars, sched_vars
    <2>3. ASSUME NEW v \in Worker, NEW d \in Context
          PROVE  ContextInv(v, d)'
      <3>1. ContextInv(v, d) BY DEF PreemptionInv
      <3> QED
        BY <1>5, <2>1, <3>1
           DEF ContextInv, InOwnProgram, LockBalance, LatchPoint, CommitPoint, SuspendedAt,
               UifClear, WorkQueued, swap_jmp, t_jmp, worker_vars, queue_vars
    <2> QED BY <2>2, <2>3 DEF PreemptionInv
  <1> QED BY <1>3, <1>4, <1>5

\* The scheduler preserves it: it touches no frame, only adds to the queues of a
\* worker, and so leaves the head of a preemptive queue in place.
LEMMA SchedulerInv ==
  ASSUME PreemptionInv, SchedulerStep
  PROVE  PreemptionInv'
  <1> USE DEF worker_vars, queue_vars, timer_vars, pcontext_vars
  <1> DEFINE u == sched.worker_id
  <1>1. TypeOK /\ WorkerTypeOK /\ PContextTypeOK(Frame)
    BY DEF PreemptionInv, TypeOK, WorkerTypeOK
  <1>2. /\ main_workload_queue \in [Worker -> 0..MainQueueSize]
        /\ preemptive_workload_queue \in [Worker -> Seq(Txn)]
        /\ \A v \in Worker : Len(preemptive_workload_queue[v]) <= PrioritizedQueueSize
        /\ outcome \in [Txn -> Outcome]
        /\ global_workload_queue \in Seq(Txn)
        /\ Len(global_workload_queue) <= GlobalQueueSize
        /\ sched \in [pc : SchedPC, worker_id : Worker] /\ u \in Worker
    BY <1>1 DEF TypeOK, WorkerTypeOK
  <1>3. next_worker \in Worker /\ 0 \in Worker
    BY <1>2, SchedulerAssumption DEF next_worker
  <1>4. UNCHANGED <<uif, curr_ctx, regs, fpu, rsp, xsave_area, new_context, lock_counter,
                    in_swap, total_cycles, preempted_cycles, latch, committing>>
    BY DEF SchedulerStep, s_fill, s_wait, s_arrive, s_arrived, s_dispatch, s_starved,
       s_move, s_moved, s_send
  <1>5. upid' \in [Worker -> BOOLEAN]
    BY ZenonT(60), <1>1 DEF SchedulerStep, s_fill, s_wait, s_arrive, s_arrived, s_dispatch, s_starved,
       s_move, s_moved, s_send, senduipi, PContextTypeOK
  <1>6. sched' \in [pc : SchedPC, worker_id : Worker]
    BY <1>2, <1>3 DEF SchedulerStep, s_fill, s_wait, s_arrive, s_arrived, s_dispatch,
       s_starved, s_move, s_moved, s_send, SchedGoto, SchedPC
  <1>7. /\ main_workload_queue' \in [Worker -> 0..MainQueueSize]
        /\ \A v \in Worker : main_workload_queue[v] > 0 => main_workload_queue'[v] > 0
    <2>1. CASE s_fill BY <1>2, <2>1, WorkerAssumption DEF s_fill
    <2>2. CASE s_dispatch
      <3>1. \/ UNCHANGED main_workload_queue
            \/ main_workload_queue' =
                   [main_workload_queue EXCEPT ![u] = IF @ = 0 THEN 1 ELSE @]
        BY <2>2 DEF s_dispatch
      <3>2. MainQueueSize \in Nat /\ MainQueueSize >= 1 BY WorkerAssumption
      <3>3. CASE UNCHANGED main_workload_queue BY <1>2, <3>3
      <3>4. CASE main_workload_queue' =
                     [main_workload_queue EXCEPT ![u] = IF @ = 0 THEN 1 ELSE @]
        <4> DEFINE n == IF main_workload_queue[u] = 0 THEN 1 ELSE main_workload_queue[u]
        <4>1. n \in 0..MainQueueSize /\ n > 0 BY <1>2, <3>2
        <4>2. main_workload_queue' = [main_workload_queue EXCEPT ![u] = n] BY <3>4
        <4> HIDE DEF n
        <4> QED BY <1>2, <4>1, <4>2
      <3> QED BY <3>1, <3>3, <3>4
    <2>3. CASE ~s_fill /\ ~s_dispatch
      BY <1>2, <2>3 DEF SchedulerStep, s_wait, s_arrive, s_arrived, s_starved, s_move,
         s_moved, s_send
    <2> QED BY <2>1, <2>2, <2>3
  <1>8. /\ preemptive_workload_queue' \in [Worker -> Seq(Txn)]
        /\ \A v \in Worker : Len(preemptive_workload_queue'[v]) <= PrioritizedQueueSize
        /\ \A v \in Worker : preemptive_workload_queue[v] # <<>> =>
               /\ preemptive_workload_queue'[v] # <<>>
               /\ Head(preemptive_workload_queue'[v]) = Head(preemptive_workload_queue[v])
    <2>1. CASE s_move
      <3> DEFINE q == preemptive_workload_queue[u]
                 t == Head(global_workload_queue)
      <3>1. /\ t \in Txn /\ q \in Seq(Txn) /\ Len(q) < PrioritizedQueueSize
        BY <1>2, <2>1 DEF s_move, CanMove
      <3>2. /\ Append(q, t) \in Seq(Txn) /\ Len(Append(q, t)) <= PrioritizedQueueSize
            /\ q # <<>> => Append(q, t) # <<>> /\ Head(Append(q, t)) = Head(q)
        BY <3>1, WorkerAssumption
      <3>3. preemptive_workload_queue' =
                [preemptive_workload_queue EXCEPT ![u] = Append(q, t)]
        BY <2>1 DEF s_move
      <3> HIDE DEF t
      <3> QED BY <1>2, <3>2, <3>3
    <2>2. CASE ~s_move
      <3>1. UNCHANGED preemptive_workload_queue
        BY <2>2 DEF SchedulerStep, s_fill, s_wait, s_arrive, s_arrived, s_dispatch,
           s_starved, s_moved, s_send
      <3> QED BY <1>2, <3>1
    <2> QED BY <2>1, <2>2
  <1>9. /\ global_workload_queue' \in Seq(Txn)
        /\ Len(global_workload_queue') <= GlobalQueueSize
        /\ outcome' \in [Txn -> Outcome]
    <2>1. CASE s_arrive
      BY <1>2, <2>1, SchedulerAssumption DEF s_arrive, Outcome
    <2>2. CASE s_move
      BY <1>2, <2>2, SchedulerAssumption DEF s_move, CanMove
    <2>3. CASE ~s_arrive /\ ~s_move
      BY <1>2, <2>3 DEF SchedulerStep, s_fill, s_wait, s_arrived, s_dispatch,
         s_starved, s_moved, s_send
    <2> QED BY <2>1, <2>2, <2>3
  <1>10. TypeOK'
    <2>1. PContextTypeOK(Frame)' BY <1>1, <1>4, <1>5 DEF PContextTypeOK
    <2>2. WorkerTypeOK' BY <1>1, <1>4, <1>7, <1>8, <1>9, <2>1 DEF WorkerTypeOK
    <2> QED BY <1>6, <1>9, <2>2 DEF TypeOK
  <1>11. frames' = frames BY <1>4 DEF frames
  <1>12. ASSUME NEW v \in Worker, NEW d \in Context
         PROVE  ContextInv(v, d)'
    <2>1. ContextInv(v, d) BY DEF PreemptionInv
    <2>2. WorkQueued(v, d)' BY ZenonT(60), <1>7, <1>8, <1>11, <2>1 DEF ContextInv, WorkQueued
    <2> QED
      BY ZenonT(60), <1>4, <1>11, <2>1, <2>2
         DEF ContextInv, InOwnProgram, LockBalance, LatchPoint, CommitPoint, SuspendedAt,
             UifClear
  <1> QED BY <1>10, <1>12 DEF PreemptionInv

\* The invariant holds when the workers enter MyWork.
LEMMA InitInv ==
  ASSUME Init
  PROVE  PreemptionInv
  <1>1. /\ At("m_loop") \in Frame /\ At("m_loop").pc = "m_loop" /\ At("m_loop").txn = Idle
        /\ At("p_loop") \in Frame /\ At("p_loop").pc = "p_loop" /\ At("p_loop").txn = Idle
    BY FreshFrames DEF MainPC, PreemptivePC
  <1>2. PContextTypeOK(Frame)
    BY <1>1 DEF Init, WorkerInit, PContextInit, PContextTypeOK
  <1>3. WorkerTypeOK
    BY <1>2, WorkerAssumption DEF Init, WorkerInit, WorkerTypeOK, Outcome
  <1>4. TypeOK
    BY <1>3, SchedulerAssumption DEF Init, TypeOK, SchedPC
  <1>5. ASSUME NEW w \in Worker, NEW c \in Context
        PROVE  ContextInv(w, c)
    <2>1. /\ frames[w][c] = At(IF c = Main THEN "m_loop" ELSE "p_loop")
          /\ lock_counter[w][c] = 0 /\ latch = Nobody /\ committing = {}
          /\ curr_ctx[w] = Main
      BY DEF Init, WorkerInit, PContextInit, frames
    <2>2. latch # <<w, c>> BY <2>1
    <2>3. InOwnProgram(w, c)
      BY <1>1, <2>1 DEF InOwnProgram, ContextPC, MainPC, PreemptivePC
    <2>4. LockBalance(w, c) BY <1>1, <2>1 DEF LockBalance, LatchPC
    <2>5. LatchPoint(w, c) BY <1>1, <2>1, <2>2 DEF LatchPoint
    <2>6. CommitPoint(w, c) BY <1>1, <2>1 DEF CommitPoint
    <2>7. SuspendedAt(w, c) BY <2>1 DEF SuspendedAt
    <2>8. UifClear(w, c) BY <1>1, <2>1, WorkerAssumption DEF UifClear
    <2>9. WorkQueued(w, c) BY <1>1, <2>1, WorkerAssumption DEF WorkQueued
    <2> QED BY <2>3, <2>4, <2>5, <2>6, <2>7, <2>8, <2>9 DEF ContextInv
  <1> QED BY <1>4, <1>5 DEF PreemptionInv

\* PreemptionInv holds in every state: the initial state satisfies it, and every
\* step of the scheduler, of a core and of the interrupt hardware preserves it.
THEOREM PreemptionInvariant == Spec => []PreemptionInv
  <1>1. Init => PreemptionInv BY InitInv
  <1>2. PreemptionInv /\ [Next]_vars => PreemptionInv'
    <2> SUFFICES ASSUME PreemptionInv, [Next]_vars PROVE PreemptionInv'
      OBVIOUS
    <2>1. CASE SchedulerStep BY <2>1, SchedulerInv
    <2>2. ASSUME NEW w \in Worker, CoreStep(w) PROVE PreemptionInv'
      <3> DEFINE
        main_loop == m_clui(w) \/ m_idle(w) \/ m_prioritized(w) \/ m_regular(w) \/ m_stui(w) \/ m_begin(w)
        finish == m_finish_regular(w) \/ m_pop(w) \/ m_finish_prioritized(w) \/ p_finish(w)
        preemptive_loop == p_clui(w) \/ p_run(w)
        body == t_step(w) \/ t_meet(w) \/ t_met(w) \/ t_error(w)
        region == \/ t_lock(w) \/ t_acquire(w) \/ t_release(w) \/ t_unlock(w)
                  \/ t_commit(w) \/ t_committed(w) \/ t_phantom(w) \/ t_abort(w)
        swap == p_swap(w) \/ t_yield(w) \/ t_jmp(w)
      <3>1. UNCHANGED sched_vars BY <2>2 DEF CoreStep
      <3>2. main_loop \/ finish \/ preemptive_loop \/ body \/ region \/ swap
        BY <2>2 DEF CoreStep, WorkerStep
      <3>3. main_loop => PreemptionInv' BY <3>1, MainLoopInv
      <3>4. finish => PreemptionInv' BY <3>1, FinishInv
      <3>5. preemptive_loop => PreemptionInv' BY <3>1, PreemptiveLoopInv
      <3>6. body => PreemptionInv' BY <3>1, BodyInv
      <3>7. region => PreemptionInv' BY <3>1, RegionInv
      <3>8. swap => PreemptionInv' BY <3>1, SwapInv
      <3> HIDE DEF main_loop, finish, preemptive_loop, body, region, swap
      <3> QED BY <3>2, <3>3, <3>4, <3>5, <3>6, <3>7, <3>8
    <2>3. ASSUME NEW w \in Worker, CoreInterrupt(w) PROVE PreemptionInv'
      BY <2>3, InterruptInv
    <2>4. CASE UNCHANGED vars
      <3>1. /\ UNCHANGED <<uif, upid, curr_ctx, regs, fpu, rsp, xsave_area, new_context,
                           lock_counter, in_swap>>
            /\ UNCHANGED <<queue_vars, outcome, timer_vars, latch, committing, sched_vars>>
        BY <2>4 DEF vars, pcontext_vars, worker_vars
      <3>2. frames' = frames BY <3>1 DEF frames
      <3>3. TypeOK'
        BY <3>1 DEF PreemptionInv, TypeOK, WorkerTypeOK, PContextTypeOK, queue_vars,
           timer_vars, sched_vars
      <3>4. ASSUME NEW v \in Worker, NEW d \in Context PROVE ContextInv(v, d)'
        <4>1. ContextInv(v, d) BY DEF PreemptionInv
        <4> QED
          BY <3>1, <3>2, <4>1
             DEF ContextInv, InOwnProgram, LockBalance, LatchPoint, CommitPoint,
                 SuspendedAt, UifClear, WorkQueued, queue_vars
      <3> QED BY <3>3, <3>4 DEF PreemptionInv
    <2> QED BY <2>1, <2>2, <2>3, <2>4 DEF Next
  <1> QED BY <1>1, <1>2, PTL DEF Spec

\* Whatever the number of workers and the interleaving, each context only ever
\* runs its own program (handler_helper and swap_context restore the right frame).
THEOREM ControlIsKept == Spec => []ControlStaysInContext
  <1>1. PreemptionInv => ControlStaysInContext
    BY DEF PreemptionInv, ContextInv, ControlStaysInContext
  <1> QED BY <1>1, PreemptionInvariant, PTL

\* A context that holds a latch is never suspended: pcontext::lock does what the
\* latches of the index and of the allocators need it to do.
THEOREM LatchHoldersRun == Spec => []LatchHolderRuns
  <1>1. PreemptionInv => LatchHolderRuns
    BY DEF PreemptionInv, ContextInv, LatchHolderRuns, LatchPoint, SuspendedAt, LatchPC,
       At
  <1> QED BY <1>1, PreemptionInvariant, PTL

\* Without phantom protection a transaction in TXN_COMMITTING is never suspended,
\* so wait_for_commit never spins on a transaction of its own core.
THEOREM CommittersRun == ASSUME ~phantom_prot PROVE Spec => []CommitterRuns
  <1>1. PreemptionInv => CommitterRuns
    <2> SUFFICES ASSUME PreemptionInv, NEW w \in Worker, NEW c \in Context,
                        <<w, c>> \in committing, curr_ctx[w] # c
                 PROVE  FALSE
      BY ZenonT(60) DEF CommitterRuns
    <2>1. CommitPoint(w, c) /\ SuspendedAt(w, c) BY DEF PreemptionInv, ContextInv
    <2>2. frames[w][c].pc \in LatchPC \cup {"t_commit"} BY <2>1 DEF CommitPoint
    <2>3. c = Main BY <2>1, <2>2 DEF SuspendedAt, LatchPC, At
    <2> QED BY <2>1, <2>2, <2>3 DEF SuspendedAt
  <1> QED BY <1>1, PreemptionInvariant, PTL

\* A prioritized transaction is never preempted, in either context.
THEOREM PrioritizedRunsThrough == Spec => []PrioritizedNotPreempted
  <1>1. PreemptionInv => PrioritizedNotPreempted
    <2> SUFFICES ASSUME PreemptionInv, NEW w \in Worker
                 PROVE  /\ frames[w][curr_ctx[w]].txn \in Txn => ~uif[w]
                        /\ curr_ctx[w] = Preemptive => frames[w][Main].txn \notin Txn
      BY ZenonT(60) DEF PrioritizedNotPreempted
    <2>1. curr_ctx[w] \in Context
      BY DEF PreemptionInv, TypeOK, WorkerTypeOK, PContextTypeOK
    <2> QED BY <2>1 DEF PreemptionInv, ContextInv, UifClear, SuspendedAt
  <1> QED BY <1>1, PreemptionInvariant, PTL
=============================================================================
