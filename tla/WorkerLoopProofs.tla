-------------------------- MODULE WorkerLoopProofs --------------------------
(***************************************************************************)
(* The loops of the two contexts preserve PreemptionInv, and the lemmas on *)
(* frames, types and other contexts that all of its proofs rest on.        *)
(***************************************************************************)
EXTENDS Scheduler, TLAPS

USE DEF Main, Preemptive, Context, Owner, Regular, Idle, Nobody

\* The frames of all contexts are frames, and the running one is in regs.
LEMMA FramesType ==
  ASSUME PContextTypeOK(Frame)
  PROVE  /\ frames \in [Worker -> [Context -> Frame]]
         /\ \A w \in Worker : regs[w] = frames[w][curr_ctx[w]]
  BY DEF PContextTypeOK, frames

\* An instruction of the running context changes the frame of that context
\* alone.
LEMMA ExecuteFrames ==
  ASSUME PContextTypeOK(Frame), NEW w \in Worker, NEW fr \in Frame, Execute(w, fr)
  PROVE  /\ frames' = [frames EXCEPT ![w][curr_ctx[w]] = fr]
         /\ regs' \in [Worker -> Frame]
         /\ fpu' \in [Worker -> Owner]
         /\ UNCHANGED <<upid, curr_ctx, rsp, xsave_area, new_context, in_swap>>
  <1>1. frames' = [frames EXCEPT ![w][curr_ctx[w]] = fr]
    BY ZenonT(60) DEF PContextTypeOK, frames, Execute
  <1> QED BY <1>1 DEF PContextTypeOK, Execute

\* A switch saves the frame of the context it leaves and restores, unchanged,
\* the one of the context it enters; no other frame moves.
LEMMA SwitchFrames ==
  ASSUME PContextTypeOK(Frame), NEW w \in Worker, NEW to \in Context, NEW fr \in Frame, Switch(w, to, fr)
  PROVE  /\ frames' = [frames EXCEPT ![w][curr_ctx[w]] = fr]
         /\ curr_ctx' = [curr_ctx EXCEPT ![w] = to]
         /\ regs' \in [Worker -> Frame]
         /\ fpu' \in [Worker -> Owner]
         /\ rsp' \in [Worker -> [Context -> Frame]]
         /\ xsave_area' \in [Worker -> [Context -> Owner]]
         /\ new_context' \in [Worker -> BOOLEAN]
  <1>1. frames' = [frames EXCEPT ![w][curr_ctx[w]] = fr]
    BY ZenonT(60) DEF PContextTypeOK, frames, Switch
  <1>2. regs' \in [Worker -> Frame] /\ rsp' \in [Worker -> [Context -> Frame]]
    BY DEF PContextTypeOK, Switch
  <1>3. fpu' \in [Worker -> Owner] /\ xsave_area' \in [Worker -> [Context -> Owner]]
    BY DEF PContextTypeOK, Switch
  <1>4. new_context' \in [Worker -> BOOLEAN]
    BY DEF PContextTypeOK, Switch
  <1> QED BY <1>1, <1>2, <1>3, <1>4 DEF Switch

\* A step of one context keeps the invariant of every other context, as long as
\* it leaves their locks, latches and queued work alone.
LEMMA OtherContexts ==
  ASSUME TypeOK,
         NEW w \in Worker, NEW c \in Context, NEW fr,
         \A v \in Worker, d \in Context : ContextInv(v, d),
         frames' = [frames EXCEPT ![w][c] = fr],
         UNCHANGED curr_ctx,
         NEW v \in Worker, NEW d \in Context, v # w \/ d # c,
         lock_counter'[v][d] = lock_counter[v][d],
         latch' = <<v, d>> <=> latch = <<v, d>>,
         <<v, d>> \in committing' <=> <<v, d>> \in committing,
         v # w \/ curr_ctx[w] # d,
         v # w => uif'[v] = uif[v],
         v # w \/ c # Main => main_workload_queue'[v] = main_workload_queue[v],
         v # w => preemptive_workload_queue'[v] = preemptive_workload_queue[v]
  PROVE  ContextInv(v, d)'
  <1>0. frames \in [Worker -> [Context -> Frame]]
    BY FramesType DEF TypeOK, WorkerTypeOK
  <1>1. frames'[v][d] = frames[v][d]
    BY <1>0
  <1>2. ContextInv(v, d)
    OBVIOUS
  <1>3. InOwnProgram(v, d)' BY <1>1, <1>2 DEF ContextInv, InOwnProgram
  <1>4. LockBalance(v, d)' BY <1>1, <1>2 DEF ContextInv, LockBalance
  <1>5. LatchPoint(v, d)' BY <1>1, <1>2 DEF ContextInv, LatchPoint
  <1>6. CommitPoint(v, d)' BY <1>1, <1>2 DEF ContextInv, CommitPoint
  <1>7. SuspendedAt(v, d)' BY <1>1, <1>2 DEF ContextInv, SuspendedAt
  <1>8. UifClear(v, d)' BY <1>1, <1>2 DEF ContextInv, UifClear
  <1>9. WorkQueued(v, d)' BY <1>1, <1>2 DEF ContextInv, WorkQueued, SuspendedAt
  <1> QED BY <1>3, <1>4, <1>5, <1>6, <1>7, <1>8, <1>9 DEF ContextInv
\* Moving a frame to another program point of a body, with or without spending
\* a step, keeps it a frame of the same transaction.
LEMMA FrameMoves ==
  ASSUME NEW g \in Frame, NEW p \in BodyPC
  PROVE  /\ [g EXCEPT !.pc = p] \in Frame
         /\ [g EXCEPT !.pc = p].pc = p
         /\ [g EXCEPT !.pc = p].txn = g.txn
         /\ g.left > 0 => [g EXCEPT !.pc = p, !.left = @ - 1] \in Frame
         /\ [g EXCEPT !.pc = p, !.left = @ - 1].pc = p
         /\ [g EXCEPT !.pc = p, !.left = @ - 1].txn = g.txn
  <1>1. TxnSteps \in Nat BY WorkerAssumption
  <1>2. g.left > 0 => g.left - 1 \in 0..TxnSteps BY <1>1 DEF Frame
  <1> QED BY ZenonT(60), <1>2 DEF Frame

\* The frames MyWork, do_preemptive_transaction and a new body start from.
LEMMA FreshFrames ==
  /\ \A p \in MainPC \cup PreemptivePC :
        At(p) \in Frame /\ At(p).pc = p /\ At(p).txn = Idle
  /\ \A t \in Txn \cup {Regular} :
        Body(t) \in Frame /\ Body(t).pc = "t_work" /\ Body(t).txn = t
  <1>1. TxnSteps \in Nat /\ 0 \in 0..TxnSteps /\ TxnSteps \in 0..TxnSteps
    BY WorkerAssumption
  <1>2. "t_work" \in BodyPC BY DEF BodyPC
  <1> QED BY <1>1, <1>2 DEF At, Body, Frame

\* A step of the running context preserves the invariant when the result is well
\* typed and the context itself is in order afterwards.
LEMMA ExecuteInv ==
  ASSUME PreemptionInv, NEW w \in Worker, NEW c, c = curr_ctx[w],
         NEW fr \in Frame, Execute(w, fr),
         \A v \in Worker, d \in Context : v # w \/ d # c =>
             /\ lock_counter'[v][d] = lock_counter[v][d]
             /\ latch' = <<v, d>> <=> latch = <<v, d>>
             /\ <<v, d>> \in committing' <=> <<v, d>> \in committing,
         \A v \in Worker : v # w => uif'[v] = uif[v],
         \A v \in Worker : v # w \/ c # Main =>
             main_workload_queue'[v] = main_workload_queue[v],
         \A v \in Worker : v # w =>
             preemptive_workload_queue'[v] = preemptive_workload_queue[v],
         ContextInv(w, c)',
         TypeOK'
  PROVE  PreemptionInv'
  <1>1. PContextTypeOK(Frame) /\ TypeOK /\ c \in Context
    BY ZenonT(60) DEF PreemptionInv, TypeOK, WorkerTypeOK, PContextTypeOK
  <1>2. frames' = [frames EXCEPT ![w][c] = fr] /\ UNCHANGED curr_ctx
    BY <1>1, ExecuteFrames
  <1>3. ASSUME NEW v \in Worker, NEW d \in Context, v # w \/ d # c
        PROVE  ContextInv(v, d)'
    <2>1. \A u \in Worker, e \in Context : ContextInv(u, e)
      BY DEF PreemptionInv
    <2> QED BY ZenonT(60), <1>1, <1>2, <1>3, <2>1, OtherContexts
  <1> QED BY <1>3 DEF PreemptionInv

\* The same for a step that begins and ends outside every locked region.
LEMMA OutsideRegions ==
  ASSUME PreemptionInv, NEW w \in Worker, NEW c, c = curr_ctx[w],
         NEW fr \in Frame, Execute(w, fr),
         UNCHANGED <<lock_counter, latch, committing>>,
         regs[w].pc \notin LatchPC \cup {"t_commit", "t_abort"},
         fr.pc \notin LatchPC \cup {"t_commit"},
         \/ fr.pc \in ContextPC(c) /\ fr.txn = Idle
         \/ fr.pc \in BodyPC /\ fr.txn \in Txn
         \/ fr.pc \in BodyPC /\ fr.txn = Regular /\ c = Main,
         \A v \in Worker : v # w => uif'[v] = uif[v],
         fr.pc \in {"m_stat", "p_check"} \/ fr.txn \in Txn => ~uif'[w],
         \A v \in Worker : v # w \/ c # Main =>
             main_workload_queue'[v] = main_workload_queue[v],
         \A v \in Worker : v # w =>
             preemptive_workload_queue'[v] = preemptive_workload_queue[v],
         c = Main =>
             /\ fr.pc \in {"m_stui", "m_begin", "m_end"} \/ fr.txn = Regular =>
                    main_workload_queue'[w] > 0
             /\ fr.txn \in Txn =>
                    /\ preemptive_workload_queue'[w] # <<>>
                    /\ fr.txn = Head(preemptive_workload_queue'[w]),
         TypeOK'
  PROVE  PreemptionInv'
  <1>1. PContextTypeOK(Frame) /\ TypeOK /\ c \in Context
    BY ZenonT(60) DEF PreemptionInv, TypeOK, WorkerTypeOK, PContextTypeOK
  <1>2. /\ frames' = [frames EXCEPT ![w][c] = fr]
        /\ UNCHANGED curr_ctx
        /\ frames \in [Worker -> [Context -> Frame]]
        /\ regs[w] = frames[w][c]
    BY <1>1, ExecuteFrames, FramesType
  <1>3. frames'[w][c] = fr BY <1>1, <1>2
  <1>4. ContextInv(w, c) BY <1>1 DEF PreemptionInv
  <1>5. <<w, c>> \notin committing /\ latch # <<w, c>>
    BY <1>2, <1>4 DEF ContextInv, CommitPoint, LatchPoint, LatchPC
  <1>6. lock_counter[w][c] = 0
    BY <1>2, <1>4, <1>5 DEF ContextInv, LockBalance
  <1>7. InOwnProgram(w, c)' BY <1>3 DEF InOwnProgram
  <1>8. LockBalance(w, c)' BY <1>3, <1>5, <1>6 DEF LockBalance
  <1>9. LatchPoint(w, c)' BY <1>3, <1>5 DEF LatchPoint, LatchPC
  <1>10. CommitPoint(w, c)' BY <1>3, <1>5 DEF CommitPoint
  <1>11. SuspendedAt(w, c)' BY <1>2 DEF SuspendedAt
  <1>12. UifClear(w, c)' BY <1>3 DEF UifClear
  <1>13. WorkQueued(w, c)' BY <1>3 DEF WorkQueued
  <1>14. ContextInv(w, c)'
    BY <1>7, <1>8, <1>9, <1>10, <1>11, <1>12, <1>13 DEF ContextInv
  <1> QED BY <1>14, ExecuteInv
\* What is left to check of TypeOK after a step of the running context.
LEMMA ExecuteType ==
  ASSUME TypeOK, NEW w \in Worker, NEW fr \in Frame, Execute(w, fr),
         uif' \in [Worker -> BOOLEAN],
         lock_counter' \in [Worker -> [Context -> Nat]],
         main_workload_queue' \in [Worker -> 0..MainQueueSize],
         preemptive_workload_queue' \in [Worker -> Seq(Txn)],
         \A v \in Worker :
             Len(preemptive_workload_queue'[v]) <= PrioritizedQueueSize,
         outcome' \in [Txn -> Outcome],
         total_cycles' \in [Worker -> Nat],
         preempted_cycles' \in [Worker -> Nat],
         latch' \in Who \cup {Nobody},
         committing' \subseteq Who,
         UNCHANGED sched_vars
  PROVE  TypeOK'
  <1>1. PContextTypeOK(Frame) BY DEF TypeOK, WorkerTypeOK
  <1>2. PContextTypeOK(Frame)'
    BY ZenonT(60), <1>1, ExecuteFrames DEF PContextTypeOK
  <1>3. WorkerTypeOK' BY <1>2 DEF WorkerTypeOK
  <1> QED BY <1>3 DEF TypeOK, sched_vars

\* The cycle counters stay natural numbers.
LEMMA TimerType ==
  ASSUME WorkerTypeOK, NEW w \in Worker,
         reset_timer(w) \/ add_preempted_time(w) \/ UNCHANGED timer_vars
  PROVE  total_cycles' \in [Worker -> Nat] /\ preempted_cycles' \in [Worker -> Nat]
  <1>1. total_cycles \in [Worker -> Nat] /\ preempted_cycles \in [Worker -> Nat]
    BY DEF WorkerTypeOK
  <1>2. CASE reset_timer(w)
    <2>1. total_cycles' \in [Worker -> Nat] BY <1>1, <1>2 DEF reset_timer
    <2>2. preempted_cycles' \in [Worker -> Nat] BY <1>1, <1>2 DEF reset_timer
    <2> QED BY <2>1, <2>2
  <1>3. CASE add_preempted_time(w)
    <2>1. CASE Policy > 1 BY <1>1, <1>3, <2>1 DEF add_preempted_time
    <2>2. CASE ~(Policy > 1)
      BY <1>1, <1>3, <2>2 DEF add_preempted_time, timer_vars
    <2> QED BY <2>1, <2>2
  <1>4. CASE UNCHANGED timer_vars BY <1>1, <1>4 DEF timer_vars
  <1> QED BY <1>2, <1>3, <1>4

\* Popping a preemptive queue keeps it a bounded queue.
LEMMA PopType ==
  ASSUME WorkerTypeOK, NEW w \in Worker,
         preemptive_workload_queue[w] # <<>>,
         preemptive_workload_queue' = [preemptive_workload_queue EXCEPT ![w] = Tail(@)]
  PROVE  /\ preemptive_workload_queue' \in [Worker -> Seq(Txn)]
         /\ \A v \in Worker :
                Len(preemptive_workload_queue'[v]) <= PrioritizedQueueSize
         /\ \A v \in Worker : v # w =>
                preemptive_workload_queue'[v] = preemptive_workload_queue[v]
  <1>1. /\ preemptive_workload_queue \in [Worker -> Seq(Txn)]
        /\ \A v \in Worker :
              Len(preemptive_workload_queue[v]) <= PrioritizedQueueSize
    BY DEF WorkerTypeOK
  <1>2. /\ Tail(preemptive_workload_queue[w]) \in Seq(Txn)
        /\ Len(Tail(preemptive_workload_queue[w])) = Len(preemptive_workload_queue[w]) - 1
    BY <1>1
  <1>3. /\ preemptive_workload_queue' \in [Worker -> Seq(Txn)]
        /\ \A v \in Worker : v # w =>
               preemptive_workload_queue'[v] = preemptive_workload_queue[v]
        /\ preemptive_workload_queue'[w] = Tail(preemptive_workload_queue[w])
    BY <1>1, <1>2
  <1>4. ASSUME NEW v \in Worker
        PROVE  Len(preemptive_workload_queue'[v]) <= PrioritizedQueueSize
    BY <1>1, <1>2, <1>3, WorkerAssumption
  <1> QED BY <1>3, <1>4

\* MyWork's loop up to the start of a transaction preserves the invariant.
LEMMA MainLoopInv ==
  ASSUME PreemptionInv, NEW w \in Worker, UNCHANGED sched_vars,
         \/ m_clui(w) \/ m_idle(w) \/ m_prioritized(w) \/ m_regular(w)
         \/ m_stui(w) \/ m_begin(w)
  PROVE  PreemptionInv'
  <1> DEFINE c == curr_ctx[w]
  <1> USE DEF Run, Plain, worker_vars, queue_vars, timer_vars, pc
  <1>1. TypeOK /\ WorkerTypeOK /\ PContextTypeOK(Frame)
    BY DEF PreemptionInv, TypeOK, WorkerTypeOK
  <1>2. regs[w] = frames[w][c] /\ ContextInv(w, c) /\ c \in Context
    BY <1>1, FramesType DEF PreemptionInv, PContextTypeOK
  <1>3. regs[w].pc \in MainPC => c = Main
    BY <1>2 DEF ContextInv, InOwnProgram, ContextPC, MainPC, PreemptivePC, BodyPC, LatchPC
  <1>4. CASE m_clui(w)
    <2>1. At("m_stat") \in Frame /\ At("m_stat").pc = "m_stat" /\ At("m_stat").txn = Idle
      BY FreshFrames DEF MainPC
    <2>2. uif' = [uif EXCEPT ![w] = FALSE] /\ uif \in [Worker -> BOOLEAN]
      BY <1>1, <1>4 DEF m_clui, PContextTypeOK
    <2>3. TypeOK'
      BY ZenonT(60), <1>1, <1>4, <2>1, <2>2, ExecuteType DEF m_clui, WorkerTypeOK, PContextTypeOK
    <2> QED
      BY ZenonT(60), <1>3, <1>4, <2>1, <2>2, <2>3, OutsideRegions, WorkerAssumption
         DEF m_clui, ContextPC, MainPC, LatchPC
  <1>5. CASE m_idle(w)
    <2>1. At("m_loop") \in Frame /\ At("m_loop").pc = "m_loop" /\ At("m_loop").txn = Idle
      BY FreshFrames DEF MainPC
    <2>2. TypeOK'
      BY ZenonT(60), <1>1, <1>5, <2>1, ExecuteType DEF m_idle, WorkerTypeOK, PContextTypeOK
    <2> QED
      BY <1>3, <1>5, <2>1, <2>2, OutsideRegions, WorkerAssumption
         DEF m_idle, ContextPC, MainPC, LatchPC
  <1>6. CASE m_prioritized(w)
    <2> DEFINE t == Head(preemptive_workload_queue[w])
    <2>1. t \in Txn /\ preemptive_workload_queue[w] # <<>>
      BY <1>1, <1>6 DEF m_prioritized, PrioritizedFirst, WorkerTypeOK
    <2>2. Body(t) \in Frame /\ Body(t).pc = "t_work" /\ Body(t).txn = t
      BY <2>1, FreshFrames
    <2>3. TypeOK'
      BY ZenonT(60), <1>1, <1>6, <2>2, ExecuteType DEF m_prioritized, WorkerTypeOK, PContextTypeOK
    <2>4. ~uif[w] /\ c = Main
      BY <1>2, <1>3, <1>6 DEF m_prioritized, ContextInv, UifClear, MainPC
    <2> QED
      BY <1>6, <2>1, <2>2, <2>3, <2>4, OutsideRegions, WorkerAssumption
         DEF m_prioritized, BodyPC, LatchPC
  <1>7. CASE m_regular(w)
    <2>1. At("m_stui") \in Frame /\ At("m_stui").pc = "m_stui" /\ At("m_stui").txn = Idle
      BY FreshFrames DEF MainPC
    <2>2. TypeOK'
      BY ZenonT(60), <1>1, <1>7, <2>1, ExecuteType DEF m_regular, WorkerTypeOK, PContextTypeOK
    <2> QED
      BY <1>3, <1>7, <2>1, <2>2, OutsideRegions, WorkerAssumption
         DEF m_regular, ContextPC, MainPC, LatchPC
  <1>8. CASE m_stui(w)
    <2>1. At("m_begin") \in Frame /\ At("m_begin").pc = "m_begin" /\ At("m_begin").txn = Idle
      BY FreshFrames DEF MainPC
    <2>2. uif' = [uif EXCEPT ![w] = TRUE] /\ uif \in [Worker -> BOOLEAN]
      BY <1>1, <1>8 DEF m_stui, PContextTypeOK
    <2>3. TypeOK'
      BY ZenonT(60), <1>1, <1>8, <2>1, <2>2, ExecuteType DEF m_stui, WorkerTypeOK, PContextTypeOK
    <2>4. c = Main /\ main_workload_queue[w] > 0
      BY <1>2, <1>3, <1>8 DEF m_stui, ContextInv, WorkQueued, MainPC
    <2> QED
      BY ZenonT(60), <1>8, <2>1, <2>2, <2>3, <2>4, OutsideRegions, WorkerAssumption
         DEF m_stui, ContextPC, MainPC, LatchPC
  <1>9. CASE m_begin(w)
    <2>1. Body(Regular) \in Frame /\ Body(Regular).pc = "t_work" /\ Body(Regular).txn = Regular
      BY FreshFrames
    <2>2. total_cycles' \in [Worker -> Nat] /\ preempted_cycles' \in [Worker -> Nat]
      BY <1>1, <1>9, TimerType DEF m_begin
    <2>3. TypeOK'
      BY ZenonT(60), <1>1, <1>9, <2>1, <2>2, ExecuteType DEF m_begin, WorkerTypeOK, PContextTypeOK
    <2>4. c = Main /\ main_workload_queue[w] > 0
      BY <1>2, <1>3, <1>9 DEF m_begin, ContextInv, WorkQueued, MainPC
    <2> QED
      BY <1>9, <2>1, <2>3, <2>4, OutsideRegions, WorkerAssumption
         DEF m_begin, BodyPC, LatchPC
  <1> QED BY <1>4, <1>5, <1>6, <1>7, <1>8, <1>9

\* Finishing a transaction, in MyWork or in do_preemptive_transaction, preserves
\* the invariant: what is popped is what was run.
LEMMA FinishInv ==
  ASSUME PreemptionInv, NEW w \in Worker, UNCHANGED sched_vars,
         \/ m_finish_regular(w) \/ m_pop(w) \/ m_finish_prioritized(w)
         \/ p_finish(w)
  PROVE  PreemptionInv'
  <1> DEFINE c == curr_ctx[w]
  <1> USE DEF Run, Plain, worker_vars, queue_vars, timer_vars, pc
  <1>1. TypeOK /\ WorkerTypeOK /\ PContextTypeOK(Frame)
    BY DEF PreemptionInv, TypeOK, WorkerTypeOK
  <1>2. regs[w] = frames[w][c] /\ ContextInv(w, c) /\ c \in Context
    BY <1>1, FramesType DEF PreemptionInv, PContextTypeOK
  <1>3. /\ regs[w].pc \in Finished => regs[w].pc \notin LatchPC \cup {"t_commit", "t_abort"}
        /\ regs[w].pc \in Finished => OutcomeAt(regs[w].pc) \in Outcome
    BY DEF Finished, LatchPC, OutcomeAt, Outcome
  <1>4. CASE m_finish_regular(w)
    <2>1. c = Main /\ main_workload_queue[w] > 0
      BY ZenonT(60), <1>2, <1>4, WorkerAssumption
         DEF m_finish_regular, f, ContextInv, InOwnProgram, WorkQueued
    <2>2. total_cycles' \in [Worker -> Nat] /\ preempted_cycles' \in [Worker -> Nat]
      BY <1>1, <1>4, TimerType DEF m_finish_regular
    <2>3. PICK fr \in {Body(Regular), At("m_end")} : Execute(w, fr)
      BY <1>4 DEF m_finish_regular
    <2>4. /\ fr \in Frame
          /\ \/ fr.pc = "t_work" /\ fr.txn = Regular
             \/ fr.pc = "m_end" /\ fr.txn = Idle
      BY <2>3, FreshFrames DEF MainPC
    <2>5. TypeOK'
      BY ZenonT(60), <1>1, <1>4, <2>2, <2>3, <2>4, ExecuteType
         DEF m_finish_regular, WorkerTypeOK, PContextTypeOK
    <2> QED
      BY ZenonT(60), <1>3, <1>4, <2>1, <2>3, <2>4, <2>5, OutsideRegions, WorkerAssumption
         DEF m_finish_regular, ContextPC, MainPC, BodyPC, LatchPC
  <1>5. CASE m_pop(w)
    <2>1. At("m_loop") \in Frame /\ At("m_loop").pc = "m_loop" /\ At("m_loop").txn = Idle
      BY FreshFrames DEF MainPC
    <2>2. c = Main
      BY <1>2, <1>5 DEF m_pop, ContextInv, InOwnProgram, ContextPC, PreemptivePC, BodyPC, LatchPC
    <2>3. main_workload_queue[w] > 0
      BY <1>2, <1>5, <2>2 DEF m_pop, ContextInv, WorkQueued
    <2>4. /\ main_workload_queue' \in [Worker -> 0..MainQueueSize]
          /\ \A v \in Worker : v # w => main_workload_queue'[v] = main_workload_queue[v]
      BY <1>1, <1>5, <2>3, WorkerAssumption DEF m_pop, WorkerTypeOK
    <2>5. TypeOK'
      BY ZenonT(60), <1>1, <1>5, <2>1, <2>4, ExecuteType DEF m_pop, WorkerTypeOK, PContextTypeOK
    <2> QED
      BY <1>5, <2>1, <2>2, <2>4, <2>5, OutsideRegions, WorkerAssumption
         DEF m_pop, ContextPC, MainPC, LatchPC
  <1>6. CASE m_finish_prioritized(w)
    <2>1. /\ regs[w].txn = Head(preemptive_workload_queue[w])
          /\ preemptive_workload_queue[w] # <<>>
          /\ c = Main /\ regs[w].txn \in Txn /\ ~uif[w]
      BY <1>2, <1>6 DEF m_finish_prioritized, f, ContextInv, WorkQueued, UifClear
    <2>2. total_cycles' \in [Worker -> Nat] /\ preempted_cycles' \in [Worker -> Nat]
      BY <1>1, <1>6, TimerType DEF m_finish_prioritized
    <2>3. outcome' \in [Txn -> Outcome]
      BY ZenonT(60), <1>1, <1>3, <1>6, <2>1 DEF m_finish_prioritized, f, WorkerTypeOK
    <2>4. CASE Again(w)
      <3>1. /\ Body(regs[w].txn) \in Frame /\ Body(regs[w].txn).pc = "t_work"
            /\ Body(regs[w].txn).txn = regs[w].txn
        BY <2>1, FreshFrames
      <3>2. TypeOK'
        BY ZenonT(60), <1>1, <1>6, <2>2, <2>3, <2>4, <3>1, ExecuteType
           DEF m_finish_prioritized, f, WorkerTypeOK, PContextTypeOK
      <3> QED
        BY <1>3, <1>6, <2>1, <2>4, <3>1, <3>2, OutsideRegions, WorkerAssumption
           DEF m_finish_prioritized, f, BodyPC, LatchPC
    <2>5. CASE ~Again(w)
      <3>1. At("m_loop") \in Frame /\ At("m_loop").pc = "m_loop" /\ At("m_loop").txn = Idle
        BY FreshFrames DEF MainPC
      <3>2. /\ preemptive_workload_queue' \in [Worker -> Seq(Txn)]
            /\ \A v \in Worker :
                   Len(preemptive_workload_queue'[v]) <= PrioritizedQueueSize
            /\ \A v \in Worker : v # w =>
                   preemptive_workload_queue'[v] = preemptive_workload_queue[v]
        BY <1>1, <1>6, <2>1, <2>5, PopType DEF m_finish_prioritized
      <3>3. TypeOK'
        BY ZenonT(60), <1>1, <1>6, <2>2, <2>3, <2>5, <3>1, <3>2, ExecuteType
           DEF m_finish_prioritized, WorkerTypeOK, PContextTypeOK
      <3> QED
        BY ZenonT(60), <1>3, <1>6, <2>1, <2>5, <3>1, <3>2, <3>3, OutsideRegions, WorkerAssumption
           DEF m_finish_prioritized, ContextPC, MainPC, LatchPC
    <2> QED BY <2>4, <2>5
  <1>7. CASE p_finish(w)
    <2>1. c = Preemptive /\ regs[w].txn \in Txn
      BY <1>2, <1>7 DEF p_finish, ContextInv, InOwnProgram, ContextPC, PreemptivePC, Finished
    <2>2. total_cycles' \in [Worker -> Nat] /\ preempted_cycles' \in [Worker -> Nat]
      BY <1>1, <1>7, TimerType DEF p_finish
    <2>3. outcome' \in [Txn -> Outcome]
      BY <1>1, <1>3, <1>7, <2>1 DEF p_finish, f, WorkerTypeOK
    <2>4. At("p_loop") \in Frame /\ At("p_loop").pc = "p_loop" /\ At("p_loop").txn = Idle
      BY FreshFrames DEF PreemptivePC
    <2>5. TypeOK'
      BY ZenonT(60), <1>1, <1>7, <2>2, <2>3, <2>4, ExecuteType DEF p_finish, WorkerTypeOK, PContextTypeOK
    <2> QED
      BY <1>3, <1>7, <2>1, <2>4, <2>5, OutsideRegions, WorkerAssumption
         DEF p_finish, ContextPC, PreemptivePC, LatchPC
  <1> QED BY <1>4, <1>5, <1>6, <1>7

\* do_preemptive_transaction taking the head of its queue preserves it.
LEMMA PreemptiveLoopInv ==
  ASSUME PreemptionInv, NEW w \in Worker, UNCHANGED sched_vars,
         p_clui(w) \/ p_run(w)
  PROVE  PreemptionInv'
  <1> DEFINE c == curr_ctx[w]
  <1> USE DEF Run, Plain, worker_vars, queue_vars, timer_vars, pc
  <1>1. TypeOK /\ WorkerTypeOK /\ PContextTypeOK(Frame)
    BY DEF PreemptionInv, TypeOK, WorkerTypeOK
  <1>2. regs[w] = frames[w][c] /\ ContextInv(w, c) /\ c \in Context
    BY <1>1, FramesType DEF PreemptionInv, PContextTypeOK
  <1>3. regs[w].pc \in PreemptivePC => c = Preemptive
    BY ZenonT(60), <1>2 DEF ContextInv, InOwnProgram, ContextPC, MainPC, PreemptivePC, BodyPC, LatchPC
  <1>4. CASE p_clui(w)
    <2>1. At("p_check") \in Frame /\ At("p_check").pc = "p_check" /\ At("p_check").txn = Idle
      BY FreshFrames DEF PreemptivePC
    <2>2. uif' = [uif EXCEPT ![w] = FALSE] /\ uif \in [Worker -> BOOLEAN]
      BY <1>1, <1>4 DEF p_clui, PContextTypeOK
    <2>3. TypeOK'
      BY ZenonT(60), <1>1, <1>4, <2>1, <2>2, ExecuteType DEF p_clui, WorkerTypeOK, PContextTypeOK
    <2> QED
      BY ZenonT(60), <1>3, <1>4, <2>1, <2>2, <2>3, OutsideRegions, WorkerAssumption
         DEF p_clui, ContextPC, PreemptivePC, LatchPC
  <1>5. CASE p_run(w)
    <2> DEFINE t == Head(preemptive_workload_queue[w])
    <2>1. t \in Txn /\ preemptive_workload_queue[w] # <<>>
      BY <1>1, <1>5 DEF p_run, NoPreemptiveWork, WorkerTypeOK
    <2>2. Body(t) \in Frame /\ Body(t).pc = "t_work" /\ Body(t).txn = t
      BY <2>1, FreshFrames
    <2>3. /\ preemptive_workload_queue' \in [Worker -> Seq(Txn)]
          /\ \A v \in Worker :
                 Len(preemptive_workload_queue'[v]) <= PrioritizedQueueSize
          /\ \A v \in Worker : v # w =>
                 preemptive_workload_queue'[v] = preemptive_workload_queue[v]
      BY ZenonT(60), <1>1, <1>5, <2>1, PopType DEF p_run
    <2>4. TypeOK'
      BY ZenonT(60), <1>1, <1>5, <2>2, <2>3, ExecuteType DEF p_run, WorkerTypeOK, PContextTypeOK
    <2>5. ~uif[w] /\ c = Preemptive
      BY <1>2, <1>3, <1>5 DEF p_run, ContextInv, UifClear, PreemptivePC
    <2> QED
      BY SMTT(30), <1>5, <2>1, <2>2, <2>3, <2>4, <2>5, OutsideRegions, WorkerAssumption
         DEF p_run, BodyPC, LatchPC
  <1> QED BY <1>4, <1>5
=============================================================================
