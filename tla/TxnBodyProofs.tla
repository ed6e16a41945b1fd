--------------------------- MODULE TxnBodyProofs ----------------------------
(***************************************************************************)
(* The body of a transaction preserves PreemptionInv: preemptible steps, and *)
(* the steps that enter and leave locked regions, latches and commits.     *)
(***************************************************************************)
EXTENDS WorkerLoopProofs

USE DEF Main, Preemptive, Context, Owner, Regular, Idle, Nobody

\* The preemptible steps of a body preserve it.
LEMMA BodyInv ==
  ASSUME PreemptionInv, NEW w \in Worker, UNCHANGED sched_vars,
         t_step(w) \/ t_meet(w) \/ t_met(w) \/ t_error(w)
  PROVE  PreemptionInv'
  <1> DEFINE c == curr_ctx[w]
  <1> USE DEF Run, Plain, worker_vars, queue_vars, timer_vars, pc
  <1>1. TypeOK /\ WorkerTypeOK /\ PContextTypeOK(Frame)
    BY DEF PreemptionInv, TypeOK, WorkerTypeOK
  <1>2. /\ regs[w] = frames[w][c] /\ ContextInv(w, c) /\ c \in Context
        /\ regs[w] \in Frame
    BY <1>1, FramesType DEF PreemptionInv, PContextTypeOK
  <1>3. /\ regs[w].pc \in {"t_work", "t_spin"}
        /\ UNCHANGED <<uif, lock_counter, latch, committing, queue_vars, outcome>>
    BY ZenonT(60) DEF t_step, t_meet, t_met, t_error
  <1>4. /\ regs[w].txn \in Txn => ~uif[w]
        /\ regs[w].txn \in Txn \/ (regs[w].txn = Regular /\ c = Main)
        /\ c = Main =>
             /\ regs[w].txn = Regular => main_workload_queue[w] > 0
             /\ regs[w].txn \in Txn =>
                    /\ preemptive_workload_queue[w] # <<>>
                    /\ regs[w].txn = Head(preemptive_workload_queue[w])
    BY <1>2, <1>3 DEF ContextInv, UifClear, InOwnProgram, WorkQueued, ContextPC,
       MainPC, PreemptivePC
  <1>5. PICK fr \in Frame : /\ Execute(w, fr) /\ fr.txn = regs[w].txn
                            /\ fr.pc \in {"t_work", "t_spin", "t_abort"}
    <2>1. CASE t_step(w)
      BY ZenonT(60), <1>2, <2>1, FrameMoves DEF t_step, Spend, f, BodyPC
    <2>4. CASE t_error(w)
      BY ZenonT(60), <1>2, <2>4, FrameMoves DEF t_error, Goto, f, BodyPC
    <2>2. CASE t_met(w)
      <3> DEFINE g == Goto(w, "t_work")
      <3>1. g \in Frame /\ g.txn = regs[w].txn /\ g.pc = "t_work"
        BY ZenonT(60), <1>2, FrameMoves DEF Goto, f, BodyPC
      <3> HIDE DEF g
      <3>2. /\ [g EXCEPT !.target = Nobody] \in Frame
            /\ [g EXCEPT !.target = Nobody].txn = regs[w].txn
            /\ [g EXCEPT !.target = Nobody].pc = "t_work"
        BY <3>1 DEF Frame
      <3>3. Execute(w, [g EXCEPT !.target = Nobody])
        BY <2>2 DEF t_met, g
      <3> QED BY ZenonT(60), <3>2, <3>3
    <2>3. CASE t_meet(w)
      <3>1. PICK other \in Who \ {Self(w)} :
                Execute(w, [Spend(w, "t_spin") EXCEPT !.target = other])
        BY <2>3 DEF t_meet
      <3> DEFINE g == Spend(w, "t_spin")
      <3>2. g \in Frame /\ g.txn = regs[w].txn /\ g.pc = "t_spin"
        BY ZenonT(60), <1>2, <2>3, FrameMoves DEF t_meet, Spend, f, BodyPC
      <3>3. Execute(w, [g EXCEPT !.target = other])
        BY <3>1
      <3> HIDE DEF g
      <3>4. /\ [g EXCEPT !.target = other] \in Frame
            /\ [g EXCEPT !.target = other].txn = regs[w].txn
            /\ [g EXCEPT !.target = other].pc = "t_spin"
        BY <3>2 DEF Frame
      <3> QED BY ZenonT(60), <3>3, <3>4
    <2> QED BY <2>1, <2>2, <2>3, <2>4
  <1>6. total_cycles' \in [Worker -> Nat] /\ preempted_cycles' \in [Worker -> Nat]
    <2>1. CASE t_step(w) BY <1>1, <2>1 DEF t_step, WorkerTypeOK
    <2>2. CASE ~t_step(w)
      BY <1>1, <2>2 DEF t_meet, t_met, t_error, WorkerTypeOK
    <2> QED BY <2>1, <2>2
  <1>7. TypeOK'
    BY ZenonT(60), <1>1, <1>3, <1>5, <1>6, ExecuteType DEF WorkerTypeOK, PContextTypeOK
  <1> QED
    BY <1>3, <1>4, <1>5, <1>7, OutsideRegions, WorkerAssumption
       DEF BodyPC, LatchPC

\* A step of w's running context leaves the locks of the other contexts alone.
Elsewhere(w) ==
  \A v \in Worker, d \in Context : v # w \/ d # curr_ctx[w] =>
      /\ lock_counter'[v][d] = lock_counter[v][d]
      /\ latch' = <<v, d>> <=> latch = <<v, d>>
      /\ <<v, d>> \in committing' <=> <<v, d>> \in committing

\* The locks of w's running context are right for program point p.
RegionPoint(w, p) ==
  /\ lock_counter'[w][curr_ctx[w]] =
         (IF p \in LatchPC THEN 1 ELSE 0)
         + (IF Self(w) \in committing' /\ p # "t_abort" THEN 1 ELSE 0)
  /\ latch' = Self(w) <=> p = "t_held"
  /\ p = "t_commit" => Self(w) \in committing'
  /\ Self(w) \in committing' =>
         \/ p \in LatchPC \cup {"t_commit"}
         \/ phantom_prot /\ p = "t_abort"

\* A step of a body that enters or leaves a region preserves the invariant when
\* lock counter, latch and commit state agree with the program point.
LEMMA RegionStep ==
  ASSUME PreemptionInv, NEW w \in Worker,
         regs[w].pc \in BodyPC,
         UNCHANGED <<uif, queue_vars, timer_vars, outcome, sched_vars>>,
         NEW fr \in Frame, Execute(w, fr), fr.txn = regs[w].txn,
         fr.pc \in BodyPC,
         lock_counter' \in [Worker -> [Context -> Nat]],
         latch' \in Who \cup {Nobody}, committing' \subseteq Who,
         Elsewhere(w), RegionPoint(w, fr.pc)
  PROVE  PreemptionInv'
  <1>0. PICK c : c = curr_ctx[w] OBVIOUS
  <1>1. TypeOK /\ WorkerTypeOK /\ PContextTypeOK(Frame) /\ c \in Context
    BY ZenonT(60), <1>0 DEF PreemptionInv, TypeOK, WorkerTypeOK, PContextTypeOK
  <1>2. /\ frames' = [frames EXCEPT ![w][c] = fr]
        /\ UNCHANGED curr_ctx
        /\ frames \in [Worker -> [Context -> Frame]]
        /\ regs[w] = frames[w][c]
    BY <1>0, <1>1, ExecuteFrames, FramesType
  <1>3. frames'[w][c] = fr BY <1>1, <1>2
  <1>4. ContextInv(w, c) BY <1>1 DEF PreemptionInv
  <1>5. TypeOK'
    BY ZenonT(60), <1>1, ExecuteType DEF WorkerTypeOK, PContextTypeOK, queue_vars, timer_vars
  <1>6. regs[w].pc \notin ContextPC(c)
    BY DEF ContextPC, MainPC, PreemptivePC, BodyPC, LatchPC
  <1>7. InOwnProgram(w, c)' BY <1>2, <1>3, <1>4, <1>6 DEF ContextInv, InOwnProgram
  <1>8. LockBalance(w, c)' BY <1>0, <1>3 DEF LockBalance, RegionPoint, Self
  <1>9. LatchPoint(w, c)' BY <1>0, <1>3 DEF LatchPoint, RegionPoint, Self
  <1>10. CommitPoint(w, c)' BY <1>0, <1>3 DEF CommitPoint, RegionPoint, Self
  <1>11. SuspendedAt(w, c)' BY <1>0, <1>2 DEF SuspendedAt
  <1>12. UifClear(w, c)'
    BY <1>2, <1>3, <1>4 DEF ContextInv, UifClear, BodyPC, LatchPC
  <1>13. WorkQueued(w, c)'
    BY <1>2, <1>3, <1>4 DEF ContextInv, WorkQueued, BodyPC, LatchPC, queue_vars
  <1>14. ContextInv(w, c)'
    BY <1>7, <1>8, <1>9, <1>10, <1>11, <1>12, <1>13 DEF ContextInv
  <1> QED BY <1>0, <1>5, <1>14, ExecuteInv DEF queue_vars, Elsewhere

\* pcontext::lock and unlock, the latch, Engine::Commit and Engine::Abort
\* preserve it.
LEMMA RegionInv ==
  ASSUME PreemptionInv, NEW w \in Worker, UNCHANGED sched_vars,
         \/ t_lock(w) \/ t_acquire(w) \/ t_release(w) \/ t_unlock(w)
         \/ t_commit(w) \/ t_committed(w) \/ t_phantom(w) \/ t_abort(w)
  PROVE  PreemptionInv'
  <1>1. TypeOK /\ WorkerTypeOK /\ PContextTypeOK(Frame)
    BY DEF PreemptionInv, TypeOK, WorkerTypeOK
  <1>2. /\ regs[w] = frames[w][curr_ctx[w]]
        /\ curr_ctx[w] \in Context /\ ContextInv(w, curr_ctx[w])
        /\ regs[w] \in Frame
        /\ lock_counter \in [Worker -> [Context -> Nat]]
        /\ latch \in Who \cup {Nobody} /\ committing \subseteq Who
        /\ Self(w) \in Who
    BY <1>1, FramesType DEF PreemptionInv, PContextTypeOK, WorkerTypeOK, Self, Who
  <1>3. /\ regs[w].pc \in BodyPC
        /\ UNCHANGED <<uif, queue_vars, timer_vars, outcome, sched_vars>>
    BY DEF t_lock, t_acquire, t_release, t_unlock, t_commit, t_committed,
       t_phantom, t_abort, LatchPC, BodyPC, Run, Plain, worker_vars, pc
  <1>4. /\ lock_counter[w][curr_ctx[w]] =
               (IF regs[w].pc \in LatchPC THEN 1 ELSE 0)
               + (IF Self(w) \in committing /\ regs[w].pc # "t_abort"
                  THEN 1 ELSE 0)
        /\ latch = Self(w) <=> regs[w].pc = "t_held"
        /\ regs[w].pc = "t_commit" => Self(w) \in committing
        /\ Self(w) \in committing =>
               \/ regs[w].pc \in LatchPC \cup {"t_commit"}
               \/ phantom_prot /\ regs[w].pc = "t_abort"
    BY <1>2 DEF ContextInv, LockBalance, LatchPoint, CommitPoint, Self
  <1>5. ASSUME NEW p \in BodyPC
        PROVE  Goto(w, p) \in Frame /\ Goto(w, p).pc = p /\ Goto(w, p).txn = regs[w].txn
    BY ZenonT(60), <1>2, FrameMoves DEF Goto, f
  <1>6. \A v \in Worker, d \in Context :
            /\ v # w \/ d # curr_ctx[w] => <<v, d>> # Self(w)
            /\ <<v, d>> # Nobody
    BY DEF Self
  <1>7. ASSUME lock(w)
        PROVE  /\ lock_counter' \in [Worker -> [Context -> Nat]]
               /\ lock_counter'[w][curr_ctx[w]] = lock_counter[w][curr_ctx[w]] + 1
               /\ \A v \in Worker, d \in Context : v # w \/ d # curr_ctx[w] =>
                      lock_counter'[v][d] = lock_counter[v][d]
    BY <1>2, <1>7 DEF lock
  <1>8. ASSUME unlock(w), lock_counter[w][curr_ctx[w]] > 0
        PROVE  /\ lock_counter' \in [Worker -> [Context -> Nat]]
               /\ lock_counter'[w][curr_ctx[w]] = lock_counter[w][curr_ctx[w]] - 1
               /\ \A v \in Worker, d \in Context : v # w \/ d # curr_ctx[w] =>
                      lock_counter'[v][d] = lock_counter[v][d]
    BY <1>2, <1>8 DEF unlock
  <1>9. CASE t_lock(w)
    <2> DEFINE fr == Spend(w, "t_locked")
    <2>1. fr \in Frame /\ fr.pc = "t_locked" /\ fr.txn = regs[w].txn /\ fr.pc \in BodyPC
      BY ZenonT(60), <1>2, <1>9, FrameMoves DEF t_lock, Spend, f, BodyPC, LatchPC
    <2>2. /\ Execute(w, fr) /\ lock(w) /\ UNCHANGED <<latch, committing>>
          /\ regs[w].pc \in {"t_work", "t_commit"}
      BY <1>9 DEF t_lock, worker_vars, pc
    <2> HIDE DEF fr
    <2>3. Elsewhere(w) BY <1>7, <2>2 DEF Elsewhere
    <2>4. RegionPoint(w, fr.pc)
      BY <1>4, <1>7, <2>1, <2>2 DEF RegionPoint, LatchPC
    <2>5. latch' \in Who \cup {Nobody} /\ committing' \subseteq Who BY <1>2, <2>2
    <2> QED BY <1>3, <1>7, <2>1, <2>2, <2>3, <2>4, <2>5, RegionStep
  <1>10. CASE t_acquire(w)
    <2> DEFINE fr == Goto(w, "t_held")
    <2>1. fr \in Frame /\ fr.pc = "t_held" /\ fr.txn = regs[w].txn /\ fr.pc \in BodyPC
      BY <1>5 DEF BodyPC, LatchPC
    <2>2. /\ Execute(w, fr) /\ latch = Nobody /\ latch' = Self(w)
          /\ UNCHANGED <<lock_counter, committing>> /\ regs[w].pc = "t_locked"
      BY <1>10 DEF t_acquire, Run, Plain, pc
    <2> HIDE DEF fr
    <2>3. Elsewhere(w) BY <1>6, <2>2 DEF Elsewhere
    <2>4. RegionPoint(w, fr.pc)
      BY <1>4, <2>1, <2>2 DEF RegionPoint, LatchPC
    <2>5. /\ latch' \in Who \cup {Nobody} /\ committing' \subseteq Who
          /\ lock_counter' \in [Worker -> [Context -> Nat]]
      BY <1>2, <2>2
    <2> QED BY <1>3, <2>1, <2>2, <2>3, <2>4, <2>5, RegionStep
  <1>11. CASE t_release(w)
    <2> DEFINE fr == Goto(w, "t_unlock")
    <2>1. fr \in Frame /\ fr.pc = "t_unlock" /\ fr.txn = regs[w].txn /\ fr.pc \in BodyPC
      BY <1>5 DEF BodyPC, LatchPC
    <2>2. /\ Execute(w, fr) /\ latch' = Nobody
          /\ UNCHANGED <<lock_counter, committing>> /\ regs[w].pc = "t_held"
      BY <1>11 DEF t_release, Run, Plain, pc
    <2> HIDE DEF fr
    <2>3. latch = Self(w) BY <1>4, <2>2
    <2>4. Elsewhere(w) BY <1>6, <2>2, <2>3 DEF Elsewhere
    <2>5. latch' # Self(w) BY <1>2, <1>6, <2>2 DEF Self
    <2>6. RegionPoint(w, fr.pc)
      BY <1>4, <2>1, <2>2, <2>5 DEF RegionPoint, LatchPC
    <2>7. /\ latch' \in Who \cup {Nobody} /\ committing' \subseteq Who
          /\ lock_counter' \in [Worker -> [Context -> Nat]]
      BY <1>2, <2>2
    <2> QED BY <1>3, <2>1, <2>2, <2>4, <2>6, <2>7, RegionStep
  <1>12. CASE t_unlock(w)
    <2> DEFINE p == IF Self(w) \in committing THEN "t_commit" ELSE "t_work"
               fr == Goto(w, p)
    <2>1. fr \in Frame /\ fr.pc = p /\ fr.txn = regs[w].txn /\ fr.pc \in BodyPC
      BY <1>5 DEF BodyPC
    <2>2. /\ Execute(w, fr) /\ unlock(w) /\ UNCHANGED <<latch, committing>>
          /\ regs[w].pc = "t_unlock"
      BY <1>12 DEF t_unlock, Run, worker_vars, pc
    <2> HIDE DEF fr
    <2>3. lock_counter[w][curr_ctx[w]] > 0 BY <1>4, <2>2 DEF LatchPC
    <2>4. Elsewhere(w) BY <1>8, <2>2, <2>3 DEF Elsewhere
    <2>5. RegionPoint(w, fr.pc)
      BY <1>4, <1>8, <2>1, <2>2, <2>3 DEF RegionPoint, LatchPC
    <2>6. latch' \in Who \cup {Nobody} /\ committing' \subseteq Who BY <1>2, <2>2
    <2> QED BY <1>3, <1>8, <2>1, <2>2, <2>3, <2>4, <2>5, <2>6, RegionStep
  <1>13. CASE t_commit(w)
    <2> DEFINE fr == Goto(w, "t_commit")
    <2>1. fr \in Frame /\ fr.pc = "t_commit" /\ fr.txn = regs[w].txn /\ fr.pc \in BodyPC
      BY <1>5 DEF BodyPC
    <2>2. /\ Execute(w, fr) /\ lock(w) /\ UNCHANGED latch
          /\ committing' = committing \cup {Self(w)} /\ regs[w].pc = "t_work"
      BY <1>13 DEF t_commit, Run, pc
    <2> HIDE DEF fr
    <2>3. Elsewhere(w) BY <1>6, <1>7, <2>2 DEF Elsewhere
    <2>4. RegionPoint(w, fr.pc)
      BY <1>4, <1>7, <2>1, <2>2 DEF RegionPoint, LatchPC
    <2>5. latch' \in Who \cup {Nobody} /\ committing' \subseteq Who BY <1>2, <2>2
    <2> QED BY <1>3, <1>7, <2>1, <2>2, <2>3, <2>4, <2>5, RegionStep
  <1>14. CASE t_committed(w)
    <2> DEFINE fr == Goto(w, "t_ok")
    <2>1. fr \in Frame /\ fr.pc = "t_ok" /\ fr.txn = regs[w].txn /\ fr.pc \in BodyPC
      BY <1>5 DEF BodyPC
    <2>2. /\ Execute(w, fr) /\ unlock(w) /\ UNCHANGED latch
          /\ committing' = committing \ {Self(w)} /\ regs[w].pc = "t_commit"
      BY <1>14 DEF t_committed, Run, pc
    <2> HIDE DEF fr
    <2>3. lock_counter[w][curr_ctx[w]] > 0 BY <1>4, <2>2 DEF LatchPC
    <2>4. Elsewhere(w) BY <1>6, <1>8, <2>2, <2>3 DEF Elsewhere
    <2>5. RegionPoint(w, fr.pc)
      BY <1>4, <1>8, <2>1, <2>2, <2>3 DEF RegionPoint, LatchPC
    <2>6. latch' \in Who \cup {Nobody} /\ committing' \subseteq Who BY <1>2, <2>2
    <2> QED BY <1>3, <1>8, <2>1, <2>2, <2>3, <2>4, <2>5, <2>6, RegionStep
  <1>15. CASE t_phantom(w)
    <2> DEFINE fr == Goto(w, "t_abort")
    <2>1. fr \in Frame /\ fr.pc = "t_abort" /\ fr.txn = regs[w].txn /\ fr.pc \in BodyPC
      BY <1>5 DEF BodyPC
    <2>2. /\ Execute(w, fr) /\ unlock(w) /\ UNCHANGED <<latch, committing>>
          /\ regs[w].pc = "t_commit" /\ phantom_prot
      BY <1>15 DEF t_phantom, Run, worker_vars, pc
    <2> HIDE DEF fr
    <2>3. lock_counter[w][curr_ctx[w]] > 0 BY <1>4, <2>2 DEF LatchPC
    <2>4. Elsewhere(w) BY <1>8, <2>2, <2>3 DEF Elsewhere
    <2>5. RegionPoint(w, fr.pc)
      BY <1>4, <1>8, <2>1, <2>2, <2>3 DEF RegionPoint, LatchPC
    <2>6. latch' \in Who \cup {Nobody} /\ committing' \subseteq Who BY <1>2, <2>2
    <2> QED BY <1>3, <1>8, <2>1, <2>2, <2>3, <2>4, <2>5, <2>6, RegionStep
  <1>16. CASE t_abort(w)
    <2>1. PICK p \in {"t_fail", "t_user"} : Execute(w, Goto(w, p))
      BY <1>16 DEF t_abort, Run
    <2> DEFINE fr == Goto(w, p)
    <2>2. fr \in Frame /\ fr.pc = p /\ fr.txn = regs[w].txn /\ fr.pc \in BodyPC
      BY <1>5 DEF BodyPC
    <2>3. /\ Execute(w, fr) /\ UNCHANGED <<lock_counter, latch>>
          /\ committing' = committing \ {Self(w)} /\ regs[w].pc = "t_abort"
      BY <1>16, <2>1 DEF t_abort, Run, Plain, pc
    <2> HIDE DEF fr
    <2>4. Elsewhere(w) BY <1>6, <2>3 DEF Elsewhere
    <2>5. RegionPoint(w, fr.pc)
      BY <1>4, <2>1, <2>2, <2>3 DEF RegionPoint, LatchPC
    <2>6. /\ latch' \in Who \cup {Nobody} /\ committing' \subseteq Who
          /\ lock_counter' \in [Worker -> [Context -> Nat]]
      BY <1>2, <2>3
    <2> QED BY <1>3, <2>2, <2>3, <2>4, <2>5, <2>6, RegionStep
  <1> QED BY <1>9, <1>10, <1>11, <1>12, <1>13, <1>14, <1>15, <1>16
=============================================================================
