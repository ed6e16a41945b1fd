---------------------------- MODULE McsLockProofs ---------------------------
(***************************************************************************)
(* The mcs_lock is a fair lock, for any number of threads.                 *)
(***************************************************************************)
EXTENDS McsLock, TLAPS

Queued(t) == pc[t] \in {"link", "spin", "cs", "release", "next", "hand"}

\* Where a thread stands in the queue, and what the fields of the qnodes say.
QueueInv ==
    /\ serving <= issued
    /\ \A t \in Thread :
         /\ ~Queued(t) => number[t] = -1
         /\ Queued(t) => number[t] >= serving /\ number[t] < issued
         /\ Holds(t) => number[t] = serving
         /\ pc[t] \in {"swap", "try"} => next[t] = Nil
         /\ pc[t] = "spin" /\ ~waiting[t] => number[t] = serving
         /\ pc[t] \in {"swap", "try", "link"} => waiting[t]
         /\ pc[t] = "hand" => next[t] # Nil
    /\ \A t, u \in Thread : Queued(t) /\ Queued(u) /\ number[t] = number[u] => t = u
    /\ tail = Nil => serving = issued
    /\ tail # Nil => Queued(tail) /\ number[tail] = issued - 1
    /\ \A u \in Thread : pc[u] = "link" =>
         /\ pred[u] \in Thread /\ Queued(pred[u])
         /\ number[pred[u]] = number[u] - 1
         /\ next[pred[u]] = Nil
    /\ \A t \in Thread : Queued(t) /\ next[t] # Nil =>
         /\ pc[next[t]] = "spin"
         /\ number[next[t]] = number[t] + 1

IInv == LockTypeOK /\ QueueInv

\* The queue is empty at the start.
LEMMA InitInv == LockInit => IInv
BY NilAssumption DEF LockInit, IInv, LockTypeOK, QueueInv, Queued, Holds

\* Every step of acquire, attempt and release preserves the queue invariant.
LEMMA NextInv == IInv /\ [LockNext]_lockVars => IInv'
<1> SUFFICES ASSUME IInv, [LockNext]_lockVars PROVE IInv'
    OBVIOUS
<1> USE NilAssumption
<1>1. ASSUME NEW t \in Thread, prepare(t) PROVE IInv'
    BY <1>1 DEF prepare, Goto, IInv, LockTypeOK, QueueInv, Queued, Holds
<1>2. ASSUME NEW t \in Thread, attempt(t) PROVE IInv'
    BY <1>2 DEF attempt, Number, Goto, IInv, LockTypeOK, QueueInv, Queued, Holds
<1>3. ASSUME NEW t \in Thread, begin_acquire(t) PROVE IInv'
    BY <1>3 DEF begin_acquire, Number, Goto, IInv, LockTypeOK, QueueInv, Queued, Holds
<1>4. ASSUME NEW t \in Thread, link(t) PROVE IInv'
    BY <1>4 DEF link, Goto, IInv, LockTypeOK, QueueInv, Queued, Holds
<1>5. ASSUME NEW t \in Thread, spin_on_waiting(t) PROVE IInv'
    BY <1>5 DEF spin_on_waiting, Goto, IInv, LockTypeOK, QueueInv, Queued, Holds
<1>6. ASSUME NEW t \in Thread, release(t) PROVE IInv'
    BY <1>6 DEF release, Goto, IInv, LockTypeOK, QueueInv, Queued, Holds
<1>7. ASSUME NEW t \in Thread, release_tail(t) PROVE IInv'
    BY <1>7 DEF release_tail, Left, Goto, IInv, LockTypeOK, QueueInv, Queued, Holds
<1>8. ASSUME NEW t \in Thread, spin_on_next(t) PROVE IInv'
    BY <1>8 DEF spin_on_next, Goto, IInv, LockTypeOK, QueueInv, Queued, Holds
<1>9. ASSUME NEW t \in Thread, hand_over(t) PROVE IInv'
    BY <1>9 DEF hand_over, Left, Goto, IInv, LockTypeOK, QueueInv, Queued, Holds
<1>10. CASE UNCHANGED lockVars
    BY <1>10 DEF lockVars, IInv, LockTypeOK, QueueInv, Queued, Holds
<1> QED
    BY <1>1, <1>2, <1>3, <1>4, <1>5, <1>6, <1>7, <1>8, <1>9, <1>10 DEF LockNext, LockStep

\* Hence the queue invariant always holds.
LEMMA InductiveInvariant == LockSpec => []IInv
BY InitInv, NextInv, PTL DEF LockSpec

\* critical_section: two threads never hold the lock at once.
THEOREM LockIsExclusive == LockSpec => []MutualExclusion
<1>1. IInv => MutualExclusion
    BY DEF IInv, LockTypeOK, QueueInv, MutualExclusion, Holds, Queued
<1> QED
    BY <1>1, InductiveInvariant, PTL

-----------------------------------------------------------------------------
(* Every step of the lock is a step of the fair lock, or none.             *)

\* The exchange queues a thread, spin_on_waiting enters, release leaves.
LEMMA StepContract ==
    ASSUME IInv, [LockNext]_lockVars
    PROVE  [Contract!Next]_<<number, issued, serving, {t \in Thread : Holds(t)}>>
<1> USE NilAssumption DEF IInv, LockTypeOK, QueueInv, Queued, Holds
<1> DEFINE H == {t \in Thread : Holds(t)}
<1>1. ASSUME NEW t \in Thread, prepare(t) PROVE H' = H /\ UNCHANGED <<number, issued, serving>>
    BY <1>1 DEF prepare, Goto
<1>2. ASSUME NEW t \in Thread, attempt(t)
      PROVE Contract!Queue(t) \/ (H' = H /\ UNCHANGED <<number, issued, serving>>)
    BY <1>2 DEF attempt, Number, Goto, Contract!Queue
<1>3. ASSUME NEW t \in Thread, begin_acquire(t) PROVE Contract!Queue(t)
  <2>1. number[t] = -1 /\ (tail = Nil <=> issued = serving)
      BY <1>3 DEF begin_acquire
  <2>2. H' = IF issued = serving THEN H \cup {t} ELSE H
      BY <1>3, <2>1 DEF begin_acquire, Goto
  <2> QED
      BY <1>3, <2>1, <2>2 DEF begin_acquire, Number, Contract!Queue
<1>4. ASSUME NEW t \in Thread, link(t) PROVE H' = H /\ UNCHANGED <<number, issued, serving>>
    BY <1>4 DEF link, Goto
<1>5. ASSUME NEW t \in Thread, spin_on_waiting(t) PROVE Contract!Enter(t)
  <2>1. number[t] = serving /\ H = {} /\ H' = {t}
      BY <1>5 DEF spin_on_waiting, Goto
  <2> QED
      BY <1>5, <2>1 DEF spin_on_waiting, Contract!Enter
<1>6. ASSUME NEW t \in Thread, release(t) \/ spin_on_next(t)
      PROVE H' = H /\ UNCHANGED <<number, issued, serving>>
    BY <1>6 DEF release, spin_on_next, Goto
<1>7. ASSUME NEW t \in Thread, release_tail(t)
      PROVE Contract!Leave(t) \/ (H' = H /\ UNCHANGED <<number, issued, serving>>)
  <2>1. H = {t}
      BY <1>7 DEF release_tail
  <2>2. CASE tail = t
      BY <1>7, <2>1, <2>2 DEF release_tail, Left, Goto, Contract!Leave
  <2>3. CASE tail # t
      BY <1>7, <2>3 DEF release_tail, Goto
  <2> QED
      BY <2>2, <2>3
<1>8. ASSUME NEW t \in Thread, hand_over(t) PROVE Contract!Leave(t)
  <2>1. H = {t} /\ H' = {}
      BY <1>8 DEF hand_over, Goto
  <2> QED
      BY <1>8, <2>1 DEF hand_over, Left, Contract!Leave
<1>9. CASE UNCHANGED lockVars
    BY <1>9 DEF lockVars
<1> QED
    BY <1>1, <1>2, <1>3, <1>4, <1>5, <1>6, <1>7, <1>8, <1>9 DEF LockNext, LockStep, Contract!Next

\* The lock is handed over in the order of the exchanges on _tail.
THEOREM LockIsFair == LockSpec => IsFairLock
<1>1. LockInit => Contract!Init
    BY DEF LockInit, Contract!Init, Holds
<1>2. IInv /\ [LockNext]_lockVars => [Contract!Next]_<<number, issued, serving, {t \in Thread : Holds(t)}>>
    BY StepContract
<1> QED
    BY <1>1, <1>2, InductiveInvariant, PTL DEF LockSpec, IsFairLock, Contract!Spec
=============================================================================
