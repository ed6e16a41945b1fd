------------------------------ MODULE McsLock -------------------------------
(***************************************************************************)
(* The queue lock of mcs_lock.h that protects the epoch manager and the    *)
(* log: a thread appends its qnode to the queue with one atomic exchange,  *)
(* spins on its own qnode, and on release hands the lock to its successor. *)
(*                                                                         *)
(*   tail           _tail                                                  *)
(*   next, waiting  the fields of the thread's qnode                       *)
(*   pred           the predecessor that __unsafe_begin_acquire returned   *)
(*   number, issued, serving  history: the order of the exchanges on       *)
(*                  _tail, numbered, and the number whose turn it is       *)
(***************************************************************************)
EXTENDS Integers

CONSTANTS Thread, Nil,
          MaxIssued    \* bound: how often the lock is taken

ASSUME NilAssumption == Nil \notin Thread

VARIABLES tail, next, waiting, pred, pc, number, issued, serving

lockVars == <<tail, next, waiting, pred, pc, number, issued, serving>>

LockTypeOK ==
    /\ tail \in Thread \cup {Nil}
    /\ next \in [Thread -> Thread \cup {Nil}]
    /\ waiting \in [Thread -> BOOLEAN]
    /\ pred \in [Thread -> Thread \cup {Nil}]
    /\ pc \in [Thread -> {"idle", "swap", "try", "link", "spin", "cs", "release", "next", "hand"}]
    /\ number \in [Thread -> Nat \cup {-1}]
    /\ issued \in Nat /\ serving \in Nat

LockInit ==
    /\ tail = Nil
    /\ next = [t \in Thread |-> Nil]
    /\ waiting = [t \in Thread |-> FALSE]
    /\ pred = [t \in Thread |-> Nil]
    /\ pc = [t \in Thread |-> "idle"]
    /\ number = [t \in Thread |-> -1]
    /\ issued = 0 /\ serving = 0

Goto(t, p) == pc' = [pc EXCEPT ![t] = p]
-----------------------------------------------------------------------------
\* acquire and attempt prepare the qnode.
prepare(t) ==
    /\ pc[t] = "idle"
    /\ next' = [next EXCEPT ![t] = Nil]
    /\ waiting' = [waiting EXCEPT ![t] = TRUE]
    /\ \/ Goto(t, "swap")
       \/ Goto(t, "try")
    /\ UNCHANGED <<tail, pred, number, issued, serving>>

Number(t) ==
    /\ issued < MaxIssued
    /\ number' = [number EXCEPT ![t] = issued]
    /\ issued' = issued + 1

\* attempt: one compare-and-swap.
attempt(t) ==
    /\ pc[t] = "try"
    /\ IF tail = Nil
       THEN tail' = t /\ Goto(t, "cs") /\ Number(t)
       ELSE Goto(t, "idle") /\ UNCHANGED <<tail, number, issued>>
    /\ UNCHANGED <<next, waiting, pred, serving>>

\* __unsafe_begin_acquire: exchange on _tail ...
begin_acquire(t) ==
    /\ pc[t] = "swap"
    /\ pred' = [pred EXCEPT ![t] = tail]
    /\ tail' = t
    /\ Goto(t, IF tail = Nil THEN "cs" ELSE "link")
    /\ Number(t)
    /\ UNCHANGED <<next, waiting, serving>>

\* ... and tell the predecessor.
link(t) ==
    /\ pc[t] = "link"
    /\ next' = [next EXCEPT ![pred[t]] = t]
    /\ Goto(t, "spin")
    /\ UNCHANGED <<tail, waiting, pred, number, issued, serving>>

spin_on_waiting(t) ==
    /\ pc[t] = "spin" /\ ~waiting[t]
    /\ Goto(t, "cs")
    /\ UNCHANGED <<tail, next, waiting, pred, number, issued, serving>>

release(t) ==
    /\ pc[t] = "cs"
    /\ Goto(t, IF next[t] = Nil THEN "release" ELSE "hand")
    /\ UNCHANGED <<tail, next, waiting, pred, number, issued, serving>>

Left(t) == number' = [number EXCEPT ![t] = -1] /\ serving' = serving + 1

\* Mutant: release clears the tail without looking at it.
release_blind(t) ==
    /\ pc[t] = "release"
    /\ IF TRUE
       THEN tail' = Nil /\ Goto(t, "idle") /\ Left(t)
       ELSE Goto(t, "next") /\ UNCHANGED <<tail, number, serving>>
    /\ UNCHANGED <<next, waiting, pred, issued>>

\* No successor known: free the lock, or wait for the one that is linking.
release_tail(t) ==
    /\ pc[t] = "release"
    /\ IF tail = t
       THEN tail' = Nil /\ Goto(t, "idle") /\ Left(t)
       ELSE Goto(t, "next") /\ UNCHANGED <<tail, number, serving>>
    /\ UNCHANGED <<next, waiting, pred, issued>>

spin_on_next(t) ==
    /\ pc[t] = "next" /\ next[t] # Nil
    /\ Goto(t, "hand")
    /\ UNCHANGED <<tail, next, waiting, pred, number, issued, serving>>

\* Mutant: the successor's flag is not cleared.
hand_over_silent(t) ==
    /\ pc[t] = "hand"
    /\ UNCHANGED waiting
    /\ Goto(t, "idle")
    /\ Left(t)
    /\ UNCHANGED <<tail, next, pred, issued>>

hand_over(t) ==
    /\ pc[t] = "hand"
    /\ waiting' = [waiting EXCEPT ![next[t]] = FALSE]
    /\ Goto(t, "idle")
    /\ Left(t)
    /\ UNCHANGED <<tail, next, pred, issued>>

LockStep(t) ==
    \/ attempt(t) \/ begin_acquire(t) \/ link(t) \/ spin_on_waiting(t)
    \/ release(t) \/ release_tail(t) \/ spin_on_next(t) \/ hand_over(t)

LockNext == \E t \in Thread : prepare(t) \/ LockStep(t)

LockSpec == LockInit /\ [][LockNext]_lockVars

\* A thread that has begun to acquire or to release keeps running: mutexes are
\* taken where preemption is locked out.
LockFairSpec == LockSpec /\ \A t \in Thread : WF_lockVars(LockStep(t))
-----------------------------------------------------------------------------
Holds(t) == pc[t] \in {"cs", "release", "next", "hand"}

\* At most one thread is in the critical section (critical_section).
MutualExclusion == \A t, u \in Thread : Holds(t) /\ Holds(u) => t = u

\* The lock is a fair lock: it is handed over in the order of the exchanges.
Contract == INSTANCE LockContract WITH holder <- {t \in Thread : Holds(t)}

IsFairLock == Contract!Spec

\* Every acquire returns: the hand-over is never lost between the predecessor
\* that finds no successor and the successor that is linking.
AcquireReturns == \A t \in Thread : pc[t] = "link" ~> Holds(t)
=============================================================================
