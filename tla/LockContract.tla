---------------------------- MODULE LockContract ----------------------------
(***************************************************************************)
(* What an mcs_lock promises: a fair lock.  Whoever queues up takes the    *)
(* next number, and only the thread whose number is served holds the lock. *)
(***************************************************************************)
EXTENDS Integers

CONSTANT Thread
VARIABLES number,   \* the number a thread holds, -1 without one
          issued,   \* the next number to be given out
          serving,  \* the number that is served
          holder    \* the threads in the critical section

Init ==
    /\ number = [t \in Thread |-> -1]
    /\ issued = 0 /\ serving = 0
    /\ holder = {}

Queue(t) ==
    /\ number[t] = -1
    /\ number' = [number EXCEPT ![t] = issued]
    /\ issued' = issued + 1
    /\ holder' = IF issued = serving THEN holder \cup {t} ELSE holder
    /\ UNCHANGED serving

Enter(t) ==
    /\ number[t] = serving /\ holder = {}
    /\ holder' = {t}
    /\ UNCHANGED <<number, issued, serving>>

Leave(t) ==
    /\ holder = {t}
    /\ holder' = {}
    /\ number' = [number EXCEPT ![t] = -1]
    /\ serving' = serving + 1
    /\ UNCHANGED issued

Next == \E t \in Thread : Queue(t) \/ Enter(t) \/ Leave(t)

Spec == Init /\ [][Next]_<<number, issued, serving, holder>>
=============================================================================
