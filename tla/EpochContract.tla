--------------------------- MODULE EpochContract ----------------------------
(***************************************************************************)
(* What the epoch manager promises its users, the XID allocator and the    *)
(* memory manager: at most three epochs are populated, and a reclaimed     *)
(* epoch has nobody in it and gets nobody.                                 *)
(*                                                                         *)
(*   current  the active epoch                                             *)
(*   inside   the epoch a thread is in, 0 outside                          *)
(*   dead     the last reclaimed epoch                                     *)
(***************************************************************************)
EXTENDS Integers

CONSTANT Thread
VARIABLES current, inside, dead

Init ==
    /\ current = 1
    /\ inside = [t \in Thread |-> 0]
    /\ dead = 0

\* A slow thread may join an epoch that is already closed, never a dead one.
Enter(t) ==
    /\ inside[t] = 0
    /\ \E e \in (dead + 1)..current :
         e + 2 >= current /\ inside' = [inside EXCEPT ![t] = e]
    /\ UNCHANGED <<current, dead>>

Leave(t) ==
    /\ inside[t] # 0
    /\ inside' = [inside EXCEPT ![t] = 0]
    /\ UNCHANGED <<current, dead>>

Quiesce(t) ==
    /\ inside[t] # 0
    /\ inside' = [inside EXCEPT ![t] = current]
    /\ UNCHANGED <<current, dead>>

\* Epoch N+1 opens: epoch N-2 is dead, nobody is left in it.
Open ==
    /\ dead + 2 >= current
    /\ \A t \in Thread : inside[t] # 0 => inside[t] + 1 >= current
    /\ current' = current + 1
    /\ UNCHANGED <<inside, dead>>

Reclaim ==
    /\ \E e \in (dead + 1)..(current - 2) :
         /\ \A t \in Thread : inside[t] # 0 => inside[t] > e
         /\ dead' = e
    /\ UNCHANGED <<current, inside>>

\* The last thread deregisters and everything is reclaimed.
Close ==
    /\ \A t \in Thread : inside[t] = 0
    /\ current' = current + 1
    /\ dead' = current
    /\ UNCHANGED inside

Next ==
    \/ \E t \in Thread : Enter(t) \/ Leave(t) \/ Quiesce(t)
    \/ Open \/ Reclaim \/ Close

vars == <<current, inside, dead>>

Spec == Init /\ [][Next]_vars
=============================================================================
