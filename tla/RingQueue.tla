----------------------------- MODULE RingQueue ------------------------------
(***************************************************************************)
(* OneToOneQueue of ring-buff-queue.h: the queue between the scheduler,    *)
(* its one producer, and a worker, its one consumer.  There is no lock;    *)
(* each side stores one of the two indices.  Every load and store of a     *)
(* shared word is a step: the producer looks (isFull), stores the slot,    *)
(* and advances endIdx; the consumer looks (isEmpty), copies the slot      *)
(* (front) and, at any later time, advances startIdx (pop).                *)
(*                                                                         *)
(* One slot is never used, so that startIdx = endIdx means empty.          *)
(***************************************************************************)
EXTENDS Integers, Sequences

CONSTANTS T, Capacity, Nothing

ASSUME RingAssumption ==
    /\ Capacity \in Nat \ {0}
    /\ Nothing \notin T

VARIABLES data, startIdx, endIdx, producer, consumer

vars == <<data, startIdx, endIdx, producer, consumer>>

capacity == Capacity + 1
Idx == 0..Capacity

\* init() leaves the slots as new T[] makes them.
Init ==
    /\ data \in [Idx -> T]
    /\ startIdx = 0
    /\ endIdx = 0
    /\ producer = [pc |-> "idle", t |-> Nothing]
    /\ consumer = [pc |-> "idle", t |-> Nothing]

isEmpty == startIdx = endIdx
isFull == (endIdx + 1) % capacity = startIdx
-----------------------------------------------------------------------------
(* The producer: if (!isFull()) push(t).                                   *)

p_look ==
    /\ producer.pc = "idle"
    /\ ~isFull
    /\ \E t \in T : producer' = [pc |-> "push", t |-> t]
    /\ UNCHANGED <<data, startIdx, endIdx, consumer>>

p_store ==
    /\ producer.pc = "push"
    /\ data' = [data EXCEPT ![endIdx] = producer.t]
    /\ producer' = [producer EXCEPT !.pc = "advance"]
    /\ UNCHANGED <<startIdx, endIdx, consumer>>

p_advance ==
    /\ producer.pc = "advance"
    /\ endIdx' = (endIdx + 1) % capacity
    /\ producer' = [pc |-> "idle", t |-> Nothing]
    /\ UNCHANGED <<data, startIdx, consumer>>

(* The consumer: if (!isEmpty()) { t = front(); ... pop(); }               *)

c_look ==
    /\ consumer.pc = "idle"
    /\ ~isEmpty
    /\ consumer' = [consumer EXCEPT !.pc = "front"]
    /\ UNCHANGED <<data, startIdx, endIdx, producer>>

c_front ==
    /\ consumer.pc = "front"
    /\ consumer' = [pc |-> "pop", t |-> data[startIdx]]
    /\ UNCHANGED <<data, startIdx, endIdx, producer>>

\* Mutant: the consumer wraps one slot too early.
c_pop_early ==
    /\ consumer.pc = "pop"
    /\ startIdx' = (startIdx + 1) % Capacity
    /\ consumer' = [pc |-> "idle", t |-> Nothing]
    /\ UNCHANGED <<data, endIdx, producer>>

c_pop ==
    /\ consumer.pc = "pop"
    /\ startIdx' = (startIdx + 1) % capacity
    /\ consumer' = [pc |-> "idle", t |-> Nothing]
    /\ UNCHANGED <<data, endIdx, producer>>

Next ==
    \/ p_look \/ p_store \/ p_advance
    \/ c_look \/ c_front \/ c_pop

Spec == Init /\ [][Next]_vars
-----------------------------------------------------------------------------
\* The slot i places after s, and the number of places from s to e.
Slot(s, i) == (s + i) % capacity
Distance(s, e) == (e + capacity - s) % capacity

Contents ==
    [i \in 1..Distance(startIdx, endIdx) |-> data[Slot(startIdx, i - 1)]]

Abstract == INSTANCE Fifo WITH queue <- Contents, taken <- consumer.t

\* The ring implements a FIFO queue of Capacity elements: push takes effect
\* when endIdx moves, and an index that the other side read is never so stale
\* that an element is lost, overwritten, or seen before it was stored.
FifoSpec == Abstract!Spec

\* What each side knows after it looked stays true: the other side can only
\* make a ring that is not full less full, one that is not empty less empty.
RingInv ==
    /\ data \in [Idx -> T]
    /\ startIdx \in Idx
    /\ endIdx \in Idx
    /\ producer \in [pc : {"idle", "push", "advance"}, t : T \cup {Nothing}]
    /\ consumer \in [pc : {"idle", "front", "pop"}, t : T \cup {Nothing}]
    /\ producer.pc # "idle" => producer.t \in T /\ ~isFull
    /\ producer.pc = "advance" => data[endIdx] = producer.t
    /\ consumer.pc # "idle" => ~isEmpty
    /\ consumer.t = IF consumer.pc = "pop" THEN data[startIdx] ELSE Nothing
=============================================================================
