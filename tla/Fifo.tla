-------------------------------- MODULE Fifo --------------------------------
(***************************************************************************)
(* What a workload queue promises its one producer and its one consumer: a *)
(* bounded first-in first-out queue whose head the consumer may look at    *)
(* before it removes it.                                                   *)
(***************************************************************************)
EXTENDS Naturals, Sequences

CONSTANTS T, Capacity, Nothing

VARIABLES
    queue,
    taken          \* what the consumer got from front() and did not pop yet

Init == queue = <<>> /\ taken = Nothing

Push ==
    /\ Len(queue) < Capacity
    /\ \E t \in T : queue' = Append(queue, t)
    /\ UNCHANGED taken

Front ==
    /\ queue # <<>>
    /\ taken = Nothing
    /\ taken' = Head(queue)
    /\ UNCHANGED queue

Pop ==
    /\ taken # Nothing
    /\ taken' = Nothing
    /\ queue' = Tail(queue)

Next == Push \/ Front \/ Pop

Spec == Init /\ [][Next]_<<queue, taken>>
=============================================================================
