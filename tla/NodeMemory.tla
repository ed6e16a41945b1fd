----------------------------- MODULE NodeMemory -----------------------------
(***************************************************************************)
(* MM::allocate (sm-alloc.cpp): every thread bumps a pointer through a     *)
(* chunk of its own, and takes the next chunk from the memory of its node  *)
(* with an atomic add.  No free-object pool exists (nothing creates one)   *)
(* and deallocate does nothing, so memory is never reused.                 *)
(*                                                                         *)
(*   used       allocated_node_memory of a node                            *)
(*   chunk      cls_node_memory: the node and offset of the chunk, or Null *)
(*   bumped     cls_allocated_node_memory                                  *)
(*   pending    the size the thread is getting a chunk for, 0 if none      *)
(*   objects    history: <<node, first, size>> of everything handed out    *)
(*                                                                         *)
(* Sizes are in units of the allocator's alignment.                        *)
(***************************************************************************)
EXTENDS Integers, FiniteSets

CONSTANTS Thread, Node,
          Sizes,          \* sizes of the objects, aligned up
          ChunkSize,      \* tls_node_memory_mb
          NodeSize        \* node_memory_gb

VARIABLES used, chunk, bumped, pending, failed, objects
vars == <<used, chunk, bumped, pending, failed, objects>>

Null == <<>>

TypeOK ==
    /\ used \in [Node -> Nat]
    /\ chunk \in [Thread -> (Node \X Nat) \cup {Null}]
    /\ bumped \in [Thread -> 0..ChunkSize]
    /\ pending \in [Thread -> Sizes \cup {0}]
    /\ failed \subseteq Thread

\* prepare_node_memory.
Init ==
    /\ used = [n \in Node |-> 0]
    /\ chunk = [t \in Thread |-> Null]
    /\ bumped = [t \in Thread |-> 0]
    /\ pending = [t \in Thread |-> 0]
    /\ failed = {}
    /\ objects = {}

Bump(t, c, from, size) ==
    /\ objects' = objects \cup {<<c[1], c[2] + from, size, t>>}
    /\ bumped' = [bumped EXCEPT ![t] = from + size]

\* The common case, or the decision to get a new chunk.
allocate(t) ==
    /\ pending[t] = 0 /\ t \notin failed
    /\ \E size \in Sizes :
         IF chunk[t] = Null \/ bumped[t] + size >= ChunkSize
         THEN pending' = [pending EXCEPT ![t] = size] /\ UNCHANGED <<bumped, objects>>
         ELSE Bump(t, chunk[t], bumped[t], size) /\ UNCHANGED pending
    /\ UNCHANGED <<used, chunk, failed>>

\* Mutant: allocate_onnode takes what the object needs, not a chunk.
onnode_packed(t) ==
    /\ pending[t] # 0
    /\ \E n \in Node :
         /\ used' = [used EXCEPT ![n] = @ + pending[t]]
         /\ IF used[n] + ChunkSize <= NodeSize
            THEN /\ chunk' = [chunk EXCEPT ![t] = <<n, used[n]>>]
                 /\ Bump(t, <<n, used[n]>>, 0, pending[t])
                 /\ UNCHANGED failed
            ELSE /\ chunk' = [chunk EXCEPT ![t] = Null]
                 /\ bumped' = [bumped EXCEPT ![t] = 0]
                 /\ failed' = failed \cup {t}
                 /\ UNCHANGED objects
    /\ pending' = [pending EXCEPT ![t] = 0]

\* allocate_onnode on the node the thread runs on; without memory left the
\* process dies ("Out of memory").
allocate_onnode(t) ==
    /\ pending[t] # 0
    /\ \E n \in Node :
         /\ used' = [used EXCEPT ![n] = @ + ChunkSize]
         /\ IF used[n] + ChunkSize <= NodeSize
            THEN /\ chunk' = [chunk EXCEPT ![t] = <<n, used[n]>>]
                 /\ Bump(t, <<n, used[n]>>, 0, pending[t])
                 /\ UNCHANGED failed
            ELSE /\ chunk' = [chunk EXCEPT ![t] = Null]
                 /\ bumped' = [bumped EXCEPT ![t] = 0]
                 /\ failed' = failed \cup {t}
                 /\ UNCHANGED objects
    /\ pending' = [pending EXCEPT ![t] = 0]

Next == failed = {} /\ \E t \in Thread : allocate(t) \/ allocate_onnode(t)

Spec == Init /\ [][Next]_vars
-----------------------------------------------------------------------------
Overlap(o, p) == o[1] = p[1] /\ o[2] < p[2] + p[3] /\ p[2] < o[2] + o[3]

\* No two objects share memory, and each lies inside the memory of its node
\* (the bump in allocate, the atomic add in allocate_onnode).
ObjectsAreDisjoint ==
    /\ \A o, p \in objects : Overlap(o, p) => o = p
    /\ \A o \in objects : o[2] + o[3] <= NodeSize
=============================================================================
