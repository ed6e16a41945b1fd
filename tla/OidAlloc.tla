------------------------------ MODULE OidAlloc ------------------------------
(***************************************************************************)
(* Object identifiers: the allocator of a file (sm-oid-alloc.cpp) and the  *)
(* caches that threads keep in front of it (sm-oid.cpp).  L0 is a bump     *)
(* allocator, L1 a stack of freed OIDs, L2 collects what overflows L1 in   *)
(* small sets, one per swath of the OID space.  L3 is left out: only tests *)
(* drain to it, so l3_valid() is false.                                    *)
(*                                                                         *)
(*   a        the allocator, a record:                                     *)
(*              hiwater, capacity  the marks of L0                         *)
(*              l1       the stack, its top at the end                     *)
(*              valid    l2_valid()                                        *)
(*              l2       the array: full sets <<swath, map>> from the left *)
(*                       (size of them), unused maps from first on         *)
(*              assign   l2_assignments: the map of a swath, 0 if none     *)
(*              maps     l2_maps: the offsets in a map                     *)
(*              loose    l2_loose_oids;  hand  l2_scan_hand                *)
(*   cache    thread_cache of each thread, its top at the end              *)
(*   live     the OIDs in use;  gone  OIDs that were dropped on purpose    *)
(*            (OID 0) or because neither L1 nor L2 had room                *)
(*                                                                         *)
(* Every operation on the allocator runs under the lock of its file and is *)
(* one step.  sparse_bitset is a set here; as_array() is read as the array *)
(* that entries holds, which is what its users expect of it.               *)
(***************************************************************************)
EXTENDS Integers, Sequences, FiniteSets, SequencesExt, FiniteSetsExt

CONSTANTS Thread,
          GAMUT,          \* OIDs of a swath
          CAPACITY,       \* OIDs of a full map
          L1_CAPACITY, L2_CAPACITY,
          FILL_TARGET, N, \* of a thread_cache
          FirstCapacity,  \* the initial capacity_mark
          MaxCapacity     \* bound: how far capacity_mark grows

VARIABLES a, cache, live, gone
vars == <<a, cache, live, gone>>

Map == 0..(L2_CAPACITY - 1)
Swath == 0..(L2_CAPACITY - 1)
SwathOf(x) == x \div GAMUT

Init ==
    /\ a = [hiwater |-> 0, capacity |-> FirstCapacity, l1 |-> <<>>, valid |-> FALSE,
            l2 |-> [i \in Map |-> <<0, i>>], size |-> 0, first |-> 0,
            assign |-> [s \in Swath |-> 0], maps |-> [i \in Map |-> {}],
            loose |-> 0, hand |-> 0]
    /\ cache = [t \in Thread |-> <<>>]
    /\ live = {} /\ gone = {}
-----------------------------------------------------------------------------
(* Sequences as stacks.                                                    *)

Drop(s, n) == SubSeq(s, 1, Len(s) - n)
Top(s, n) == SubSeq(s, Len(s) - n + 1, Len(s))
Ascending(S) == SetToSortSeq(S, LAMBDA x, y : x < y)
-----------------------------------------------------------------------------
(* The allocator: operators from allocators to allocators.                 *)

init_l2(al) ==
    [al EXCEPT !.valid = TRUE, !.size = 0, !.first = 1, !.hand = 0, !.loose = 0]

\* One OID of _drain_l1.
DrainOne(al, x) ==
    LET s == SwathOf(x)
        m == al.assign[s]
        full == Cardinality(al.maps[m]) + 1 = CAPACITY
    IN  IF m # 0
        THEN IF full
             THEN [al EXCEPT !.maps[m] = @ \cup {x % GAMUT}, !.l2[al.size] = <<s, m>>,
                             !.size = @ + 1, !.assign[s] = 0, !.loose = @ + 1 - CAPACITY]
             ELSE [al EXCEPT !.maps[m] = @ \cup {x % GAMUT}, !.loose = @ + 1]
        ELSE IF al.first = L2_CAPACITY
             THEN [al EXCEPT !.l1 = Append(@, x)]
             ELSE LET n == al.l2[al.first][2] IN
                  [al EXCEPT !.assign[s] = n, !.maps[n] = {x % GAMUT}, !.first = @ + 1,
                             !.loose = @ + 1]

_drain_l1(al, n) ==
    LET b == IF al.valid THEN al ELSE init_l2(al)
    IN  FoldLeft(DrainOne, [b EXCEPT !.l1 = Drop(@, n)], Top(b.l1, n))


\* Move OIDs to a cache: the result is <<allocator, cache, OIDs still wanted>>.
_fill_from_l1(al, tc, target) ==
    LET n == Min({target, Len(al.l1)})
    IN  <<[al EXCEPT !.l1 = Drop(@, n)], tc \o Top(al.l1, n), target - n>>

\* _scan_l2 without a filter: full maps from the end of the list.
RECURSIVE _fill_from_l2(_, _, _)
_fill_from_l2(al, tc, target) ==
    IF target <= 0 \/ ~al.valid \/ al.size = 0 THEN <<al, tc, target>>
    ELSE LET x == al.l2[al.size - 1]
             oids == {x[1] * GAMUT + o : o \in al.maps[x[2]]}
         IN  _fill_from_l2([al EXCEPT !.size = @ - 1, !.first = @ - 1,
                                      !.l2[al.first - 1] = <<0, x[2]>>],
                           tc \o Ascending(oids), target - CAPACITY)

Bump(al, tc, target) ==
    LET n == Max({0, Min({target, al.capacity - al.hiwater})})
    IN  <<[al EXCEPT !.hiwater = @ + n], tc \o [i \in 1..n |-> al.hiwater + i - 1],
          target - n>>

\* The scan of _scavenge_l2: one swath, and then the next while OIDs are wanted.
RECURSIVE Scavenge(_, _, _)
Scavenge(al, target, i) ==
    IF target <= 0 \/ i = L2_CAPACITY THEN [al EXCEPT !.hand = @ + i]
    ELSE LET s == (al.hand + i) % L2_CAPACITY
             m == al.assign[s]
             oids == {s * GAMUT + o : o \in al.maps[m]}
         IN  IF m = 0 THEN Scavenge(al, target, i + 1)
             ELSE Scavenge([al EXCEPT !.l1 = @ \o Ascending(oids), !.assign[s] = 0,
                                      !.loose = @ - Cardinality(oids),
                                      !.first = @ - 1, !.l2[al.first - 1] = <<0, m>>],
                           target - Cardinality(oids), i + 1)

_scavenge_l2(al, target) ==
    IF ~al.valid \/ al.loose < target THEN al
    ELSE LET b == Scavenge(al, target, 0) IN [b EXCEPT !.hand = @ % L2_CAPACITY]

\* L1, full maps of L2, the bump allocator, then loose OIDs of L2.  The
\* comparison with propose_capacity always holds while l3_loose_oids has its
\* canary value.
fill_cache(al, tc) ==
    LET want == Min({FILL_TARGET, N - Len(tc) - CAPACITY})
        r1 == _fill_from_l1(al, tc, want)
        r2 == _fill_from_l2(r1[1], r1[2], r1[3])
        r3 == Bump(r2[1], r2[2], r2[3])
        b == IF r3[1].loose # 0 THEN _scavenge_l2(r3[1], L1_CAPACITY \div 2) ELSE r3[1]
    IN  CASE r1[3] <= 0 -> r1
          [] r1[3] > 0 /\ r2[3] <= 0 -> r2
          [] OTHER -> IF b.l1 # <<>> THEN _fill_from_l1(b, r3[2], r3[3]) ELSE <<b, r3[2], r3[3]>>

drain_cache(al, tc) ==
    LET b == IF Len(al.l1) + Len(tc) > L1_CAPACITY THEN _drain_l1(al, L1_CAPACITY \div 2)
             ELSE al
        n == Min({Len(tc), L1_CAPACITY - Len(b.l1)})
    IN  <<[b EXCEPT !.l1 = @ \o Top(tc, n)], Drop(tc, n)>>

propose_capacity(al) == (5 * al.capacity) \div 4
-----------------------------------------------------------------------------
(* Threads.                                                                *)

\* context_allocate, called again by alloc_oid when it yields OID 0.
Take(t, al, tc) ==
    LET x == Last(tc) IN
    /\ a' = al
    /\ cache' = [cache EXCEPT ![t] = Front(tc)]
    /\ IF x = 0 THEN gone' = gone \cup {0} /\ UNCHANGED live
       ELSE live' = live \cup {x} /\ UNCHANGED gone

alloc_oid(t) ==
    IF cache[t] # <<>> THEN Take(t, a, cache[t])
    ELSE LET r == fill_cache(a, <<>>)
             grown == [r[1] EXCEPT !.capacity = propose_capacity(r[1])]
             again == fill_cache(grown, r[2])
         IN  IF r[3] <= 0 THEN Take(t, r[1], r[2])
             ELSE grown.capacity <= MaxCapacity /\ Take(t, again[1], again[2])

free_oid(t, x) ==
    /\ live' = live \ {x}
    /\ IF Len(cache[t]) = N
       THEN LET r == drain_cache(a, cache[t]) IN
            a' = r[1] /\ cache' = [cache EXCEPT ![t] = Append(r[2], x)]
       ELSE cache' = [cache EXCEPT ![t] = Append(@, x)] /\ UNCHANGED a
    /\ UNCHANGED gone

\* The thread ends, or its table of caches is full: the cache is drained and
\* cleared.
context_revoke_caches(t) ==
    /\ cache[t] # <<>>
    /\ LET r == drain_cache(a, cache[t]) IN a' = r[1] /\ gone' = gone \cup ToSet(r[2])
    /\ cache' = [cache EXCEPT ![t] = <<>>]
    /\ UNCHANGED live

Next ==
    \E t \in Thread :
        \/ alloc_oid(t)
        \/ \E x \in live : free_oid(t, x)
        \/ context_revoke_caches(t)

Spec == Init /\ [][Next]_vars
-----------------------------------------------------------------------------
InMap(s, m) == {s * GAMUT + o : o \in a.maps[m]}
InL2 == UNION {InMap(s, a.assign[s]) : s \in {u \in Swath : a.assign[u] # 0}}
        \cup UNION {InMap(a.l2[i][1], a.l2[i][2]) : i \in 0..(a.size - 1)}
LooseOids == UNION {InMap(s, a.assign[s]) : s \in {u \in Swath : a.assign[u] # 0}}

Places == <<live, gone, ToSet(a.l1), InL2>>
          \o SetToSeq({ToSet(cache[t]) : t \in {u \in Thread : cache[u] # <<>>}})

\* No OID is handed out twice and none is lost: the OIDs below the high water
\* mark are in use, in one cache, in L1 or in L2, and in one of them only
\* (sanity_check and what it cannot see, the threads).
OidsArePartitioned ==
    /\ UNION ToSet(Places) = 0..(a.hiwater - 1)
    /\ FoldLeft(LAMBDA n, S : n + Cardinality(S), 0, Places) = a.hiwater
    /\ \A t \in Thread : IsInjective(cache[t])
    /\ IsInjective(a.l1)

\* Every map of L2 is full, assigned to one swath or unused, and the two lists
\* that share the array l2 do not run into each other (sanity_check).
MapsAreAccounted ==
    a.valid =>
        LET full == [i \in 1..a.size |-> a.l2[i - 1][2]]
            idle == [i \in 1..(L2_CAPACITY - a.first) |-> a.l2[a.first + i - 1][2]]
            used == SetToSeq({a.assign[s] : s \in {u \in Swath : a.assign[u] # 0}})
        IN  /\ a.size <= a.first
            /\ IsInjective(full \o idle \o used)
            /\ ToSet(full \o idle \o used) = Map \ {0}
            /\ \A s, u \in Swath : a.assign[s] = a.assign[u] /\ a.assign[s] # 0 => s = u

\* The count that decides about scavenging is right, and the stack and the
\* caches keep their bounds.
LooseIsExact ==
    /\ a.loose = Cardinality(LooseOids)
    /\ Len(a.l1) <= L1_CAPACITY
    /\ \A t \in Thread : Len(cache[t]) <= N
    /\ a.hiwater <= a.capacity

=============================================================================
