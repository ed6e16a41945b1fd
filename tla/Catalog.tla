------------------------------ MODULE Catalog -------------------------------
(***************************************************************************)
(* Files and the catalogue.  A file is an OID array, usually with an OID   *)
(* allocator; file 0 (OBJARRAY_FID) is the file of all files, and its OIDs *)
(* are the FIDs (sm-oid.cpp).  Threads keep caches of OIDs per file.  A    *)
(* table has a file of tuples and one of keys, an index has a file of its  *)
(* own, and three global maps lead to them (sm-table.h, engine.cc).        *)
(*                                                                         *)
(*   files    of each file its array's size and its allocator: the marks   *)
(*            and the stack of free OIDs (the levels above L1 are the      *)
(*            subject of OidAlloc.tla)                                     *)
(*   caches   context_data::caches of each thread, their tops at the end   *)
(*   live     the OIDs in use, as <<file, OID>>                            *)
(*   name_map, fid_map, index_map, tables                                  *)
(*   calls    the engine calls RegisterIndex has still to make             *)
(*   opened   what OpenIndexes returned for each index                     *)
(*   destroys whether files are destroyed, as only the tests do            *)
(*   ops      history, for the bound: the calls after the set-up           *)
(***************************************************************************)
EXTENDS Integers, Sequences, SequencesExt, FiniteSets, FiniteSetsExt, TLC

CONSTANTS
    Thread,
    NENTRIES,             \* caches of a thread
    FillTarget,           \* thread_cache::FILL_TARGET
    FirstCapacity, MaxCapacity,  \* capacity_mark: the first; bound: the largest
    Page, FirstPages, SlackPages,  \* dynarray, in OID-array entries and pages
    Registered,           \* the RegisterIndex calls: <<table, index, is_primary>>
    NumWarehouses, worker_threads, SeparateTrees,
    MaxFid, MaxLive, MaxOps  \* bounds: files, OIDs in use, calls after the set-up

VARIABLES files, caches, live, name_map, fid_map, index_map, tables, calls, opened, destroys,
          ops
oids == <<files, caches, live>>
maps == <<name_map, fid_map, index_map, tables>>
vars == <<oids, maps, calls, opened, destroys, ops>>

FIRST_FREE_FID == 3
Header == 2  \* sizeof(dynarray), in entries
-----------------------------------------------------------------------------
(* Arrays and allocators.                                                  *)

Pages(n) == (Header + n + Page - 1) \div Page

\* oid_array::make
NewArray == FirstPages

\* A larger array gets slack, so that it need not grow again soon.
ensure_size(size, n) == IF size < Pages(n) THEN Pages(n) + SlackPages ELSE size

nentries(size) == size * Page - Header

\* A file without an allocator has no capacity.
NoAllocator == [hiwater |-> 0, capacity |-> 0, l1 |-> <<>>]

NewAllocator == [hiwater |-> 0, capacity |-> FirstCapacity, l1 |-> <<>>]

propose_capacity(al) == (5 * al.capacity) \div 4

\* sm_oid_mgr: files 0 to 2 exist, and file 0 has an allocator.
Bootstrap ==
    [f \in 0..2 |-> IF f = 0 THEN [size |-> ensure_size(NewArray, FirstCapacity),
                                   al |-> [NewAllocator EXCEPT !.hiwater = FIRST_FREE_FID]]
                    ELSE [size |-> NewArray, al |-> NoAllocator]]

fill_cache(al, c) ==
    LET k == Min({FillTarget, Len(al.l1)})
        b == Min({FillTarget - k, al.capacity - al.hiwater})
    IN  [al |-> [al EXCEPT !.l1 = SubSeq(@, 1, Len(@) - k), !.hiwater = @ + b],
         c |-> c \o SubSeq(al.l1, Len(al.l1) - k + 1, Len(al.l1))
                 \o [i \in 1..b |-> al.hiwater + i - 1],
         full |-> k + b = FillTarget]

drain_cache(al, c) == [al EXCEPT !.l1 = @ \o c]
-----------------------------------------------------------------------------
(* The caches: operators from managers [files, caches] to managers.        *)

context_revoke_caches(m, t) ==
    [files |-> [f \in DOMAIN m.files |->
                   IF f \in DOMAIN m.caches[t]
                   THEN [m.files[f] EXCEPT !.al = drain_cache(@, m.caches[t][f])]
                   ELSE m.files[f]],
     caches |-> [m.caches EXCEPT ![t] = <<>>]]

\* The thread's cache for f exists afterwards.  A full map is emptied first,
\* which is not modelled together with destroyed files: for the empty entry
\* of one, get_allocator throws.
context_cache(m, t, f) ==
    LET n == IF /\ f \notin DOMAIN m.caches[t] /\ ~destroys
                /\ Cardinality(DOMAIN m.caches[t]) >= NENTRIES
             THEN context_revoke_caches(m, t) ELSE m
    IN  IF f \in DOMAIN n.caches[t] THEN n
        ELSE [n EXCEPT !.caches[t] = (f :> <<>>) @@ @]

\* Refill under the file's lock, raising the capacity when nothing is left.
Refill(m, t, f) ==
    LET one == fill_cache(m.files[f].al, m.caches[t][f])
        cbump == propose_capacity(one.al)
        two == fill_cache([one.al EXCEPT !.capacity = cbump], one.c)
    IN  IF one.full
        THEN [m EXCEPT !.files[f].al = one.al, !.caches[t][f] = one.c]
        ELSE [m EXCEPT !.files[f].al = two.al, !.caches[t][f] = two.c,
                       !.files[f].size = ensure_size(@, cbump)]

\* context_allocate: the manager afterwards, and the OID.
context_allocate(m, t, f) ==
    LET n == context_cache(m, t, f)
        r == IF n.caches[t][f] = <<>> THEN Refill(n, t, f) ELSE n
    IN  [m |-> [r EXCEPT !.caches[t][f] = Front(@)], oid |-> Last(r.caches[t][f])]

context_free(m, t, f, o) ==
    LET n == context_cache(m, t, f) IN [n EXCEPT !.caches[t][f] = Append(@, o)]

\* alloc_oid does not hand out OID 0.
alloc_oid(m, t, f) ==
    LET a == context_allocate(m, t, f)
    IN  IF a.oid = 0 THEN context_allocate(a.m, t, f) ELSE a

create_file(m, t, needs_alloc) ==
    LET a == context_allocate(m, t, 0)
        size == IF needs_alloc THEN ensure_size(NewArray, FirstCapacity) ELSE NewArray
    IN  [m |-> [a.m EXCEPT !.files = (a.oid :> [size |-> size,
                                        al |-> IF needs_alloc THEN NewAllocator ELSE NoAllocator]) @@ @],
         oid |-> a.oid]


\* Every thread's cache of f is emptied, not removed; then the array and the
\* allocator go, and the FID is free again.
destroy_file(m, t, f) ==
    context_free([files |-> [g \in DOMAIN m.files \ {f} |-> m.files[g]],
                  caches |-> [u \in Thread |-> [g \in DOMAIN m.caches[u] |->
                                 IF g = f THEN <<>> ELSE m.caches[u][g]]]], t, 0, f)

Manager == [files |-> files, caches |-> caches]

Becomes(m) == files' = m.files /\ caches' = m.caches

\* Bound: the next FID or OID stays below the bounds.
Room(f) == files[f].al.capacity <= MaxCapacity
-----------------------------------------------------------------------------
(* The catalogue.                                                          *)

\* The names of the trees of an index.
Name(i) == <<i>>
PartName(i, p) == <<i, p>>

IsTableReadOnly(i) == i = "item"

Separate(i) == SeparateTrees /\ ~IsTableReadOnly(i)

Partitions == 0..(Min({NumWarehouses, worker_threads}) - 1)

\* The engine calls of one RegisterIndex: per partition, if trees are separate.
RegisterIndex(r) ==
    LET made(name) == (IF r[3] THEN <<[op |-> "table", table |-> r[1], index |-> name]>> ELSE <<>>)
                      \o <<[op |-> "index", table |-> r[1], index |-> name, primary |-> r[3]]>>
        name(p) == IF NumWarehouses <= worker_threads THEN Name(r[2]) ELSE PartName(r[2], p)
    IN  IF ~Separate(r[2]) THEN made(Name(r[2]))
        ELSE FlattenSeq([p \in 1..Cardinality(Partitions) |-> made(name(p - 1))])

\* The tree of each warehouse, by name.  The last partition takes the rest.
OpenIndexes(i) ==
    [w \in 1..NumWarehouses |->
        IF ~Separate(i) THEN Name(i)
        ELSE IF NumWarehouses <= worker_threads THEN PartName(i, w - 1)
        ELSE PartName(i, Min({(w - 1) \div (NumWarehouses \div worker_threads),
                              worker_threads - 1}))]

Init ==
    /\ destroys \in BOOLEAN
    /\ files = Bootstrap /\ caches = [t \in Thread |-> <<>>] /\ live = {}
    /\ name_map = <<>> /\ fid_map = <<>> /\ index_map = <<>> /\ tables = <<>>
    /\ calls = IF destroys THEN <<>> ELSE FlattenSeq([i \in 1..Len(Registered) |->
                                                        RegisterIndex(Registered[i])])
    /\ opened = <<>> /\ ops = 0

\* Each RegisterIndex runs on a thread of the pool, the first one that is free.
Registrar == CHOOSE t \in Thread : TRUE

\* TableDescriptor::New and Initialize: a descriptor with two new files.
CreateTable ==
    /\ calls # <<>> /\ Head(calls).op = "table"
    /\ LET a == create_file(Manager, Registrar, TRUE)
           b == create_file(a.m, Registrar, TRUE)
           td == [tuple_fid |-> a.oid, aux_fid |-> b.oid, primary |-> <<>>, secondary |-> {}]
           n == Len(tables) + 1
       IN  /\ Becomes(b.m) /\ tables' = Append(tables, td)
           /\ name_map' = (Head(calls).table :> n) @@ name_map
           /\ fid_map' = (a.oid :> n) @@ fid_map
    /\ calls' = Tail(calls)
    /\ UNCHANGED <<live, index_map, opened, destroys, ops>>

\* OrderedIndex, then SetPrimaryIndex or AddSecondaryIndex.
CreateIndex ==
    /\ calls # <<>> /\ Head(calls).op = "index"
    /\ LET call == Head(calls)
           n == name_map[call.table]
           a == create_file(Manager, Registrar, TRUE)
       IN  /\ call.primary => tables[n].primary = <<>>
           /\ Becomes(a.m)
           /\ index_map' = (call.index :> [table |-> n, fid |-> a.oid, primary |-> call.primary])
                              @@ index_map
           /\ tables' = IF call.primary THEN [tables EXCEPT ![n].primary = call.index]
                        ELSE [tables EXCEPT ![n].secondary = @ \cup {call.index}]
    /\ calls' = Tail(calls)
    /\ UNCHANGED <<live, name_map, fid_map, opened, destroys, ops>>

\* prepare: every index is opened for every warehouse.
Prepare ==
    /\ ~destroys /\ calls = <<>> /\ opened = <<>>
    /\ opened' = [i \in {r[2] : r \in Range(Registered)} |-> OpenIndexes(i)]
    /\ UNCHANGED <<oids, maps, calls, destroys, ops>>
-----------------------------------------------------------------------------
Counted == ops < MaxOps /\ ops' = ops + 1

\* Records are inserted into the tables' tuple files; in the tests, anywhere.
Alloc(t, f) ==
    /\ calls = <<>> /\ f >= FIRST_FREE_FID /\ (destroys \/ f \in DOMAIN fid_map)
    /\ Cardinality(live) < MaxLive /\ Room(f)
    /\ LET a == alloc_oid(Manager, t, f)
       IN  Becomes(a.m) /\ live' = live \cup {<<f, a.oid>>}
    /\ Counted /\ UNCHANGED <<maps, calls, opened, destroys>>

Free(t, x) ==
    /\ Becomes(context_free(Manager, t, x[1], x[2])) /\ live' = live \ {x}
    /\ Counted /\ UNCHANGED <<maps, calls, opened, destroys>>

Create(t) ==
    /\ destroys /\ Cardinality(DOMAIN files) <= MaxFid
    /\ Becomes(create_file(Manager, t, TRUE).m)
    /\ Counted /\ UNCHANGED <<live, maps, calls, opened, destroys>>

Destroy(t, f) ==
    /\ destroys /\ f >= FIRST_FREE_FID
    /\ Becomes(destroy_file(Manager, t, f))
    /\ live' = {x \in live : x[1] # f}
    /\ Counted /\ UNCHANGED <<maps, calls, opened, destroys>>

\* ~sm_oid_mgr, which empties all caches, and a new manager.
Restart ==
    /\ destroys /\ live # {}
    /\ Becomes([files |-> Bootstrap,
                caches |-> [t \in Thread |-> [f \in DOMAIN caches[t] |-> <<>>]]])
    /\ live' = {}
    /\ Counted /\ UNCHANGED <<maps, calls, opened, destroys>>

Next ==
    \/ \E t \in Thread :
          \/ Create(t)
          \/ \E f \in DOMAIN files : Alloc(t, f) \/ Destroy(t, f)
          \/ \E x \in live : Free(t, x)
    \/ CreateTable \/ CreateIndex \/ Prepare \/ Restart

Spec == Init /\ [][Next]_vars
-----------------------------------------------------------------------------
(* Properties.                                                             *)

Cached(f) == {<<t, i>> \in Thread \X (1..MaxCapacity) :
                 f \in DOMAIN caches[t] /\ i \in DOMAIN caches[t][f]}

\* Whatever files are created, destroyed and created again under the same
\* FID, an OID of a file is in one place only: in use, in one slot of one
\* thread's cache or on the allocator's stack; and it lies below the current
\* allocator's high-water mark (context_allocate, destroy_file).
OidsHaveOnePlace ==
    \A f \in DOMAIN files : files[f].al # NoAllocator =>
        LET al == files[f].al
            used == IF f = 0 THEN DOMAIN files ELSE {x[2] : x \in {y \in live : y[1] = f}}
            slots == Cached(f)
            all == used \cup {caches[s[1]][f][s[2]] : s \in slots} \cup Range(al.l1)
        IN  /\ Cardinality(all) = Cardinality(used) + Cardinality(slots) + Len(al.l1)
            /\ \A o \in all : o < al.hiwater

\* An OID that is handed out has an entry in its file's array, also after the
\* capacity was raised and the FID reused: get() does not check its index.
EntriesExist ==
    \A f \in DOMAIN files : files[f].al # NoAllocator =>
        files[f].al.hiwater <= files[f].al.capacity
            /\ files[f].al.capacity <= nentries(files[f].size)

\* Tables and indexes share no file, each of their files exists, and the maps
\* lead back to them; with all trees opened, each warehouse of each index has
\* a tree that RegisterIndex made for that very table.
CatalogueAgrees ==
    LET fids == FlattenSeq([n \in DOMAIN tables |-> <<tables[n].tuple_fid, tables[n].aux_fid>>])
                \o [i \in 1..Cardinality(DOMAIN index_map) |->
                       index_map[SetToSeq(DOMAIN index_map)[i]].fid]
    IN  /\ IsInjective(fids) /\ Range(fids) \subseteq DOMAIN files \ 0..2
        /\ \A n \in DOMAIN tables : fid_map[tables[n].tuple_fid] = n
        /\ \A i \in DOMAIN index_map :
              LET td == tables[index_map[i].table]
              IN  IF index_map[i].primary THEN td.primary = i ELSE i \in td.secondary
        /\ \A i \in DOMAIN opened, w \in 1..NumWarehouses :
              /\ opened[i][w] \in DOMAIN index_map
              /\ \E r \in Range(Registered) :
                    r[2] = i /\ index_map[opened[i][w]].table = name_map[r[1]]

=============================================================================
