---------------------------- MODULE MCServices ------------------------------
(***************************************************************************)
(* The services below the transactions, one at a time: epochs, garbage     *)
(* collection, transaction IDs, OIDs, the catalogue, memory, the index,    *)
(* records and sizes, cold storage and the hash set.  They share no state  *)
(* here; what they need of each other is in their modules.                 *)
(***************************************************************************)
EXTENDS Integers, Sequences

CONSTANTS Parts,   \* the parts to look at
          Plans      \* what the threads do with the index

(* Small trees: leaves of three entries and internodes of two keys, and a few *)
(* plans of concurrent calls, each after a load that leaves full leaves and a  *)
(* full internode.                                                             *)

MCBase == [t \in {"p1"} |-> "t1"]

Get(k) == [op |-> "get", key |-> k]
Ins(k) == [op |-> "insert", key |-> k]
FromTo(a, b, rev, iter) == [op |-> "scan", lo |-> a, hi |-> b, rev |-> rev, iter |-> iter]
Load(n) == [j \in 1..n |-> [op |-> "load", key |-> <<10 * j>>]]
Together(a, b, d, p) ==
    [t \in {"t1", "t2", "t3", "p1"} |->
        CASE t = "t1" -> a [] t = "t2" -> b [] t = "t3" -> d [] t = "p1" -> p]
Plan(n, a, b, d, p) ==
    Together(Load(n) \o <<[op |-> "load", key |-> <<30, 1, 1>>]>> \o a, b, d, p)

\* The entry of key 10 belongs to an insert that was aborted.
MCDead == {<<<<10>>, "t1">>}

TreePlan ==
    \* leaves and internodes split, by two threads and under a lookup
    {Plan(9, <<Ins(<<15>>)>>, <<Ins(x)>>, <<Get(x)>>, <<>>) : x \in {<<15>>, <<95>>}}
    \* a key becomes a layer, two threads deep
    \cup {Plan(4, <<Ins(<<30, 1, 2>>)>>, <<Ins(<<30, 2>>)>>, <<Get(k)>>, <<>>) :
        k \in {<<30, 1, 1>>, <<30, 2>>}}
    \* the key of an aborted insert is taken over, once
    \cup {Plan(4, <<Ins(<<10>>)>>, <<Ins(<<10>>)>>, <<Get(<<10>>)>>, <<>>)}
    \* scans against inserts that split their leaves
    \cup {Plan(5, <<Ins(x), Ins(<<25>>)>>, <<r>>, <<>>, <<>>) :
        x \in {<<15>>, <<60>>},
        r \in {FromTo(<<12>>, <<30, 1, 5>>, FALSE, FALSE), FromTo(<<70>>, <<12>>, TRUE, FALSE)}}
    \* scans against inserts in their layer
    \cup {Plan(5, <<Ins(<<30, 1, 2>>), Ins(<<25>>)>>, <<r>>, <<>>, <<>>) :
        r \in {FromTo(<<30, 1>>, <<>>, FALSE, TRUE), FromTo(<<30, 1, 1>>, <<>>, TRUE, TRUE)}}
    \* calls of a preemptive context within those of its main context
    \cup {Plan(5, <<a>>, <<Ins(<<25>>)>>, <<>>, <<Ins(<<x>>)>>) :
        a \in {Ins(<<15>>), Get(<<15>>)}, x \in {15, 28}}

\* A scan of a range that has no key yet, and the insert of one.
RangePlan ==
    {Together(Load(4) \o <<Ins(<<15>>)>>, <<FromTo(<<12>>, <<18>>, FALSE, FALSE)>>, <<>>, <<>>)}

MCTypes == <<"u32", "i32", "fixed">>
MCValues == <<{0, 4, 511}, {-256, 7}, {<<1, 7>>, <<5, 0>>}>>

MCRegistered == <<<<"oorder", "oorder", TRUE>>, <<"oorder", "oorder_c_id_idx", FALSE>>,
                  <<"item", "item", TRUE>>>>

AllParts == {"epoch", "gc", "xid", "oid", "catalog", "memory", "permuter", "tree",
             "record", "size", "cold", "hash"}

VARIABLES part,   \* the part that runs; the others are absent
          v1, v2, v3, v4, v5, v6, v7, v8, v9, v10, v11, v12, v13, v14, v15, v16, v17   \* its variables

Ep == INSTANCE Epoch WITH
    Thread <- {"t1", "t2"}, MaxEpoch <- 4, begin <- v1, end <- v2, ready <- v3,
    nstragglers <- v4, cooling <- v5, cold <- v6, contexts <- v7, mutex <- v8, cls <- v9,
    pc <- v10, tmp <- v11, ret <- v12, todo <- v13, looked <- v14, found <- v15,
    reclaimed <- v16

Gc == INSTANCE GcEpoch WITH
    Thread <- {"t1", "t2"}, MaxEpoch <- 6, MaxCsn <- 5, current <- v1, inside <- v2,
    dead <- v3, csn <- v4, begin <- v5, e <- v6, stop <- v7, pc <- v8,
    epoch_excl_begin_lsn <- v9, epoch_reclaim_lsn <- v10, gc_lsn <- v11, gc_epoch <- v12

Xi == INSTANCE Xid WITH
    Thread <- {"t1", "t2"}, Bases <- {[t \in {"t2"} |-> "t1"], [t \in {} |-> "t1"]},
    NWORDS <- 1, BITS <- 2, MaxEpoch <- 5, current <- v1, inside <- v2, dead <- v3, data <- v4,
    widx <- v5, owner <- v6, cache <- v7, pc <- v8, e <- v9, i <- v10, w <- v11, live <- v12,
    mutex <- v13, base <- v14, paused <- v15, issued <- v16, twice <- v17

Oa == INSTANCE OidAlloc WITH
    Thread <- {"t1"}, GAMUT <- 2, CAPACITY <- 2, L1_CAPACITY <- 4, L2_CAPACITY <- 4,
    FILL_TARGET <- 1, N <- 3, FirstCapacity <- 5, MaxCapacity <- 6, a <- v1, cache <- v2,
    live <- v3, gone <- v4

Ca == INSTANCE Catalog WITH
    Thread <- {"t1", "t2"}, NENTRIES <- 2, FillTarget <- 2, FirstCapacity <- 4,
    MaxCapacity <- 6, Page <- 2, FirstPages <- 1, SlackPages <- 0, Registered <- MCRegistered,
    NumWarehouses <- 2, worker_threads <- 1, SeparateTrees <- TRUE, MaxFid <- 5, MaxLive <- 3,
    MaxOps <- 7, files <- v1, caches <- v2, live <- v3, name_map <- v4, fid_map <- v5,
    index_map <- v6, tables <- v7, calls <- v8, opened <- v9, destroys <- v10, ops <- v11

Nm == INSTANCE NodeMemory WITH
    Thread <- {"t1", "t2"}, Node <- {"n1"}, Sizes <- {1, 2}, ChunkSize <- 4, NodeSize <- 8,
    used <- v1, chunk <- v2, bumped <- v3, pending <- v4, failed <- v5, objects <- v6

Kp == INSTANCE KPermuter WITH
    W <- 4, D <- 8, x <- v1

Mt == INSTANCE MasstreeScan WITH
    Thread <- {"t1", "t2", "t3", "p1"}, Base <- MCBase, Plans <- Plans, Dead <- MCDead,
    Big <- 1000, W <- 3, IW <- 2, MaxNode <- 12, node <- v1, used <- v2, root <- v3, pc <- v4,
    c <- v5, plock <- v6, active <- v7, map <- v8, legal <- v9, miss <- v10, todo <- v11,
    s <- v12

Re == INSTANCE Record WITH
    Half <- 4, Top <- 2, Types <- MCTypes, Values <- MCValues, rec <- v1, mem <- v2, w <- v3,
    r <- v4

Sz == INSTANCE SizeWalk WITH
    Dense <- 300, sz <- v1

Cs == INSTANCE ColdStore WITH
    Context <- {"main", "preemptive"}, PageSize <- 16, Sizes <- {7, 44}, MaxRecords <- 3,
    MaxReads <- 2, log_direct_io <- TRUE, Header <- 3, Str <- 5, entry <- v1, recs <- v2,
    current_lsn <- v3, file <- v4, loading <- v5, rd <- v6, ring <- v7, n <- v8, regions <- v9

Ha == INSTANCE ScHash WITH
    N <- 4, K <- 2, M <- 1, W_BITS <- 2, MaxElem <- 4, hash <- v1, slot <- v2, set <- v3,
    pos <- v4, due <- v5, seen <- v6

Unused16 == v17 = 0
Same16 == UNCHANGED <<v17>>
Unused12 == v13 = 0 /\ v14 = 0 /\ v15 = 0 /\ v16 = 0 /\ Unused16
Same12 == UNCHANGED <<v13, v14, v15, v16>> /\ Same16
Unused11 == v12 = 0 /\ Unused12
Same11 == UNCHANGED <<v12>> /\ Same12
Unused9 == v10 = 0 /\ v11 = 0 /\ Unused11
Same9 == UNCHANGED <<v10, v11>> /\ Same11
Unused6 == v7 = 0 /\ v8 = 0 /\ v9 = 0 /\ Unused9
Same6 == UNCHANGED <<v7, v8, v9>> /\ Same9
Unused4 == v5 = 0 /\ v6 = 0 /\ Unused6
Same4 == UNCHANGED <<v5, v6>> /\ Same6
Unused1 == v2 = 0 /\ v3 = 0 /\ v4 = 0 /\ Unused4
Same1 == UNCHANGED <<v2, v3, v4>> /\ Same4

all == <<part, v1, v2, v3, v4, v5, v6, v7, v8, v9, v10, v11, v12, v13, v14, v15, v16,
        v17>>

Init ==
    /\ part \in Parts
    /\ \/ part = "epoch" /\ Ep!Init /\ Unused16
       \/ part = "gc" /\ Gc!Init /\ Unused12
       \/ part = "xid" /\ Xi!Init
       \/ part = "oid" /\ Oa!Init /\ Unused4
       \/ part = "catalog" /\ Ca!Init /\ Unused11
       \/ part = "memory" /\ Nm!Init /\ Unused6
       \/ part = "permuter" /\ Kp!Init /\ Unused1
       \/ part = "tree" /\ Mt!SInit /\ Unused12
       \/ part = "record" /\ Re!Init /\ Unused4
       \/ part = "size" /\ Sz!Init /\ Unused1
       \/ part = "cold" /\ Cs!Init /\ Unused9
       \/ part = "hash" /\ Ha!Init /\ Unused6

Next ==
    \/ part = "epoch" /\ Ep!Next /\ Same16 /\ UNCHANGED part
    \/ part = "gc" /\ Gc!Next /\ Same12 /\ UNCHANGED part
    \/ part = "xid" /\ Xi!Next /\ UNCHANGED part
    \/ part = "oid" /\ Oa!Next /\ Same4 /\ UNCHANGED part
    \/ part = "catalog" /\ Ca!Next /\ Same11 /\ UNCHANGED part
    \/ part = "memory" /\ Nm!Next /\ Same6 /\ UNCHANGED part
    \/ part = "permuter" /\ Kp!Next /\ Same1 /\ UNCHANGED part
    \/ part = "tree" /\ Mt!SNext /\ Same12 /\ UNCHANGED part
    \/ part = "record" /\ Re!Next /\ Same4 /\ UNCHANGED part
    \/ part = "size" /\ Sz!Next /\ Same1 /\ UNCHANGED part
    \/ part = "cold" /\ Cs!Next /\ Same9 /\ UNCHANGED part
    \/ part = "hash" /\ Ha!Next /\ Same6 /\ UNCHANGED part
    \/ part \in {"epoch", "gc", "xid", "oid", "catalog", "memory", "size", "cold"} /\ UNCHANGED all   \* their bounds are reached

Spec == Init /\ [][Next]_all
-----------------------------------------------------------------------------
\* The epoch manager, stores and loads of its contexts interleaved, keeps the
\* promises of EpochContract: above all, an epoch is reclaimed only when no
\* thread is left in it.
ImplementsContract ==
    /\ part = "epoch" => Ep!Contract!Init
    /\ [][part = "epoch" => Ep!Contract!Next \/ UNCHANGED Ep!Contract!vars]_all

\* An epoch that is closing will be closed: somebody is on its way to
\* global_quiesce, or nstragglers contexts carry the flag that takes the last of
\* them there (new_epoch, straggler_ended; context_enter retries when flagged).
\* Epochs are reclaimed one by one and in order while no thread has deregistered.
EpochsAreAccounted == part = "epoch" => Ep!EpochsAreAccounted

\* The collector's horizon is never above the begin stamp of a running
\* transaction, though stragglers store their stamps under old epochs, and a
\* version of the collectable epoch has no reader left (epoch_exit,
\* epoch_reclaimed; "it could also be set by somebody else ... so we're fine").
GcIsSafe == part = "gc" => Gc!GcIsSafe

\* "Request a new XID and an associated context. The former is globally unique
\* and the latter is distinct from any other transaction whose lifetime
\* overlaps with this one" (xid.h); xid_get_context finds the context of an XID
\* only while the XID owns it, although it accepts the owners of three epochs.
XidsAreExclusive == part = "xid" => Xi!XidsAreExclusive



\* No two objects share memory, and each lies inside the memory of its node
\* (the bump in allocate, the atomic add in allocate_onnode).
ObjectsAreDisjoint == part = "memory" => Nm!ObjectsAreDisjoint

\* A lookup returns what the index held for its key at some moment of the call:
\* it never misses a key because of a concurrent split or a new layer, and never
\* returns the OID of another key (masstree_get.hh: find_unlocked).
GetsAreLinearizable == part = "tree" => Mt!GetsAreLinearizable

\* Whenever no node is locked, walking the leaves gives each key of the map
\* exactly once and with its OID.  A main context is never preempted while it
\* holds a node lock, for which the preemptive context of its core would spin
\* for ever (pcontext::lock in insert_if_absent).  A failed lookup hands out a
\* leaf and a version that changes before the key is in the index.
TreeIsSound == part = "tree" => Mt!TreeIsSound

\* The weakly consistent guarantee of search_range_call (masstree_btree.h): all
\* keys of the range that exist when the scan starts are found, in order and
\* once.  When another one appears later, a leaf that on_resp_node has reported
\* has a new version, so the commit finds the phantom.
ScansAreSound == part = "tree" => Mt!ScansAreSound

\* The encodings do what their sequences, bytes and numbers say: a permutation
\* word lists each slot once after any operations (kpermuter.hh); a record
\* overwritten in place decodes to what was written and keys compare as bytes
\* the way their values compare (record cursors, host_endian_trfm); a size is
\* rounded up to the next representable one (size-encode.h).
EncodingsAreExact ==
    /\ part = "permuter" => Kp!WordIsPermutation
    /\ part = "record" => Re!RecordsDecode
    /\ part = "size" => Sz!SizesRoundUp


\* Wherever insertions have moved elements to, and whatever was erased on the
\* way, _find finds exactly the elements of the set, each in the only slot that
\* holds it, and an iteration visits every element once: "erasing the current
\* element does not change which element will be visited next".
SetIsSound == part = "hash" => Ha!SetIsSound

\* A scan never hands out a key at or past its boundary.
ScansStayInRange == part = "tree" => Mt!ScansStayInRange
=============================================================================
