------------------------------ MODULE ColdStore ------------------------------
(***************************************************************************)
(* Cold records: OrderedIndex::InsertColdRecord leaves in the OID array,   *)
(* instead of a version, the address of the record in the log; a reader    *)
(* (sm_oid_mgr::oid_get_version, Object::LoadFromStorage) fetches it with  *)
(* an io_uring read of whole pages into its transaction's string arena.    *)
(* Cold records are only written while loading, and flush_all ends that    *)
(* phase.  All offsets and sizes are in alignment units (16 bytes).        *)
(***************************************************************************)
EXTENDS SizeCode, FiniteSets

CONSTANTS
    Context,        \* the contexts that run transactions, on one worker
    PageSize,       \* PAGE_SIZE, also sizeof(log_block): its header fills a page
    Sizes,          \* log record sizes, header included
    MaxRecords,     \* bound: records loaded
    MaxReads,       \* bound: cold reads of one transaction
    log_direct_io,  \* config::log_direct_io
    Header,         \* sizeof(dbtuple) + sizeof(Object)
    Str             \* the address of an arena, which is not page aligned

VARIABLES
    entry,          \* the OID array: [at, code] of each cold record
    recs,           \* history: [at, size], where si_commit put each record
    current_lsn,    \* end of the log
    file,           \* the size of the segment's file
    loading,        \* until flush_all
    rd,             \* what a context is doing
    ring,           \* tls_read_ring of each context: requests in flight or done
    n, regions      \* str_arena::n, and the regions handed out since reset

vars == <<entry, recs, current_lsn, file, loading, rd, ring, n, regions>>

align_up(x, a) == ((x + a - 1) \div a) * a

align_down(x, a) == (x \div a) * a

Idle == [pc |-> "idle", oid |-> 0, buf |-> 0, filled |-> <<0, 0>>, got |-> 0, reads |-> 0]

Init == /\ entry = <<>> /\ recs = <<>> /\ current_lsn = 0 /\ file = 0 /\ loading = TRUE
        /\ rd = [c \in Context |-> Idle] /\ ring = [c \in Context |-> <<>>]
        /\ n = [c \in Context |-> 0] /\ regions = [c \in Context |-> {}]

\* si_commit of a transaction that inserted one cold record: the block goes to
\* the log buffer and the OID entry is overwritten with the record's address.
si_commit(size) ==
    LET at == current_lsn + PageSize IN
    /\ loading /\ Len(recs) < MaxRecords
    /\ entry' = Append(entry, [at |-> at, code |-> encode_size_aligned(size, 1)])
    /\ recs' = Append(recs, [at |-> at, size |-> size])
    /\ current_lsn' = at + size
    /\ UNCHANGED <<file, loading, rd, ring, n, regions>>

align_up_flush_size(x) == IF log_direct_io THEN align_up(x, PageSize) ELSE x

\* A flush of the log buffer; done is TRUE for flush_all's last_flush.
flush(done) ==
    /\ loading /\ recs # <<>>
    /\ current_lsn' = align_up_flush_size(current_lsn) /\ file' = current_lsn'
    /\ loading' = ~done
    /\ UNCHANGED <<entry, recs, rd, ring, n, regions>>

\* str_arena: the offset each allocator returns and the new n.
next_raw(c, size) == [off |-> n[c], n |-> n[c] + size]

next_raw_aligned(c, size) ==
    LET off == align_up(Str + n[c], PageSize) - Str IN
    [off |-> off, n |-> n[c] + (off - n[c]) + align_up(size, PageSize)]

Allocate(c, r, size) ==
    /\ n' = [n EXCEPT ![c] = r.n]
    /\ regions' = [regions EXCEPT ![c] = @ \cup {<<r.off, r.off + size>>}]

\* What LoadFromStorage reads: whole pages around the record under direct I/O.
Window(o) ==
    LET at == entry[o].at
        data_sz == decode_size_aligned(entry[o].code, 1)
    IN IF log_direct_io
       THEN [offset |-> align_down(at, PageSize),
             size   |-> align_up((at % PageSize) + data_sz, PageSize)]
       ELSE [offset |-> at, size |-> data_sz]

\* thread_local tls_read_ring: every context has its own thread-local storage.
RingOf(c) == c

\* The beginning of LoadFromStorage, up to issue_read.  user_data is -1 in every
\* transaction, so it tells nobody apart.
issue_read(c, o) ==
    LET b == next_raw_aligned(c, Window(o).size) IN
    /\ Allocate(c, b, Window(o).size)
    /\ ring' = [ring EXCEPT ![RingOf(c)] =
                    Append(@, [by |-> c, user_data |-> -1, done |-> FALSE, res |-> 0])]
    /\ rd' = [rd EXCEPT ![c] = [Idle EXCEPT !.pc = "wait", !.oid = o, !.buf = b.off,
                                            !.reads = rd[c].reads + 1]]
    /\ UNCHANGED <<entry, recs, current_lsn, file, loading>>

\* A transaction reads an OID whose entry is a log address (ASI_LOG).
oid_get_version(c, o) ==
    /\ ~loading /\ rd[c].pc \in {"idle", "got"} /\ rd[c].reads < MaxReads
    /\ issue_read(c, o)

\* The bytes of the file a window really gets: it may reach past the end.
Filled(w) == <<w.offset, IF w.offset + w.size <= file THEN w.offset + w.size ELSE file>>

\* The kernel completes a request: the buffer of its issuer is filled.
IoComplete(r) ==
    /\ \E i \in DOMAIN ring[r] :
         LET q == ring[r][i]
             f == Filled(Window(rd[q.by].oid))
         IN /\ ~q.done /\ \A j \in 1..(i - 1) : ring[r][j].done
            /\ ring' = [ring EXCEPT ![r][i].done = TRUE, ![r][i].res = f[2] - f[1]]
            /\ rd' = [rd EXCEPT ![q.by].filled = f]
    /\ UNCHANGED <<entry, recs, current_lsn, file, loading, n, regions>>

\* peek_only, called until it returns true: takes the completion at the head of
\* the ring, which must be of the expected size.
peek_only(c) ==
    LET r == RingOf(c) IN
    /\ rd[c].pc = "wait" /\ ring[r] # <<>> /\ Head(ring[r]).done
    /\ Head(ring[r]).user_data = -1
    /\ IF Head(ring[r]).res = Window(rd[c].oid).size
       THEN rd' = [rd EXCEPT ![c].pc = "copy"] /\ ring' = [ring EXCEPT ![r] = Tail(@)]
       ELSE rd' = [rd EXCEPT ![c].pc = "failed"] /\ UNCHANGED ring
    /\ UNCHANGED <<entry, recs, current_lsn, file, loading, n, regions>>

\* The log record found at logical offset at in the bytes a buffer holds.
RecordAt(at, filled) ==
    IF \E o \in DOMAIN recs : recs[o].at = at /\ filled[1] <= at /\ at + recs[o].size <= filled[2]
    THEN CHOOSE o \in DOMAIN recs : recs[o].at = at ELSE 0


\* buffer[offset_in_seg - offset], as a logical offset.
logrec(c) == LET w == Window(rd[c].oid) IN w.offset + (entry[rd[c].oid].at - w.offset)

\* The rest of LoadFromStorage: an object from the arena, and the tuple copied.
LoadFromStorage(c) ==
    LET data_sz == decode_size_aligned(entry[rd[c].oid].code, 1)
        size == Header + data_sz
    IN /\ rd[c].pc = "copy"
       /\ Allocate(c, next_raw(c, size), size)
       /\ rd' = [rd EXCEPT ![c].pc = "got", ![c].got = RecordAt(logrec(c), rd[c].filled)]
       /\ UNCHANGED <<entry, recs, current_lsn, file, loading, ring>>

\* The end of the transaction: scoped_str_arena resets the arena.
reset(c) ==
    /\ rd[c].pc = "got"
    /\ rd' = [rd EXCEPT ![c] = Idle]
    /\ n' = [n EXCEPT ![c] = 0] /\ regions' = [regions EXCEPT ![c] = {}]
    /\ UNCHANGED <<entry, recs, current_lsn, file, loading, ring>>

Next == \/ \E s \in Sizes : si_commit(s)
        \/ \E done \in BOOLEAN : flush(done)
        \/ \E c \in Context :
             \/ \E o \in DOMAIN recs : oid_get_version(c, o)
             \/ IoComplete(c) \/ peek_only(c) \/ LoadFromStorage(c) \/ reset(c)

Spec == Init /\ [][Next]_vars

-----------------------------------------------------------------------------

\* A cold read returns the record that was inserted: the completion a context
\* consumes (dlog.cpp, peek_only) is that of its own request, the pages it
\* reads hold the whole record, and si_commit's address is the record's.
ColdReadsReturnRecord == \A c \in Context : rd[c].pc = "got" => rd[c].got = rd[c].oid

\* peek_only's assertion that a read brought as many bytes as were asked for.
ReadsAreFull == \A c \in Context : rd[c].pc # "failed"

\* str_arena hands out no byte twice in one transaction (its read buffers, and
\* the tuples whose values the transaction still uses), and the buffer of a
\* read is page aligned, which O_DIRECT needs.
ArenaRegionsDisjoint ==
    \A c \in Context :
        /\ \A a, b \in regions[c] : a = b \/ a[2] <= b[1] \/ b[2] <= a[1]
        /\ \A a \in regions[c] : a[2] <= n[c]
        /\ rd[c].pc # "idle" => (Str + rd[c].buf) % PageSize = 0

=============================================================================
