-------------------------------- MODULE Log --------------------------------
(***************************************************************************)
(* The decentralised log and pipelined commit: dbcore/dlog.cpp,            *)
(* dbcore/pcommit.cpp and the part of transaction::commit that uses them.  *)
(*                                                                         *)
(* Every thread owns one log (a thread_local tls_log): two log buffers of  *)
(* which one is active, the segment files, at most one outstanding write,  *)
(* a "durable CSN" with a dirty bit that all threads read, and a ring of   *)
(* committed transactions waiting to be acknowledged.  Any thread may      *)
(* flush any log and acknowledge from any ring.  The device completes      *)
(* writes asynchronously.  Once the loading threads are done, the main     *)
(* thread flushes and drains everything (bench.cc).                        *)
(*                                                                         *)
(* The configuration is the default one: pcommit on, no commit daemon, a   *)
(* real log device.  A log block is BlockSize units long.                  *)
(***************************************************************************)
EXTENDS Integers, Sequences, FiniteSets

CONSTANTS Logs,         \* number of logs, and of committing threads
          LogbufSize,   \* config::log_buffer_mb
          SegmentSize,  \* config::log_segment_mb
          PageSize,     \* PAGE_SIZE with direct I/O, 1 without
          BlockSize,    \* size of a transaction's log block
          QueueLength,  \* config::pcommit_queue_length
          MaxRetries,   \* 10 in enqueue_committed_xct
          MaxTxns       \* bound: transactions per thread

\* What the sizes are assumed to satisfy.
LogAssumption ==
    /\ Logs \in Nat \ {0} /\ PageSize \in Nat \ {0} /\ BlockSize \in Nat \ {0}
    /\ LogbufSize \in Nat /\ LogbufSize % PageSize = 0 /\ BlockSize <= LogbufSize
    /\ SegmentSize \in Nat /\ SegmentSize % PageSize = 0 /\ LogbufSize <= SegmentSize
    /\ QueueLength \in Nat \ {0} /\ MaxRetries \in Nat /\ MaxTxns \in Nat

Log == 0 .. Logs - 1
main == Logs
Thread == Log \cup {main}
Nobody == -1

\* No outstanding I/O: tls_log::flushing is false.
NoIO == [blocks |-> <<>>, seg |-> 0, off |-> 0, size |-> 0, done |-> FALSE]

VARIABLES
    current_csn,      \* dlog::current_csn
    tlog,             \* the tls_logs: buffers, segments, the I/O in flight, the files
    tls_durable_csn,  \* pcommit::_tls_durable_csn: [csn, dirty]
    cq,               \* the commit queues
    enqueued,         \* history: the CSNs pushed to each queue, in order
    acked,            \* history: the CSNs dequeued from each queue, in order
    populated,        \* CSNs whose log block has been filled in
    lock, tlog_lock,  \* tls_log::lock and ermia::tlog_lock
    th                \* what the threads are doing

vars == <<current_csn, tlog, tls_durable_csn, cq, enqueued, acked, populated,
          lock, tlog_lock, th>>

Segment(start) == [start_offset |-> start, size |-> 0, expected_size |-> 0]

Init ==
    /\ current_csn = 0
    /\ tlog = [l \in Log |->
                [active |-> 0, buf |-> [b \in 0..1 |-> <<>>],
                 last_csns |-> [b \in 0..1 |-> 0],
                 segments |-> <<Segment(0)>>, current_lsn |-> 0,
                 io |-> NoIO, disk |-> {}]]
    /\ tls_durable_csn = [l \in Log |-> [csn |-> 0, dirty |-> FALSE]]
    /\ cq = [l \in Log |-> [queue |-> [k \in 0 .. QueueLength - 1 |-> 0],
                            start |-> 0, items |-> 0, length |-> QueueLength]]
    /\ enqueued = [l \in Log |-> <<>>]
    /\ acked = [l \in Log |-> <<>>]
    /\ populated = {}
    /\ lock = [l \in Log |-> Nobody]
    /\ tlog_lock = Nobody
    /\ th = [s \in Thread |->
                [pc |-> IF s = main THEN "m_wait" ELSE "idle", txns |-> 0, csn |-> 0,
                 flush |-> FALSE, insert |-> TRUE, count |-> 0, i |-> 0,
                 j |-> 0, k |-> 0, min_dirty |-> Nobody, max_clean |-> 0, ret |-> "idle"]]

At(s, label) == th[s].pc = label

-----------------------------------------------------------------------------
(***************************************************************************)
(* Operations of a tls_log, as functions from its old to its new state.    *)
(* They run under tls_log::lock.                                           *)
(***************************************************************************)
logbuf_offset(t) == BlockSize * Len(t.buf[t.active])

align_up_flush_size(n) == ((n + PageSize - 1) \div PageSize) * PageSize

current_segment(t) == Len(t.segments)

flushing(t) == t.io # NoIO

\* issue_flush of the active buffer followed by switch_log_buffers.  The write
\* goes to the offset at which the segment is known to end.
issue_flush(t) ==
    LET n   == align_up_flush_size(logbuf_offset(t))
        seg == current_segment(t)
    IN  [t EXCEPT !.io = [blocks |-> t.buf[t.active], seg |-> seg,
                          off |-> t.segments[seg].size, size |-> n, done |-> FALSE],
                  !.segments[seg].expected_size = @ + n,
                  !.current_lsn = @ + (n - logbuf_offset(t)),
                  !.active = 1 - @,
                  !.buf[1 - t.active] = <<>>]

\* What poll_flush changes in the log once the write has completed.
reap(t) == [t EXCEPT !.segments[current_segment(t)].size = @ + t.io.size, !.io = NoIO]

\* Mutants: the active buffer's CSN, or the log's latest one.
last_csn_active(t) == t.last_csns[t.active]

latest_csn(t) ==
    IF t.last_csns[0] > t.last_csns[1] THEN t.last_csns[0] ELSE t.last_csns[1]

\* The CSN poll_flush publishes: the last one of the buffer that is not active.
last_tls_durable_csn(t) == t.last_csns[1 - t.active]

\* Mutant: what is in the buffer is not counted.
new_segment_late(t) ==
    BlockSize + t.segments[current_segment(t)].expected_size > SegmentSize

create_new_segment(t) ==
    BlockSize + logbuf_offset(t) + t.segments[current_segment(t)].expected_size > SegmentSize

\* allocate_log_block has to flush the active buffer first.
must_flush(t) ==
    /\ \/ BlockSize + logbuf_offset(t) > LogbufSize
       \/ create_new_segment(t)
    /\ logbuf_offset(t) > 0

create_segment(t) == [t EXCEPT !.segments = Append(@, Segment(t.current_lsn))]

place_block(t, csn) ==
    [t EXCEPT !.buf[t.active] = Append(@, [csn |-> csn, lsn |-> t.current_lsn,
                                           seg |-> current_segment(t)]),
              !.current_lsn = @ + BlockSize,
              !.last_csns[t.active] = csn]

\* allocate_log_block after the previous write, if in the way, has been polled.
allocate_log_block(t, csn) ==
    LET flushed == IF must_flush(t) THEN issue_flush(t) ELSE t
        placed  == IF create_new_segment(t) THEN create_segment(flushed) ELSE flushed
    IN  place_block(placed, csn)

-----------------------------------------------------------------------------
(***************************************************************************)
(* The device (io_uring and the file system): the write of a buffer takes  *)
(* effect, with what the buffer holds at that moment, and completes.       *)
(***************************************************************************)
Device(l) ==
    LET io == tlog[l].io
    IN  /\ flushing(tlog[l]) /\ ~io.done
        /\ tlog' = [tlog EXCEPT
              ![l].io.done = TRUE,
              ![l].disk = @ \cup {[csn   |-> io.blocks[b].csn,
                                   seg   |-> io.seg,
                                   off   |-> io.off + BlockSize * (b - 1),
                                   whole |-> io.blocks[b].csn \in populated,
                                   \* the address the records were given
                                   asseg |-> io.blocks[b].seg,
                                   lsn   |-> io.blocks[b].lsn] : b \in 1 .. Len(io.blocks)}]
        /\ UNCHANGED <<current_csn, tls_durable_csn, cq, enqueued, acked, populated,
                       lock, tlog_lock, th>>

-----------------------------------------------------------------------------
(***************************************************************************)
(* si_commit: take a CSN, allocate the log block, fill it in.              *)
(***************************************************************************)
\* A transaction with writes takes its commit sequence number.
c_write(s) ==
    /\ At(s, "idle") /\ th[s].txns < MaxTxns
    /\ current_csn' = current_csn + 1
    /\ th' = [th EXCEPT ![s].pc = "a_lock", ![s].txns = @ + 1, ![s].csn = current_csn]
    /\ UNCHANGED <<tlog, tls_durable_csn, cq, enqueued, acked, populated, lock, tlog_lock>>

\* A read-only transaction goes through the queue with the CSN before its begin.
c_read(s) ==
    /\ At(s, "idle") /\ th[s].txns < MaxTxns
    /\ th' = [th EXCEPT ![s].pc = "e_push", ![s].txns = @ + 1,
                        ![s].csn = IF current_csn = 0 THEN 0 ELSE current_csn - 1,
                        ![s].flush = FALSE, ![s].insert = TRUE, ![s].count = 0]
    /\ UNCHANGED <<current_csn, tlog, tls_durable_csn, cq, enqueued, acked, populated,
                   lock, tlog_lock>>

\* The loading thread has no more transactions.
c_stop(s) ==
    /\ s \in Log /\ At(s, "idle")
    /\ th' = [th EXCEPT ![s].pc = "done"]
    /\ UNCHANGED <<current_csn, tlog, tls_durable_csn, cq, enqueued, acked, populated,
                   lock, tlog_lock>>

\* allocate_log_block: lock the log and set the dirty flag.
a_lock(s) ==
    /\ At(s, "a_lock") /\ lock[s] = Nobody
    /\ lock' = [lock EXCEPT ![s] = s]
    /\ tls_durable_csn' = [tls_durable_csn EXCEPT ![s].dirty = TRUE]
    /\ th' = [th EXCEPT ![s].pc = IF must_flush(tlog[s]) /\ flushing(tlog[s])
                                  THEN "a_poll" ELSE "a_alloc"]
    /\ UNCHANGED <<current_csn, tlog, cq, enqueued, acked, populated, tlog_lock>>

a_alloc(s) ==
    /\ At(s, "a_alloc")
    /\ tlog' = [tlog EXCEPT ![s] = allocate_log_block(@, th[s].csn)]
    /\ lock' = [lock EXCEPT ![s] = Nobody]
    /\ th' = [th EXCEPT ![s].pc = "a_fill"]
    /\ UNCHANGED <<current_csn, tls_durable_csn, cq, enqueued, acked, populated, tlog_lock>>

\* The write set's records are laid out in the block, which is already in the
\* log buffer; the transaction is committed and its context released.
a_fill(s) ==
    /\ At(s, "a_fill")
    /\ populated' = populated \cup {th[s].csn}
    /\ th' = [th EXCEPT ![s].pc = "e_push", ![s].flush = FALSE, ![s].insert = TRUE,
                        ![s].count = 0]
    /\ UNCHANGED <<current_csn, tlog, tls_durable_csn, cq, enqueued, acked, lock, tlog_lock>>

-----------------------------------------------------------------------------
(***************************************************************************)
(* poll_flush, called with the log's lock held from allocate_log_block,    *)
(* enqueue_flush and last_flush, and followed by an acknowledgement round. *)
(***************************************************************************)
polled(s) == IF th[s].pc = "a_poll" THEN s ELSE th[s].i

after_poll(label) ==
    [a_poll |-> "a_alloc", f_poll |-> "f_issue", l_poll |-> "l_next"][label]

poll_flush(s) ==
    /\ th[s].pc \in {"a_poll", "f_poll", "l_poll"}
    /\ tlog[polled(s)].io.done
    /\ tlog' = [tlog EXCEPT ![polled(s)] = reap(@)]
    /\ tls_durable_csn' = [tls_durable_csn EXCEPT
            ![polled(s)] = [csn   |-> last_tls_durable_csn(tlog[polled(s)]),
                            dirty |-> FALSE]]
    /\ th' = [th EXCEPT ![s].pc = "d_lock", ![s].ret = after_poll(th[s].pc)]
    /\ UNCHANGED <<current_csn, cq, enqueued, acked, populated, lock, tlog_lock>>

-----------------------------------------------------------------------------
(***************************************************************************)
(* dlog::dequeue_committed_xcts: for every queue compute the global        *)
(* durable CSN, reading one thread's durable CSN at a time, and            *)
(* acknowledge the entries up to it.                                       *)
(***************************************************************************)
d_lock(s) ==
    /\ At(s, "d_lock") /\ tlog_lock = Nobody
    /\ tlog_lock' = s
    /\ th' = [th EXCEPT ![s].pc = "d_scan", ![s].j = 0, ![s].k = 0,
                        ![s].min_dirty = Nobody, ![s].max_clean = 0]
    /\ UNCHANGED <<current_csn, tlog, tls_durable_csn, cq, enqueued, acked, populated, lock>>

d_scan(s) ==
    LET d == tls_durable_csn[th[s].k]
    IN  /\ At(s, "d_scan")
        /\ th' = [th EXCEPT
              ![s].min_dirty = IF d.dirty /\ (@ = Nobody \/ d.csn < @) THEN d.csn ELSE @,
              ![s].max_clean = IF ~d.dirty /\ d.csn > @ THEN d.csn ELSE @,
              ![s].k = @ + 1,
              ![s].pc = IF th[s].k + 1 = Logs THEN "d_take" ELSE "d_scan"]
        /\ UNCHANGED <<current_csn, tlog, tls_durable_csn, cq, enqueued, acked, populated,
                       lock, tlog_lock>>

\* get_global_durable_csn's result.
global_durable_csn(s) ==
    IF th[s].min_dirty # Nobody THEN th[s].min_dirty ELSE th[s].max_clean

entry(q, n) == q.queue[(q.start + n) % q.length]

\* How many entries at the front of queue q are covered by the CSN upto.
covered(q, upto) ==
    CHOOSE n \in 0 .. q.items :
        /\ \A m \in 0 .. n - 1 : entry(q, m) <= upto
        /\ n = q.items \/ entry(q, n) > upto

\* tls_committer::dequeue_committed_xcts for queue j.
d_take(s) ==
    LET j == th[s].j
        q == cq[j]
        n == covered(q, global_durable_csn(s))
        last == j + 1 = Logs
    IN  /\ At(s, "d_take")
        /\ cq' = [cq EXCEPT ![j].items = @ - n, ![j].start = (@ + n) % q.length]
        /\ acked' = [acked EXCEPT ![j] = @ \o [m \in 1 .. n |-> entry(q, m - 1)]]
        /\ tlog_lock' = IF last THEN Nobody ELSE s
        /\ th' = [th EXCEPT ![s].j = j + 1, ![s].k = 0, ![s].min_dirty = Nobody,
                            ![s].max_clean = 0,
                            ![s].pc = IF last THEN th[s].ret ELSE "d_scan"]
        /\ UNCHANGED <<current_csn, tlog, tls_durable_csn, enqueued, populated, lock>>

-----------------------------------------------------------------------------
(***************************************************************************)
(* enqueue_committed_xct: push the CSN; when the queue is 80% full flush   *)
(* all the logs, acknowledge what is durable and try again.                *)
(***************************************************************************)
over80(q) == 10 * q.items >= 8 * q.length

inserts(s) == th[s].insert /\ cq[s].items < cq[s].length

push_back(q, csn) ==
    [q EXCEPT !.queue[(q.start + q.items) % q.length] = csn, !.items = @ + 1]

\* The end of an iteration of the retry loop.
next_try(s, flush, count) ==
    [th EXCEPT ![s].flush = FALSE, ![s].insert = @ /\ ~inserts(s),
               ![s].count = IF flush THEN count + 1 ELSE 0, ![s].i = 0,
               ![s].pc = IF flush THEN "f_lock" ELSE "idle"]

\* Mutant: the retry loop never extends the queue.
e_push_no_extend(s) ==
    /\ At(s, "e_push")
    /\ cq' = IF inserts(s) THEN [cq EXCEPT ![s] = push_back(@, th[s].csn)] ELSE cq
    /\ enqueued' = IF inserts(s) THEN [enqueued EXCEPT ![s] = Append(@, th[s].csn)] ELSE enqueued
    /\ th' = next_try(s, over80(cq[s]), 0)
    /\ UNCHANGED <<current_csn, tlog, tls_durable_csn, acked, populated, lock, tlog_lock>>

e_push(s) ==
    /\ At(s, "e_push")
    /\ cq' = IF inserts(s) THEN [cq EXCEPT ![s] = push_back(@, th[s].csn)] ELSE cq
    /\ enqueued' = IF inserts(s) THEN [enqueued EXCEPT ![s] = Append(@, th[s].csn)] ELSE enqueued
    /\ th' = IF th[s].count >= MaxRetries
             THEN [th EXCEPT ![s].flush = over80(cq[s]), ![s].insert = @ /\ ~inserts(s),
                             ![s].pc = "e_extend"]
             ELSE next_try(s, over80(cq[s]), th[s].count)
    /\ UNCHANGED <<current_csn, tlog, tls_durable_csn, acked, populated, lock, tlog_lock>>

\* commit_queue::extend copies the array as it is to one twice as long.
extend(q) ==
    [q EXCEPT !.length = 2 * @,
              !.queue = [k \in 0 .. 2 * q.length - 1 |->
                            IF k < q.length THEN q.queue[k] ELSE 0]]

e_extend(s) ==
    LET q == extend(cq[s])
    IN  /\ At(s, "e_extend")
        /\ cq' = [cq EXCEPT ![s] = IF th[s].insert THEN push_back(q, th[s].csn) ELSE q]
        /\ enqueued' = IF th[s].insert THEN [enqueued EXCEPT ![s] = Append(@, th[s].csn)]
                      ELSE enqueued
        /\ th' = [th EXCEPT ![s].flush = FALSE, ![s].insert = FALSE, ![s].i = 0,
                            ![s].count = IF th[s].flush \/ over80(q) THEN 1 ELSE 0,
                            ![s].pc = IF th[s].flush \/ over80(q) THEN "f_lock" ELSE "idle"]
        /\ UNCHANGED <<current_csn, tlog, tls_durable_csn, acked, populated, lock, tlog_lock>>

\* A log is skipped unless its durable CSN word is non-zero.
skips(s, i) == s # main /\ tls_durable_csn[i] = [csn |-> 0, dirty |-> FALSE]

\* enqueue_flush (and main's last_flush) of log i: lock it.
f_lock(s) ==
    LET i == th[s].i
    IN  /\ At(s, "f_lock") /\ i \in Log /\ ~skips(s, i)
        /\ lock[i] = Nobody
        /\ lock' = [lock EXCEPT ![i] = s]
        /\ th' = [th EXCEPT ![s].pc = IF flushing(tlog[i]) THEN "f_poll" ELSE "f_issue"]
        /\ UNCHANGED <<current_csn, tlog, tls_durable_csn, cq, enqueued, acked, populated,
                       tlog_lock>>

f_skip(s) ==
    /\ At(s, "f_lock") /\ th[s].i \in Log /\ skips(s, th[s].i)
    /\ th' = [th EXCEPT ![s].i = @ + 1]
    /\ UNCHANGED <<current_csn, tlog, tls_durable_csn, cq, enqueued, acked, populated,
                   lock, tlog_lock>>

\* Issue the active buffer if there is something in it.  enqueue_flush is then
\* done with the log; last_flush waits for the write.
f_issue(s) ==
    LET i == th[s].i
        issued == logbuf_offset(tlog[i]) > 0
        waits == issued /\ s = main
    IN  /\ At(s, "f_issue")
        /\ tlog' = IF issued THEN [tlog EXCEPT ![i] = issue_flush(@)] ELSE tlog
        /\ lock' = IF waits THEN lock ELSE [lock EXCEPT ![i] = Nobody]
        /\ th' = IF waits THEN [th EXCEPT ![s].pc = "l_poll"]
                 ELSE [th EXCEPT ![s].pc = "f_lock", ![s].i = i + 1]
        /\ UNCHANGED <<current_csn, tls_durable_csn, cq, enqueued, acked, populated, tlog_lock>>

\* All logs have been visited: acknowledge, then push again or, for main, check.
f_done(s) ==
    /\ At(s, "f_lock") /\ th[s].i = Logs
    /\ th' = [th EXCEPT ![s].pc = "d_lock",
                        ![s].ret = IF s = main THEN "m_check" ELSE "e_push"]
    /\ UNCHANGED <<current_csn, tlog, tls_durable_csn, cq, enqueued, acked, populated,
                   lock, tlog_lock>>

-----------------------------------------------------------------------------
(***************************************************************************)
(* bench_runner::run: when the loaders are done, flush_all, then           *)
(* dequeue_committed_xcts, then check that the queues are empty.           *)
(***************************************************************************)
m_flush_all ==
    /\ At(main, "m_wait") /\ \A l \in Log : At(l, "done")
    /\ th' = [th EXCEPT ![main].pc = "f_lock", ![main].i = 0]
    /\ UNCHANGED <<current_csn, tlog, tls_durable_csn, cq, enqueued, acked, populated,
                   lock, tlog_lock>>

l_next ==
    /\ At(main, "l_next")
    /\ lock' = [lock EXCEPT ![th[main].i] = Nobody]
    /\ th' = [th EXCEPT ![main].pc = "f_lock", ![main].i = @ + 1]
    /\ UNCHANGED <<current_csn, tlog, tls_durable_csn, cq, enqueued, acked, populated, tlog_lock>>

Loaded == At(main, "m_check") /\ UNCHANGED vars

-----------------------------------------------------------------------------
Step(s) ==
    \/ a_lock(s) \/ a_alloc(s) \/ a_fill(s)
    \/ poll_flush(s) \/ d_lock(s) \/ d_scan(s) \/ d_take(s)
    \/ e_push(s) \/ e_extend(s) \/ f_lock(s) \/ f_skip(s) \/ f_issue(s) \/ f_done(s)

Main == m_flush_all \/ l_next

Next ==
    \/ \E l \in Log : Device(l) \/ c_write(l) \/ c_read(l) \/ c_stop(l)
    \/ \E s \in Thread : Step(s)
    \/ Main \/ Loaded

Spec == Init /\ [][Next]_vars

\* The operating system runs every thread and the device completes every write.
Fairness ==
    /\ \A l \in Log : WF_vars(Device(l)) /\ WF_vars(c_stop(l))
    /\ \A s \in Thread : WF_vars(Step(s))
    /\ WF_vars(Main)

FairSpec == Spec /\ Fairness

-----------------------------------------------------------------------------
(***************************************************************************)
(* Properties.                                                             *)
(***************************************************************************)
Block == [csn : Nat, lsn : Nat, seg : Nat]

\* Every variable has its type; a lock is held by a thread or by nobody.
TypeOK ==
    /\ current_csn \in Nat /\ populated \subseteq 0 .. current_csn
    /\ \A l \in Log :
        /\ tlog[l].active \in 0..1 /\ tlog[l].current_lsn \in Nat
        /\ \A b \in 0..1 : tlog[l].buf[b] \in Seq(Block) /\ tlog[l].last_csns[b] \in Nat
        /\ tls_durable_csn[l] \in [csn : Nat, dirty : BOOLEAN]
        /\ cq[l].items \in 0 .. cq[l].length /\ cq[l].start \in 0 .. cq[l].length - 1
        /\ acked[l] \in Seq(0 .. current_csn) /\ enqueued[l] \in Seq(0 .. current_csn)
    /\ lock \in [Log -> Thread \cup {Nobody}]
    /\ tlog_lock \in Thread \cup {Nobody}

\* The blocks of log l that are in a buffer and not yet on the device.
InBuffers(l) ==
    LET t == tlog[l]
        Csns(blocks) == {blocks[b].csn : b \in 1 .. Len(blocks)}
    IN  Csns(t.buf[t.active]) \cup (IF flushing(t) /\ ~t.io.done THEN Csns(t.io.blocks) ELSE {})

\* The durable CSN a thread publishes in poll_flush, the last CSN of the buffer
\* that is not active, never claims a block that is not on the device: the
\* accounting of the two buffers survives flushes by other threads, buffer
\* switches between the issue and the poll, and segment changes.  (CSN 0 is
\* also the value published before anything is durable.)
DurableCsnCovered ==
    \A l \in Log : \A c \in InBuffers(l) : c > 0 => c > tls_durable_csn[l].csn

\* A transaction leaves the commit queue (dequeue_committed_xcts) only when its
\* log block, and every earlier block of its thread, is on the device.
AcknowledgedIsDurable ==
    \A l \in Log : \A n \in 1 .. Len(acked[l]) : \A d \in InBuffers(l) :
        d > 0 => d > acked[l][n]

\* pcommit.cpp on the global durable CSN: up to it all transactions are durable.
GlobalDurableCsnCovers ==
    \A s \in Thread : At(s, "d_take") =>
        \A l \in Log : \A c \in InBuffers(l) : c > global_durable_csn(s)

\* A block that a flush writes to the device holds the transaction's records:
\* no flush catches a block between allocate_log_block and si_commit's loop.
BlocksAreWhole ==
    \A l \in Log : \A b \in tlog[l].disk : b.whole

\* A block is in the file, and at the offset, at which a reader looks for its
\* records: LSN minus the start of the segment (sm-object.cpp).
RecordsAreAddressable ==
    \A l \in Log : \A b \in tlog[l].disk :
        /\ b.seg = b.asseg
        /\ b.off = b.lsn - tlog[l].segments[b.asseg].start_offset

\* No flush, padded to whole pages, runs past the end of a segment, whoever
\* issues it and whenever allocate_log_block decided about a new segment.
SegmentNeverOverrun ==
    \A l \in Log : \A k \in 1 .. Len(tlog[l].segments) :
        tlog[l].segments[k].expected_size <= SegmentSize

\* Until it is extended, the ring of a commit queue holds exactly the committed
\* transactions not acknowledged yet, in the order in which they committed, and
\* their CSNs do not decrease, so stopping at the first one that is not covered
\* leaves no covered one behind.
QueueIsFifo ==
    \A l \in Log : cq[l].length = QueueLength =>
        /\ acked[l] \o [n \in 1 .. cq[l].items |-> entry(cq[l], n - 1)] = enqueued[l]
        /\ \A n \in 2 .. Len(enqueued[l]) : enqueued[l][n - 1] <= enqueued[l][n]

\* bench.cc's sanity check: when the load has been flushed and acknowledged no
\* queue has an entry, and every transaction was acknowledged exactly once.
LoadFullyCommitted ==
    At(main, "m_check") => \A l \in Log : cq[l].items = 0 /\ acked[l] = enqueued[l]

Returned(s) == At(s, "idle") \/ At(s, "done")

\* No thread is kept in enqueue_committed_xct forever: flushing all logs makes
\* room in the commit queue, or the queue is extended.
CommitReturns ==
    \A s \in Log : At(s, "e_push") ~> Returned(s)

\* Transactions are acknowledged in order and only when they are durable.
QueueIsSound ==
    /\ TypeOK
    /\ AcknowledgedIsDurable
    /\ QueueIsFifo

\* What the logs say is durable is on their devices, where a reader looks for
\* it, and after the load nothing is left waiting.
LogsAreSound ==
    /\ DurableCsnCovered
    /\ RecordsAreAddressable
    /\ LoadFullyCommitted
=============================================================================
