----------------------------- MODULE MCCommit -------------------------------
(***************************************************************************)
(* The log, with one thread and with two.                                  *)
(***************************************************************************)
EXTENDS Integers

VARIABLES part,   \* the part that runs; the others are absent
          v1, v2, v3, v4, v5, v6, v7, v8, v9, v10   \* its variables

One == INSTANCE Log WITH
    Logs <- 1, LogbufSize <- 4, SegmentSize <- 4, PageSize <- 2, BlockSize <- 1,
    QueueLength <- 3, MaxRetries <- 10, MaxTxns <- 8, current_csn <- v1, tlog <- v2,
    tls_durable_csn <- v3, cq <- v4, enqueued <- v5, acked <- v6, populated <- v7, lock <- v8,
    tlog_lock <- v9, th <- v10

Two == INSTANCE Log WITH
    Logs <- 2, LogbufSize <- 2, SegmentSize <- 100, PageSize <- 2, BlockSize <- 1,
    QueueLength <- 1, MaxRetries <- 2, MaxTxns <- 2, current_csn <- v1, tlog <- v2,
    tls_durable_csn <- v3, cq <- v4, enqueued <- v5, acked <- v6, populated <- v7, lock <- v8,
    tlog_lock <- v9, th <- v10


all == <<part, v1, v2, v3, v4, v5, v6, v7, v8, v9, v10>>

Init ==
    \/ part = "log1" /\ One!Init
    \/ part = "log2" /\ Two!Init

Next ==
    \/ part = "log1" /\ One!Next /\ UNCHANGED part
    \/ part = "log2" /\ Two!Next /\ UNCHANGED part

Spec == Init /\ [][Next]_all

logVars == Two!vars

\* The operating system runs every thread and the device completes every write.
FairSpec ==
    /\ Spec
    /\ \A l \in Two!Log : /\ WF_logVars(part = "log2" /\ Two!Device(l))
                          /\ WF_logVars(part = "log2" /\ Two!c_stop(l))
    /\ \A s \in Two!Thread : WF_logVars(part = "log2" /\ Two!Step(s))
    /\ WF_logVars(part = "log2" /\ Two!Main)

-----------------------------------------------------------------------------
\* The bounds of the two instances of the log are what dlog.cpp asks of them.
ASSUME LogAssumptions == One!LogAssumption /\ Two!LogAssumption

\* A transaction leaves the commit queue (dequeue_committed_xcts) only when its
\* log block, and every earlier block of its thread, is on the device.  Until it
\* is extended, the ring of a commit queue holds exactly the transactions not
\* acknowledged yet, in the order in which they committed.
QueueIsSound == part = "log1" => One!QueueIsSound

\* No flush, padded to whole pages, runs past the end of a segment, whoever
\* issues it and whenever allocate_log_block decided about a new segment.
SegmentNeverOverrun == part = "log1" => One!SegmentNeverOverrun


=============================================================================
