-------------------------------- MODULE Ssi ---------------------------------
(***************************************************************************)
(* Serializable snapshot isolation (txn-ssi.cc, macro SSI): a transaction  *)
(* remembers the smallest stamp ct3 of those that overwrote its reads, and *)
(* leaves it as s2 in the versions it overwrites; T1 r:w T2 r:w T3 with    *)
(* T3 first to commit is the structure that is avoided.  Two loads of a    *)
(* version's fields are two steps.  Without the read-only optimization and *)
(* safe snapshots, as configured.                                          *)
(***************************************************************************)
EXTENDS Serial

VARIABLES ct3,
          missed     \* history: who relied on an s2 that was about to be written

vars == <<shared, ct3, missed>>

Init == SerialInit /\ ct3 = [t \in Xct |-> 0] /\ missed = {}

Smallest(a, b) == IF a = 0 \/ a > b THEN b ELSE a

\* Whether v, overwritten by a transaction with a ct3, does not show it yet.
Misses(v) == v.s2 = 0 /\ \E u \in Xct : ct3[u] # 0 /\ v.s = cstamp[u]
-----------------------------------------------------------------------------
\* A read of a version whose overwriter has a T3 makes the reader T1.
ssi_read(t) ==
    /\ At(t, "picked")
    /\ IF Picked(t).s2 # 0 THEN Abort(t) ELSE Goto(t, "s1") /\ UNCHANGED state
    /\ UNCHANGED <<lsn, chain, begin, end, sets, locals, ct3, missed>>

\* The overwriter has committed, and the reader may be T2, or the read is
\* tracked.
LoadSstamp(t) ==
    /\ At(t, "s1")
    /\ LET v == Picked(t)
       IN  IF v.s > 0
           THEN /\ Untracked(t) /\ ct3' = Set(ct3, t, Smallest(ct3[t], v.s))
                /\ missed' = IF \E u \in Xct : ct3[u] # 0 /\ v.s = cstamp[u]
                             THEN missed \cup {t} ELSE missed
           ELSE Tracked(t, "register") /\ UNCHANGED <<ct3, missed>>

\* T2 gives up at once if somebody reads the version, or read it after T3.
Update(t) == UpdateTuple(t, 0) /\ UNCHANGED <<ct3, missed>>

CheckUpdate(t) ==
    /\ At(t, "claim")
    /\ LET o == Head(todo[t])[2]
           prev == chain[o][Len(chain[o]) - 1]
       IN  IF ct3[t] # 0 /\ (prev.x >= ct3[t] \/ prev.readers \ {t} # {})
           THEN /\ chain' = [chain EXCEPT ![o] = Front(@)] /\ Abort(t)
                /\ UNCHANGED <<lsn, begin, end, sets, locals>>
           ELSE Claim(t)
    /\ UNCHANGED <<ct3, missed>>
-----------------------------------------------------------------------------
parallel_ssi_commit(t) == StoreEnd(t) /\ UNCHANGED <<ct3, missed>>

\* A read that was not overwritten by one that commits before is passed over.
Overwriter(t) ==
    /\ At(t, "successors") /\ i[t] <= Len(reads[t])
    /\ LET s == Checked(t).s
           counts == s > 0 \/ (HasOverwriter(t) /\ CommitsBefore(t, -s) /\ state[-s] = "cmmtd")
       IN  /\ HasOverwriter(t) => StampKnown(-s) /\ (CommitsBefore(t, -s) => Decided(-s))
           /\ IF counts
              THEN /\ ct3' = Set(ct3, t, Smallest(ct3[t], IF s > 0 THEN s ELSE end[-s]))
                   /\ Goto(t, "s2") /\ UNCHANGED <<lsn, chain, ctx, sets, locals>>
              ELSE NextRead(t) /\ UNCHANGED ct3
    /\ UNCHANGED missed

LoadS2(t) ==
    /\ At(t, "s2")
    /\ IF Checked(t).s2 # 0 THEN Abort(t) /\ UNCHANGED i
       ELSE Goto(t, "successors") /\ i' = Set(i, t, i[t] + 1) /\ UNCHANGED state
    /\ missed' = IF Misses(Checked(t)) THEN missed \cup {t} ELSE missed
    /\ UNCHANGED <<lsn, chain, begin, end, sets, picked, cstamp, left, ct3>>

\* A transaction with a T3 looks at the readers of what it overwrote.
SeeReaders(t) ==
    /\ ct3[t] # 0 /\ Readers(t) /\ UNCHANGED <<ct3, missed>>

NoT3(t) ==
    /\ At(t, "successors") /\ i[t] > Len(reads[t]) /\ ct3[t] = 0 /\ Goto(t, "check")
    /\ UNCHANGED <<lsn, chain, ctx, sets, locals, ct3, missed>>

\* A reader that is gone or has aborted, or commits before T3, does no harm;
\* one that commits between T3 and this transaction is waited for, and any
\* other makes it abort.  Of one that is gone the access stamp tells.
Reader(t) ==
    /\ At(t, "readers") /\ left[t] # {}
    /\ LET r == AReader(t)
           before == CommitsBefore(t, r)
           abort == CASE state[r] = "gone" -> Clobbered(t).x >= ct3[t]
                      [] state[r] = "abrtd" -> FALSE
                      [] before -> end[r] >= ct3[t]
                      [] OTHER -> TRUE
       IN  /\ state[r] = "gone" \/ StampKnown(r)
           /\ before /\ end[r] >= ct3[t] => Decided(r)
           /\ NextReader(t)
           /\ IF abort THEN Abort(t) ELSE UNCHANGED <<state, at>>
    /\ UNCHANGED <<lsn, chain, begin, end, sets, picked, cstamp, i, ct3, missed>>

ReadersDone(t) ==
    /\ At(t, "readers") /\ left[t] = {}
    /\ IF Clobbered(t).x >= ct3[t] THEN Abort(t) ELSE Goto(t, "next") /\ UNCHANGED state
    /\ UNCHANGED <<lsn, chain, begin, end, sets, locals, ct3, missed>>

Survive(t) == At(t, "check") /\ StartPost(t) /\ UNCHANGED <<ct3, missed>>

\* Post-commit of one write: sstamp, then s2, then the new version's stamps.
DoWrite(t) ==
    /\ at[t] \in {"post", "stamp s2", "stamp new"} /\ i[t] <= Len(writes[t])
    /\ LET o == writes[t][i[t]]
           k == Overwritten(t, o)
       IN  \/ /\ At(t, "post") /\ Goto(t, "stamp s2")
              /\ chain' = [chain EXCEPT ![o][k].s = cstamp[t]] /\ UNCHANGED i
           \/ /\ At(t, "stamp s2") /\ Goto(t, "stamp new")
              /\ chain' = [chain EXCEPT ![o][k].s2 = ct3[t]] /\ UNCHANGED i
           \/ /\ At(t, "stamp new") /\ Goto(t, "post")
              /\ chain' = [chain EXCEPT ![o][k + 1].x = cstamp[t], ![o][k + 1].clsn = cstamp[t]]
              /\ i' = Set(i, t, i[t] + 1)
    /\ UNCHANGED <<lsn, ctx, sets, picked, cstamp, left, ct3, missed>>

\* Post-commit of one read: the access stamp, and then, once an older overwriter
\* has left, the seat in the bitmap.
set_tuple_xstamp(t) ==
    /\ At(t, "access") /\ i[t] <= Len(reads[t]) /\ Goto(t, "seat")
    /\ LET r == reads[t][i[t]] IN chain' = [chain EXCEPT ![r[1]][r[2]].x = Max2(@, cstamp[t])]
    /\ UNCHANGED <<lsn, ctx, sets, locals, ct3, missed>>

serial_deregister_reader_tx(t) ==
    /\ At(t, "seat") /\ ~OlderOverwriter(t) /\ Goto(t, "access")
    /\ LET r == reads[t][i[t]] IN chain' = [chain EXCEPT ![r[1]][r[2]].readers = @ \ {t}]
    /\ i' = Set(i, t, i[t] + 1)
    /\ UNCHANGED <<lsn, ctx, sets, picked, cstamp, left, ct3, missed>>

Step(t) ==
    \/ SharedStep(t) /\ UNCHANGED <<ct3, missed>>
    \/ ssi_read(t) \/ LoadSstamp(t) \/ Update(t) \/ CheckUpdate(t) \/ parallel_ssi_commit(t)
    \/ Overwriter(t) \/ LoadS2(t) \/ SeeReaders(t) \/ NoT3(t) \/ Reader(t) \/ ReadersDone(t)
    \/ Survive(t) \/ DoWrite(t) \/ set_tuple_xstamp(t) \/ serial_deregister_reader_tx(t)

Next == (\E t \in Xct : Step(t)) \/ (Finished /\ UNCHANGED vars)
Spec == Init /\ [][Next]_vars
-----------------------------------------------------------------------------
\* Committed transactions are serializable (txn-ssi.cc:352: "the dangerous
\* structure that could lead to non-serializable execution", which reads and
\* pre-commit look for).
SsiSerializable == IsSerializable

\* Serializability fails only for a transaction that read s2 before it was
\* written and sstamp after, or the other way round in its pre-commit.
SerializableUnlessMissed == missed = {} => IsSerializable
=============================================================================
