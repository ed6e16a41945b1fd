------------------------------- MODULE Mvocc --------------------------------
(***************************************************************************)
(* Multi-version optimistic concurrency control (txn-mvocc.cc, macro       *)
(* MVOCC): a transaction aborts if a version it read was overwritten by    *)
(* one with a smaller stamp.  New versions are taken to have no overwriter *)
(* (under MVOCC the constructor of dbtuple does not initialise sstamp).    *)
(***************************************************************************)
EXTENDS Serial

Init == SerialInit

mvocc_read(t) ==
    /\ At(t, "picked") /\ Goto(t, "run")
    /\ reads' = Set(reads, t, Append(reads[t], picked[t])) /\ todo' = Set(todo, t, Tail(todo[t]))
    /\ UNCHANGED <<lsn, chain, ctx, writes, got, locals>>

Update(t) == UpdateTuple(t, 0)

\* The stamp of another overwriter is waited for, its outcome is not.
mvocc_commit(t) ==
    /\ At(t, "successors") /\ i[t] <= Len(reads[t])
    /\ LET s == Checked(t).s
       IN  /\ HasOverwriter(t) => StampKnown(-s)
           /\ IF \/ s > 0 /\ s < cstamp[t]
                 \/ HasOverwriter(t) /\ CommitsBefore(t, -s)
              THEN Abort(t) /\ UNCHANGED <<lsn, chain, begin, end, sets, locals>>
              ELSE NextRead(t)

Survive(t) == At(t, "successors") /\ i[t] > Len(reads[t]) /\ StartPost(t)

DoWrite(t) ==
    /\ At(t, "post") /\ i[t] <= Len(writes[t])
    /\ LET o == writes[t][i[t]]
           k == Overwritten(t, o)
       IN  chain' = [chain EXCEPT ![o][k].s = cstamp[t], ![o][k + 1].clsn = cstamp[t]]
    /\ i' = Set(i, t, i[t] + 1)
    /\ UNCHANGED <<lsn, ctx, sets, at, picked, cstamp, left>>

\* There are no readers to take leave of.
Leave(t) ==
    /\ At(t, "access") /\ Goto(t, "committed") /\ state' = Set(state, t, "gone")
    /\ UNCHANGED <<lsn, chain, begin, end, sets, locals>>

Step(t) ==
    \/ transaction(t) \/ oid_get_version(t) \/ Claim(t) \/ Cleanup(t) \/ commit(t) \/ Stamp(t)
    \/ StoreEnd(t) \/ Committed(t)
    \/ mvocc_read(t) \/ Update(t) \/ mvocc_commit(t) \/ Survive(t) \/ DoWrite(t)
    \/ Leave(t)

Next == (\E t \in Xct : Step(t)) \/ (Finished /\ UNCHANGED shared)
Spec == Init /\ [][Next]_shared
-----------------------------------------------------------------------------
\* Committed transactions are serializable, in the order of their stamps: none
\* depends on one with a larger stamp, although stamps are drawn before they
\* can be seen and reads are checked one by one while others commit.
StampOrderSerializes ==
    \A a, b \in Survivors : a # b /\ Precedes(a, b) => cstamp[a] < cstamp[b]
=============================================================================
