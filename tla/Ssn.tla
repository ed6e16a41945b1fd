-------------------------------- MODULE Ssn ---------------------------------
(***************************************************************************)
(* The serial safety net (txn-ssn.cc, macro SSN): a transaction carries    *)
(* the commit stamps of its youngest predecessor (pstamp) and its oldest   *)
(* successor (sstamp), and aborts when they overlap.  Without the read     *)
(* optimization (SSN_READ_OPT_DISABLED) and safe snapshots, as configured. *)
(***************************************************************************)
EXTENDS Serial

VARIABLES pstamp, sstamp

stamps == <<pstamp, sstamp>>
vars == <<shared, stamps>>

Init == SerialInit /\ pstamp = [t \in Xct |-> 0] /\ sstamp = [t \in Xct |-> 0]

\* TRUE if the stamps p and s leave an exclusion window.
ssn_check_exclusion(p, s) == ~(s # 0 /\ p >= s)

\* The read is tracked unless its overwriter has committed, or is the reader.
ssn_read(t) ==
    LET v == Picked(t)
    IN  /\ At(t, "picked")
        /\ pstamp' = Set(pstamp, t, Max2(pstamp[t], v.clsn))
        /\ IF v.s > 0 /\ (sstamp[t] = 0 \/ sstamp[t] > v.s)
           THEN sstamp' = Set(sstamp, t, v.s) ELSE UNCHANGED sstamp
        /\ IF v.s <= 0 /\ v.s # -t THEN Tracked(t, "register") ELSE Untracked(t)

\* The version inherits the access stamp of the one it overwrites, whose
\* readers are predecessors.
Update(t) ==
    /\ NextCall(t, "update")
    /\ LET x == Newest(Head(todo[t])[2]).x
       IN  /\ UpdateTuple(t, x)
           /\ pstamp' = IF at'[t] = "claim" THEN Set(pstamp, t, Max2(pstamp[t], x)) ELSE pstamp
    /\ UNCHANGED sstamp

parallel_ssn_commit(t) ==
    /\ StoreEnd(t)
    /\ sstamp' = Set(sstamp, t, IF sstamp[t] = 0 THEN cstamp[t] ELSE sstamp[t])
    /\ UNCHANGED pstamp

\* A read: an overwriter that commits before this transaction is a successor.
Successor(t) ==
    /\ At(t, "successors") /\ i[t] <= Len(reads[t])
    /\ LET s == Checked(t).s
           counts == s > 0 \/ (HasOverwriter(t) /\ CommitsBefore(t, -s) /\ state[-s] = "cmmtd")
           my == Min({sstamp[t], IF s > 0 THEN s ELSE sstamp[-s]})
       IN  /\ HasOverwriter(t) => StampKnown(-s) /\ (CommitsBefore(t, -s) => Decided(-s))
           /\ \/ ~counts /\ NextRead(t) /\ UNCHANGED sstamp
              \/ /\ counts /\ ssn_check_exclusion(pstamp[t], my)
                 /\ sstamp' = Set(sstamp, t, my) /\ NextRead(t)
              \/ /\ counts /\ ~ssn_check_exclusion(pstamp[t], my)
                 /\ sstamp' = Set(sstamp, t, my) /\ Abort(t)
                 /\ UNCHANGED <<lsn, chain, begin, end, sets, locals>>
    /\ UNCHANGED pstamp

\* A larger pstamp, and the check of the exclusion window.
set_pstamp(t, p, l) ==
    /\ pstamp' = Set(pstamp, t, Max2(pstamp[t], p))
    /\ IF ssn_check_exclusion(pstamp'[t], sstamp[t]) THEN Goto(t, l) /\ UNCHANGED state
       ELSE Abort(t)
    /\ UNCHANGED <<lsn, chain, begin, end, sets, picked, cstamp, sstamp>>

\* A reader that is gone, aborted, active or commits later is of no interest;
\* its stamp is waited for to tell.
Reader(t) ==
    /\ At(t, "readers") /\ left[t] # {}
    /\ state[AReader(t)] = "gone" \/ StampKnown(AReader(t))
    /\ ~CommitsBefore(t, AReader(t)) /\ NextReader(t)
    /\ UNCHANGED <<lsn, chain, ctx, sets, at, picked, cstamp, i, stamps>>

\* One that commits before this transaction is a predecessor, if it does.
Predecessor(t) ==
    /\ At(t, "readers") /\ left[t] # {}
    /\ StampKnown(AReader(t)) /\ CommitsBefore(t, AReader(t)) /\ Decided(AReader(t))
    /\ set_pstamp(t, end[AReader(t)], "readers") /\ NextReader(t)
    /\ UNCHANGED i


\* Readers that left meanwhile have set the access stamp.
ReadersDone(t) ==
    /\ At(t, "readers") /\ left[t] = {} /\ set_pstamp(t, Clobbered(t).x, "next")
    /\ UNCHANGED <<i, left>>

Check(t) ==
    /\ At(t, "check") /\ set_pstamp(t, 0, "post") /\ i' = Set(i, t, 1)
    /\ UNCHANGED left

\* Post-commit of one write.
DoWrite(t) ==
    /\ At(t, "post") /\ i[t] <= Len(writes[t])
    /\ LET o == writes[t][i[t]]
           k == Overwritten(t, o)
       IN  chain' = [chain EXCEPT ![o][k].s = sstamp[t], ![o][k + 1].x = cstamp[t],
                                  ![o][k + 1].clsn = cstamp[t]]
    /\ i' = Set(i, t, i[t] + 1)
    /\ UNCHANGED <<lsn, ctx, sets, at, picked, cstamp, left, stamps>>

\* Post-commit of one read.
set_tuple_xstamp(t) ==
    /\ At(t, "access") /\ i[t] <= Len(reads[t]) /\ ~OlderOverwriter(t)
    /\ LET r == reads[t][i[t]]
       IN  chain' = [chain EXCEPT ![r[1]][r[2]].x = Max2(@, cstamp[t]),
                                  ![r[1]][r[2]].readers = @ \ {t}]
    /\ i' = Set(i, t, i[t] + 1)
    /\ UNCHANGED <<lsn, ctx, sets, at, picked, cstamp, left, stamps>>

Step(t) ==
    \/ SharedStep(t) /\ UNCHANGED stamps
    \/ Claim(t) /\ UNCHANGED stamps
    \/ Readers(t) /\ UNCHANGED stamps
    \/ ssn_read(t) \/ Update(t) \/ parallel_ssn_commit(t) \/ Successor(t) \/ Reader(t)
    \/ Predecessor(t) \/ ReadersDone(t) \/ Check(t) \/ DoWrite(t) \/ set_tuple_xstamp(t)

Next == (\E t \in Xct : Step(t)) \/ (Finished /\ UNCHANGED vars)
Spec == Init /\ [][Next]_vars
-----------------------------------------------------------------------------
\* Committed transactions are serializable, although snapshots alone do not
\* make them so, and each one decided by itself from stamps that the others
\* were changing.
SsnSerializable == IsSerializable
=============================================================================
