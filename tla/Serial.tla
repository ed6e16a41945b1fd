------------------------------- MODULE Serial -------------------------------
(***************************************************************************)
(* What the serializable variants of the engine share (the macros SSN, SSI *)
(* and MVOCC; txn.cc, sm-oid.cpp and serial.cpp).  Transactions run under  *)
(* snapshot isolation, versions remember their overwriter and readers, and *)
(* commit is parallel: each transaction decides alone, from the states and *)
(* stamps of the others.                                                   *)
(*                                                                         *)
(* Versions, per record and oldest first: the writer, its commit stamp     *)
(* (clsn, 0 while it is an XID), the overwriter (s: 0 for none, -t for the *)
(* XID of t, else a stamp), the access stamp x, SSI's s2 and the readers.  *)
(* A transaction is a number; "gone" says that its context was freed.      *)
(***************************************************************************)
EXTENDS Integers, Sequences, SequencesExt, FiniteSets, FiniteSetsExt

CONSTANTS Record, NTxns,
          Plans       \* the calls of each transaction: sequences of <<op, record>>

Xct == 1..NTxns

VARIABLES lsn,                       \* cur_lsn of the log
          chain,
          state, begin, end,         \* xid_context
          todo, reads, writes,       \* calls to come; read_set and write_set
          at, picked, cstamp, i, left,  \* locals; left: readers still to look at
          got                        \* history: the versions read

ctx == <<state, begin, end>>
sets == <<todo, reads, writes, got>>
locals == <<picked, cstamp, i, left>>
shared == <<lsn, chain, ctx, sets, at, locals>>

Max2(a, b) == IF a > b THEN a ELSE b
Goto(t, l) == at' = [at EXCEPT ![t] = l]
At(t, l) == at[t] = l
Set(f, t, v) == [f EXCEPT ![t] = v]
-----------------------------------------------------------------------------
dbtuple(t, x) == [by |-> t, clsn |-> 0, s |-> 0, x |-> x, s2 |-> 0, readers |-> {}]

SerialInit ==
    /\ todo \in Plans
    /\ lsn = 1
    /\ chain = [o \in Record |-> <<[dbtuple(0, 1) EXCEPT !.clsn = 1]>>]
    /\ state = [t \in Xct |-> "none"] /\ begin = [t \in Xct |-> 0] /\ end = [t \in Xct |-> 0]
    /\ reads = [t \in Xct |-> <<>>] /\ writes = [t \in Xct |-> <<>>] /\ got = [t \in Xct |-> {}]
    /\ at = [t \in Xct |-> "begin"] /\ picked = [t \in Xct |-> <<>>]
    /\ cstamp = [t \in Xct |-> 0] /\ i = [t \in Xct |-> 0] /\ left = [t \in Xct |-> {}]

\* A log block: the next position of the log.
pre_commit == lsn' = lsn + 2

\* begin is one more than the newest commit stamp.
transaction(t) ==
    /\ At(t, "begin") /\ Goto(t, "run")
    /\ state' = Set(state, t, "active") /\ begin' = Set(begin, t, lsn + 1)
    /\ UNCHANGED <<lsn, chain, end, sets, locals>>
-----------------------------------------------------------------------------
(* Reads and updates.                                                      *)

Newest(o) == Last(chain[o])
NextCall(t, op) == At(t, "run") /\ todo[t] # <<>> /\ Head(todo[t])[1] = op

\* TestVisibility and UpdateTuple spin while another holder is committing.
MustWait(t, v) == v.clsn = 0 /\ v.by # t /\ state[v.by] = "committing"

TestVisibility(t, v) ==
    CASE v.clsn # 0 -> v.clsn <= begin[t]
      [] v.by = t -> TRUE
      [] OTHER -> state[v.by] = "cmmtd" /\ end[v.by] < begin[t]

\* The version to read; DoTupleRead tracks no reads of own versions.
oid_get_version(t) ==
    /\ NextCall(t, "read")
    /\ LET o == Head(todo[t])[2]
           k == Max({v \in DOMAIN chain[o] : TestVisibility(t, chain[o][v])})
       IN  /\ ~MustWait(t, Newest(o))
           /\ IF chain[o][k].by = t
              THEN todo' = Set(todo, t, Tail(todo[t])) /\ UNCHANGED <<got, picked, at>>
              ELSE /\ got' = Set(got, t, got[t] \cup {<<o, k>>})
                   /\ picked' = Set(picked, t, <<o, k>>)
                   /\ Goto(t, "picked") /\ UNCHANGED todo
    /\ UNCHANGED <<lsn, chain, ctx, reads, writes, cstamp, i, left>>

Picked(t) == chain[picked[t][1]][picked[t][2]]

\* The end of a read, in the read set and the readers' bitmap or in neither.
Tracked(t, l) ==
    /\ Goto(t, l) /\ reads' = Set(reads, t, Append(reads[t], picked[t]))
    /\ UNCHANGED <<lsn, chain, ctx, todo, writes, got, locals>>

Untracked(t) ==
    /\ Goto(t, "run") /\ todo' = Set(todo, t, Tail(todo[t]))
    /\ UNCHANGED <<lsn, chain, ctx, reads, writes, got, locals>>

serial_register_reader_tx(t) ==
    /\ At(t, "register") /\ Goto(t, "run")
    /\ chain' = [chain EXCEPT ![picked[t][1]][picked[t][2]].readers = @ \cup {t}]
    /\ todo' = Set(todo, t, Tail(todo[t]))
    /\ UNCHANGED <<lsn, ctx, reads, writes, got, locals>>

\* The state change of Abort; what follows is Cleanup.
Abort(t) == state' = Set(state, t, "abrtd") /\ Goto(t, "abort")

FirstUpdaterWins(t, v) ==
    IF v.clsn # 0 THEN v.clsn < begin[t] ELSE state[v.by] = "cmmtd" /\ end[v.by] < begin[t]

\* Installs a version with access stamp x, in place of the own newest version
\* if there is one.
UpdateTuple(t, x) ==
    /\ NextCall(t, "update")
    /\ LET o == Head(todo[t])[2]
       IN  /\ ~MustWait(t, Newest(o))
           /\ \/ /\ Newest(o).clsn = 0 /\ Newest(o).by = t
                 /\ todo' = Set(todo, t, Tail(todo[t])) /\ UNCHANGED <<chain, state, at>>
              \/ /\ ~(Newest(o).clsn = 0 /\ Newest(o).by = t) /\ FirstUpdaterWins(t, Newest(o))
                 /\ chain' = [chain EXCEPT ![o] = Append(@, dbtuple(t, x))]
                 /\ Goto(t, "claim") /\ UNCHANGED <<todo, state>>
              \/ /\ ~(Newest(o).clsn = 0 /\ Newest(o).by = t) /\ ~FirstUpdaterWins(t, Newest(o))
                 /\ Abort(t) /\ UNCHANGED <<chain, todo>>
    /\ UNCHANGED <<lsn, begin, end, reads, writes, got, locals>>

\* The overwritten version names its overwriter.
Claim(t) ==
    /\ At(t, "claim") /\ Goto(t, "run")
    /\ LET o == Head(todo[t])[2]
       IN  /\ chain' = [chain EXCEPT ![o][Len(chain[o]) - 1].s = -t]
           /\ writes' = Set(writes, t, Append(writes[t], o))
    /\ todo' = Set(todo, t, Tail(todo[t]))
    /\ UNCHANGED <<lsn, ctx, reads, got, locals>>

\* The rest of Abort, and uninitialize.
Cleanup(t) ==
    /\ At(t, "abort") /\ Goto(t, "aborted")
    /\ chain' = [o \in Record |->
           LET c == [k \in DOMAIN chain[o] |->
                        [chain[o][k] EXCEPT !.readers = IF <<o, k>> \in Range(reads[t]) THEN @ \ {t} ELSE @,
                                            !.s = IF @ = -t THEN 0 ELSE @]]
           IN  IF Last(c).by = t THEN Front(c) ELSE c]
    /\ state' = Set(state, t, "gone")
    /\ UNCHANGED <<lsn, begin, end, sets, locals>>
-----------------------------------------------------------------------------
(* Commit.                                                                 *)

commit(t) ==
    /\ At(t, "run") /\ todo[t] = <<>> /\ Goto(t, "stamp")
    /\ state' = Set(state, t, "committing")
    /\ UNCHANGED <<lsn, chain, begin, end, sets, locals>>

\* Others may be waiting for a stamp that is drawn and not yet stored.
Stamp(t) ==
    /\ At(t, "stamp") /\ Goto(t, "end") /\ pre_commit
    /\ cstamp' = Set(cstamp, t, lsn')
    /\ UNCHANGED <<chain, ctx, sets, picked, i, left>>

StoreEnd(t) ==
    /\ At(t, "end") /\ Goto(t, "successors")
    /\ end' = Set(end, t, cstamp[t]) /\ i' = Set(i, t, 1)
    /\ UNCHANGED <<lsn, chain, state, begin, sets, picked, cstamp, left>>

\* spin_for_cstamp returns.
Decided(u) == state[u] \in {"cmmtd", "abrtd"}

\* The version read i'th, and whether its overwriter is a transaction that must
\* be waited for: its stamp is not stored, or smaller and it is committing.
\* (A context that is gone has left a stamp in the version.)
Checked(t) == LET r == reads[t][i[t]] IN chain[r[1]][r[2]]
HasOverwriter(t) == Checked(t).s < 0 /\ Checked(t).s # -t
StampKnown(u) == state[u] # "gone" /\ (state[u] = "committing" => end[u] # 0)
CommitsBefore(t, u) == state[u] \in {"committing", "cmmtd"} /\ end[u] < cstamp[t]

Overwritten(t, o) == Max({k \in DOMAIN chain[o] : chain[o][k].by = t}) - 1
Clobbered(t) == LET o == writes[t][i[t]] IN chain[o][Overwritten(t, o)]

NextRead(t) ==
    /\ i' = Set(i, t, i[t] + 1) /\ UNCHANGED <<lsn, chain, ctx, sets, at, picked, cstamp, left>>

\* The readers of the i'th overwritten version, as one reading of its bitmap.
Readers(t) ==
    /\ \/ At(t, "successors") /\ i[t] > Len(reads[t]) /\ i' = Set(i, t, 1)
       \/ At(t, "next") /\ i' = Set(i, t, i[t] + 1)
    /\ IF i'[t] > Len(writes[t]) THEN Goto(t, "check") /\ UNCHANGED left
       ELSE LET o == writes[t][i'[t]]
            IN  /\ left' = Set(left, t, chain[o][Overwritten(t, o)].readers \ {t})
                /\ Goto(t, "readers")
    /\ UNCHANGED <<lsn, chain, ctx, sets, picked, cstamp>>

AReader(t) == Min(left[t])
NextReader(t) == left' = Set(left, t, left[t] \ {AReader(t)})

StartPost(t) ==
    /\ Goto(t, "post") /\ i' = Set(i, t, 1)
    /\ UNCHANGED <<lsn, chain, ctx, sets, picked, cstamp, left>>

Committed(t) ==
    /\ At(t, "post") /\ i[t] > Len(writes[t]) /\ Goto(t, "access")
    /\ state' = Set(state, t, "cmmtd") /\ i' = Set(i, t, 1)
    /\ UNCHANGED <<lsn, chain, begin, end, sets, picked, cstamp, left>>

\* In post-commit an overwriter with a smaller stamp is waited for.
OlderOverwriter(t) ==
    LET u == -Checked(t).s
    IN  u > 0 /\ u # t /\ state[u] = "committing" /\ end[u] # 0 /\ end[u] < cstamp[t]

uninitialize(t) ==
    /\ At(t, "access") /\ i[t] > Len(reads[t]) /\ Goto(t, "committed")
    /\ state' = Set(state, t, "gone")
    /\ UNCHANGED <<lsn, chain, begin, end, sets, locals>>

SharedStep(t) ==
    \/ transaction(t) \/ oid_get_version(t) \/ serial_register_reader_tx(t)
    \/ Cleanup(t) \/ commit(t) \/ Stamp(t) \/ Committed(t) \/ uninitialize(t)

Finished == \A t \in Xct : at[t] \in {"committed", "aborted"}
-----------------------------------------------------------------------------
Survivors == {t \in Xct : at[t] \in {"access", "committed"}}

\* a must come before b: b read or overwrote a's version, or a read the
\* version that b overwrote.
Precedes(a, b) ==
    \E o \in Record : \E k \in DOMAIN chain[o] :
        \/ chain[o][k].by = a /\ <<o, k>> \in got[b]
        \/ chain[o][k].by = a /\ k < Len(chain[o]) /\ chain[o][k + 1].by = b
        \/ <<o, k>> \in got[a] /\ k < Len(chain[o]) /\ chain[o][k + 1].by = b

\* Some order of the committed transactions agrees with every dependency.
IsSerializable ==
    \E pos \in [Survivors -> 1..Cardinality(Survivors)] :
        \A a, b \in Survivors : a # b => pos[a] # pos[b] /\ (Precedes(a, b) => pos[a] < pos[b])
=============================================================================
