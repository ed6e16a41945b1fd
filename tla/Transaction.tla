---------------------------- MODULE Transaction -----------------------------
(***************************************************************************)
(* Transactions of preemptdb_si (txn.cc) over the version chains of one    *)
(* tuple array (sm-oid.cpp).  Every transaction runs once: NewTransaction, *)
(* reads, updates and inserts in any order, then Commit or Abort.          *)
(*                                                                         *)
(*   current_csn  the global commit sequence number                        *)
(*   xc           the XID context: state, snapshot, commit number, and     *)
(*                whether the context still belongs to the XID             *)
(*   entry, objs  the OID array (the head of every chain) and the versions *)
(*                ever created; MM::deallocate and gc_version_chain are    *)
(*                empty, so no version is reused                           *)
(*   indexed      the OIDs a key of the index leads to                     *)
(*   op           where the transaction is, and the locals of the          *)
(*                operation it is in                                       *)
(*                                                                         *)
(* Steps are single loads and stores of shared words, merged where nobody  *)
(* can tell.  The word csn of a version is asi with xid or csn; xid keeps  *)
(* its creator afterwards.  Remove is an update with an empty value.       *)
(***************************************************************************)
EXTENDS Integers, Sequences

CONSTANTS
    XID, OID,
    Fresh,         \* OIDs still to be allocated by an insert
    BlindUpdate,   \* whether callers update keys they did not read
    MaxOps         \* bound: operations of a transaction

ASSUME TransactionAssumption ==
    /\ Fresh \subseteq OID
    /\ BlindUpdate \in BOOLEAN
    /\ MaxOps \in Nat
    /\ "loader" \notin XID

VARIABLES current_csn, xc, write_set, entry, objs, indexed, op, reads

vars == <<current_csn, xc, write_set, entry, objs, indexed, op, reads>>
chain_vars == <<entry, objs>>

Loader == "loader"
None == "none"
State == {"none", "active", "committing", "cmmtd", "abrtd"}
PC == {"none", "idle", "r_head", "r_test", "r_wait", "u_head", "u_test",
       "u_wait", "u_cas", "u_fault", "i_index", "c_csn", "c_stamp", "abort",
       "a_mark", "a_unlink", "free", "done"}

Version == [asi : {"NULL", "XID", "CSN"}, xid : XID \cup {Loader}, csn : Nat,
            next : Nat]

TypeOK ==
    /\ current_csn \in Nat
    /\ xc \in [XID -> [state : State, owner : BOOLEAN, begin : Nat, end : Nat]]
    /\ write_set \in [XID -> Seq(OID)]
    /\ objs \in [OID -> Seq(Version)]
    /\ entry \in [OID -> Nat]
    /\ indexed \subseteq OID
    /\ op \in [XID -> [pc : PC, oid : OID \cup {None}, ptr : Nat, i : Nat,
                        left : 0..MaxOps]]
    /\ reads \in [XID -> SUBSET (OID \X Nat)]

Init ==
    /\ current_csn = 1
    /\ xc = [x \in XID |-> [state |-> "none", owner |-> FALSE, begin |-> 0, end |-> 0]]
    /\ write_set = [x \in XID |-> <<>>]
    /\ objs = [o \in OID |->
                  IF o \in Fresh THEN <<>>
                  ELSE <<[asi |-> "CSN", xid |-> Loader, csn |-> 0, next |-> 0]>>]
    /\ entry = [o \in OID |-> Len(objs[o])]
    /\ indexed = OID \ Fresh
    /\ op = [x \in XID |-> [pc |-> "none", oid |-> None, ptr |-> 0, i |-> 1,
                             left |-> MaxOps]]
    /\ reads = [x \in XID |-> {}]
-----------------------------------------------------------------------------
pc(x) == op[x].pc
begin(x) == xc[x].begin
cur_obj(x) == objs[op[x].oid][op[x].ptr]
Goto(x, p) == op' = [op EXCEPT ![x].pc = p]

\* transaction::transaction: xid_alloc and the snapshot.
NewTransaction(x) ==
    /\ pc(x) = "none"
    /\ xc' = [xc EXCEPT ![x] = [state |-> "active", owner |-> TRUE,
                                begin |-> current_csn, end |-> 0]]
    /\ Goto(x, "idle")
    /\ UNCHANGED <<current_csn, write_set, chain_vars, indexed, reads>>

\* The operation is over; `left' counts those the caller still makes.
Over(x) ==
    op' = [op EXCEPT ![x].pc = "idle", ![x].oid = None, ![x].ptr = 0,
                     ![x].left = @ - 1]

MoreCalls(x) == pc(x) = "idle" /\ op[x].left > 0
-----------------------------------------------------------------------------
(* GetRecord: the search of the index and oid_get_version.                 *)

\* A version of o, or the lack of one (i = 0), is what a read returns.
Return(x, o, i) ==
    /\ reads' = [reads EXCEPT ![x] = @ \cup {<<o, i>>}]
    /\ Over(x)

\* Go to version i of the chain; the end of the chain means no visible record.
Follow(x, o, i) ==
    IF i = 0
    THEN Return(x, o, 0)
    ELSE /\ op' = [op EXCEPT ![x].pc = "r_test", ![x].oid = o, ![x].ptr = i]
         /\ UNCHANGED reads

GetRecord(x) ==
    /\ MoreCalls(x)
    /\ \E o \in indexed : Follow(x, o, entry[o])
    /\ UNCHANGED <<current_csn, xc, write_set, chain_vars, indexed>>

r_start_over(x) ==
    /\ pc(x) = "r_head"
    /\ Follow(x, op[x].oid, entry[op[x].oid])
    /\ UNCHANGED <<current_csn, xc, write_set, chain_vars, indexed>>

Retry(x, p) == Goto(x, p) /\ UNCHANGED reads

\* Does a committed version carry a number the snapshot of x includes?
csn_visible(x, csn) == csn <= begin(x)
end_visible(x, end) == end < begin(x)

Pick(x, visible) ==
    IF visible THEN Return(x, op[x].oid, op[x].ptr)
    ELSE Follow(x, op[x].oid, cur_obj(x).next)

TestVisibility(x) ==
    /\ pc(x) = "r_test"
    /\ LET obj == cur_obj(x)
       IN  CASE obj.asi = "NULL" -> Retry(x, "r_head")
             [] obj.asi = "CSN" -> Pick(x, csn_visible(x, obj.csn))
             [] obj.asi = "XID" /\ obj.xid = x -> Pick(x, TRUE)
             [] obj.asi = "XID" /\ obj.xid # x -> Retry(x, "r_wait")
    /\ UNCHANGED <<current_csn, xc, write_set, chain_vars, indexed>>

\* Mutant: a holder that is committing is taken to be invisible.
r_no_wait(x) ==
    /\ pc(x) = "r_wait"
    /\ LET holder == xc[cur_obj(x).xid]
       IN  IF ~holder.owner
           THEN Retry(x, "r_head")
           ELSE Pick(x, holder.state = "cmmtd" /\ end_visible(x, holder.end))
    /\ UNCHANGED <<current_csn, xc, write_set, chain_vars, indexed>>

\* wait_for_commit: the context is read until the holder is not committing.
r_wait_for_commit(x) ==
    /\ pc(x) = "r_wait"
    /\ LET holder == xc[cur_obj(x).xid]
       IN  IF ~holder.owner
           THEN Retry(x, "r_head")
           ELSE /\ holder.state # "committing"
                /\ Pick(x, holder.state = "cmmtd" /\ end_visible(x, holder.end))
    /\ UNCHANGED <<current_csn, xc, write_set, chain_vars, indexed>>
-----------------------------------------------------------------------------
(* UpdateRecord: the search of the index and UpdateTuple.                  *)

\* ASSERT(old_desc): the code dereferences the head without looking.
Probe(x, o) ==
    op' = [op EXCEPT ![x].pc = IF entry[o] = 0 THEN "u_fault" ELSE "u_test",
                     ![x].oid = o, ![x].ptr = entry[o]]

Found(x, o) == \E i \in 1..Len(objs[o]) : <<o, i>> \in reads[x]

UpdateRecord(x) ==
    /\ MoreCalls(x)
    /\ \E o \in indexed : (BlindUpdate \/ Found(x, o)) /\ Probe(x, o)
    /\ UNCHANGED <<current_csn, xc, write_set, chain_vars, indexed, reads>>

u_start_over(x) ==
    /\ pc(x) = "u_head"
    /\ Probe(x, op[x].oid)
    /\ UNCHANGED <<current_csn, xc, write_set, chain_vars, indexed, reads>>

\* Mutant: the version committed with the snapshot's own number is overwritten.
overwritable_inclusive(x, csn) == csn <= begin(x)

\* First updater wins: the newest version must be older than the snapshot.
overwritable(x, csn) == csn < begin(x)

\* A new version of o by x, in front of `next'.
Link(x, o, next) ==
    /\ objs' = [objs EXCEPT ![o] =
           Append(@, [asi |-> "XID", xid |-> x, csn |-> 0, next |-> next])]
    /\ entry' = [entry EXCEPT ![o] = Len(objs[o]) + 1]

\* RC_ABORT_SI_CONFLICT, upon which the caller aborts.
Conflict(x) ==
    /\ op' = [op EXCEPT ![x].pc = "abort", ![x].oid = None, ![x].ptr = 0]
    /\ UNCHANGED chain_vars

Keep(x, p) == Goto(x, p) /\ UNCHANGED chain_vars

u_test(x) ==
    /\ pc(x) = "u_test"
    /\ LET obj == cur_obj(x)
       IN  CASE obj.asi = "NULL" -> Keep(x, "u_head")
             [] obj.asi = "CSN" ->
                   IF overwritable(x, obj.csn) THEN Keep(x, "u_cas") ELSE Conflict(x)
             [] obj.asi = "XID" /\ obj.xid = x ->
                   Link(x, op[x].oid, obj.next) /\ Over(x)
             [] obj.asi = "XID" /\ obj.xid # x -> Keep(x, "u_wait")
    /\ UNCHANGED <<current_csn, xc, write_set, indexed, reads>>

u_wait_for_commit(x) ==
    /\ pc(x) = "u_wait"
    /\ LET holder == xc[cur_obj(x).xid]
       IN  IF ~holder.owner
           THEN Keep(x, "u_head")
           ELSE /\ holder.state # "committing"
                /\ IF holder.state = "cmmtd" /\ overwritable(x, holder.end)
                   THEN Keep(x, "u_cas")
                   ELSE Conflict(x)
    /\ UNCHANGED <<current_csn, xc, write_set, indexed, reads>>

\* Mutant: the head is stored without comparing it.
u_store(x) ==
    /\ pc(x) = "u_cas"
    /\ Link(x, op[x].oid, op[x].ptr)
    /\ write_set' = [write_set EXCEPT ![x] = Append(@, op[x].oid)]
    /\ Over(x)
    /\ UNCHANGED <<current_csn, xc, indexed, reads>>

\* The compare-and-swap of the head, and add_to_write_set.
u_cas(x) ==
    LET o == op[x].oid
    IN  /\ pc(x) = "u_cas"
        /\ IF entry[o] = op[x].ptr
           THEN /\ Link(x, o, op[x].ptr)
                /\ write_set' = [write_set EXCEPT ![x] = Append(@, o)]
                /\ Over(x)
           ELSE Conflict(x) /\ UNCHANGED write_set
        /\ UNCHANGED <<current_csn, xc, indexed, reads>>
-----------------------------------------------------------------------------
(* InsertRecord: the table first, then the index.                          *)

Insert(x) ==
    /\ MoreCalls(x)
    /\ \E o \in Fresh :
          /\ objs[o] = <<>>
          /\ Link(x, o, 0)
          /\ write_set' = [write_set EXCEPT ![x] = Append(@, o)]
          /\ op' = [op EXCEPT ![x].pc = "i_index", ![x].oid = o]
    /\ UNCHANGED <<current_csn, xc, indexed, reads>>

\* InsertIfAbsent; it fails with RC_ABORT_INTERNAL when the key is taken.
InsertOID(x) ==
    /\ pc(x) = "i_index"
    /\ \/ Over(x) /\ indexed' = indexed \cup {op[x].oid}
       \/ Goto(x, "abort") /\ UNCHANGED indexed
    /\ UNCHANGED <<current_csn, xc, write_set, chain_vars, reads>>
-----------------------------------------------------------------------------
(* transaction::commit with si_commit, transaction::Abort, uninitialize.   *)

commit(x) ==
    /\ pc(x) = "idle"
    /\ xc' = [xc EXCEPT ![x].state = "committing"]
    /\ Goto(x, "c_csn")
    /\ UNCHANGED <<current_csn, write_set, chain_vars, indexed, reads>>

c_csn(x) ==
    /\ pc(x) = "c_csn"
    /\ IF write_set[x] # <<>>
       THEN /\ xc' = [xc EXCEPT ![x].end = current_csn]
            /\ current_csn' = current_csn + 1
       ELSE /\ xc' = [xc EXCEPT ![x].end = begin(x)]
            /\ UNCHANGED current_csn
    /\ Goto(x, "c_stamp")
    /\ UNCHANGED <<write_set, chain_vars, indexed, reads>>

\* One iteration of a loop over the write set goes from p to q ...
Iterate(x, p, q) ==
    /\ pc(x) = p
    /\ op[x].i <= Len(write_set[x])
    /\ op' = [op EXCEPT ![x].pc = q, ![x].i = IF p = q \/ p = "a_unlink" THEN @ + 1 ELSE @]

\* ... on the version at the head of the chain of this OID.
target(x) == write_set[x][op[x].i]

Mark(o, asi, csn) ==
    objs' = [objs EXCEPT ![o][entry[o]].asi = asi, ![o][entry[o]].csn = csn]

c_stamp(x) ==
    /\ Iterate(x, "c_stamp", "c_stamp")
    /\ Mark(target(x), "CSN", xc[x].end)
    /\ UNCHANGED <<current_csn, xc, write_set, entry, indexed, reads>>

c_done(x) ==
    /\ pc(x) = "c_stamp"
    /\ op[x].i > Len(write_set[x])
    /\ xc' = [xc EXCEPT ![x].state = "cmmtd"]
    /\ Goto(x, "free")
    /\ UNCHANGED <<current_csn, write_set, chain_vars, indexed, reads>>

\* The caller gives up, or an operation failed.
Abort(x) ==
    /\ pc(x) \in {"idle", "abort"}
    /\ xc' = [xc EXCEPT ![x].state = "abrtd"]
    /\ Goto(x, "a_mark")
    /\ UNCHANGED <<current_csn, write_set, chain_vars, indexed, reads>>

a_mark(x) ==
    /\ Iterate(x, "a_mark", "a_unlink")
    /\ Mark(target(x), "NULL", 0)
    /\ UNCHANGED <<current_csn, xc, write_set, entry, indexed, reads>>

\* Mutants: the aborted version stays at the head; the whole chain is dropped.
Unlink_nothing(x) ==
    /\ Iterate(x, "a_unlink", "a_mark")
    /\ UNCHANGED <<current_csn, xc, write_set, chain_vars, indexed, reads>>


UnlinkTuple(x) ==
    LET o == target(x)
    IN  /\ Iterate(x, "a_unlink", "a_mark")
        /\ entry' = [entry EXCEPT ![o] = objs[o][@].next]
        /\ UNCHANGED <<current_csn, xc, write_set, objs, indexed, reads>>

\* uninitialize, after commit and Abort: xid_free clears the owner of the context.
xid_free(x) ==
    /\ \/ pc(x) = "free"
       \/ pc(x) = "a_mark" /\ op[x].i > Len(write_set[x])
    /\ xc' = [xc EXCEPT ![x].owner = FALSE]
    /\ Goto(x, "done")
    /\ UNCHANGED <<current_csn, write_set, chain_vars, indexed, reads>>
-----------------------------------------------------------------------------
Operation(x) ==
    \/ r_start_over(x) \/ TestVisibility(x) \/ r_wait_for_commit(x)
    \/ u_start_over(x) \/ u_test(x) \/ u_wait_for_commit(x) \/ u_cas(x)
    \/ InsertOID(x)
    \/ c_csn(x) \/ c_stamp(x) \/ c_done(x)
    \/ a_mark(x) \/ UnlinkTuple(x) \/ xid_free(x)

\* What the caller decides to do.
Caller(x) ==
    \/ NewTransaction(x) \/ GetRecord(x) \/ UpdateRecord(x) \/ Insert(x)
    \/ commit(x) \/ Abort(x)

Finished ==
    /\ \A x \in XID : pc(x) \in {"done", "u_fault"}
    /\ UNCHANGED vars

Next ==
    \/ \E x \in XID : Operation(x) \/ Caller(x)
    \/ Finished

Spec == Init /\ [][Next]_vars

\* Every core goes on executing, and every caller ends its transaction.
Fairness ==
    \A x \in XID : WF_vars(Operation(x)) /\ WF_vars(commit(x) \/ Abort(x))

FairSpec == Spec /\ Fairness
-----------------------------------------------------------------------------
(* Safety.                                                                 *)

Precommitted(x) == xc[x].state \in {"committing", "cmmtd"} /\ xc[x].end > 0
Wrote(x, o) == \E i \in 1..Len(write_set[x]) : write_set[x][i] = o

\* First updater wins: two transactions that both get a commit number and wrote
\* the same record did not overlap, so no update is lost.
NoLostUpdate ==
    \A x, y \in XID, o \in OID :
        /\ x # y
        /\ Precommitted(x) /\ Precommitted(y)
        /\ Wrote(x, o) /\ Wrote(y, o)
        => xc[x].end < begin(y) \/ xc[y].end < begin(x)

\* Only the head of a chain may be uncommitted, and the commit numbers fall
\* along it (the assertion in TestVisibility, and what a reader that stops at
\* the first visible version relies on).  The chain is the versions that a
\* reader at the head can reach.
ChainOrdered ==
    \A o \in OID : \A i \in 1..Len(objs[o]) :
        LET v == objs[o][i]
        IN  v.next # 0 =>
              /\ v.next < i
              /\ objs[o][v.next].asi = "CSN"
              /\ v.asi = "CSN" => objs[o][v.next].csn < v.csn

\* The committed versions of o that were stamped below csn s.
Before(o, s) ==
    {i \in 1..Len(objs[o]) : objs[o][i].asi = "CSN" /\ objs[o][i].csn < s}

Newest(o, s, i) ==
    IF i = 0
    THEN Before(o, s) = {}
    ELSE i \in Before(o, s) /\ \A j \in Before(o, s) : objs[o][j].csn <= objs[o][i].csn

ReadOthers(x) ==
    {r \in reads[x] : r[2] = 0 \/ objs[r[1]][r[2]].xid # x}

\* A read returns committed data only, nothing newer than the snapshot's own
\* number, and never misses what was committed before the snapshot: a writer
\* that took its number earlier is waited for (wait_for_commit).
ReadsCommitted ==
    \A x \in XID : \A r \in ReadOthers(x) :
        Newest(r[1], begin(x), r[2]) \/ Newest(r[1], begin(x) + 1, r[2])

\* All reads of a transaction come from one snapshot.
SnapshotReads ==
    \A x \in XID : \E s \in {begin(x), begin(x) + 1} :
        \A r \in ReadOthers(x) : Newest(r[1], s, r[2])


(* Liveness.                                                               *)

Active(x) == xc[x].state = "active"
Ended(x) == pc(x) = "done"

\* Every transaction ends: no operation spins for ever, neither on a
\* committing holder nor on a version that is being unlinked.
TransactionsEnd == \A x \in XID : Active(x) ~> Ended(x)
=============================================================================
