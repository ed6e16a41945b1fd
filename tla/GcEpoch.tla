------------------------------ MODULE GcEpoch -------------------------------
(***************************************************************************)
(* The memory manager's use of the epochs (sm-alloc.cpp, and transaction's *)
(* constructor and uninitialize in txn.cc): which commit stamp the garbage *)
(* collector may use as its horizon.  Three epochs are alive at a time, so *)
(* the stamps are kept in rings of three.                                  *)
(*                                                                         *)
(*   csn          dlog::current_csn                                        *)
(*   begin, e     xc->begin and xc->begin_epoch of a thread's transaction, *)
(*                begin is -1 before it is read and outside                *)
(*   stop         the stamp s that epoch_exit is called with               *)
(*   pc           where the thread is                                      *)
(*   epoch_excl_begin_lsn, epoch_reclaim_lsn, gc_lsn, gc_epoch             *)
(*                                                                         *)
(* config::enable_gc and tls_alloc are on; the epochs are those of         *)
(* EpochContract, with every epoch reclaimed in turn.                      *)
(***************************************************************************)
EXTENDS Integers

CONSTANTS Thread,
          MaxEpoch,   \* bound: the epochs that are opened
          MaxCsn      \* bound: the commit stamps

VARIABLES current, inside, dead, csn, begin, e, stop, pc,
          epoch_excl_begin_lsn, epoch_reclaim_lsn, gc_lsn, gc_epoch

epochs == <<current, inside, dead>>
txn == <<begin, e, stop>>
gc == <<epoch_excl_begin_lsn, epoch_reclaim_lsn, gc_lsn, gc_epoch>>
vars == <<epochs, csn, txn, pc, gc>>

Epochs == INSTANCE EpochContract

TypeOK ==
    /\ csn \in 1..MaxCsn
    /\ begin \in [Thread -> -1..MaxCsn]
    /\ {gc_lsn, gc_epoch} \subseteq Nat
    /\ epoch_excl_begin_lsn \in [0..2 -> Nat]
    /\ epoch_reclaim_lsn \in [0..2 -> Nat]

Init ==
    /\ Epochs!Init
    /\ csn = 1
    /\ begin = [t \in Thread |-> -1]
    /\ e = [t \in Thread |-> 0] /\ stop = [t \in Thread |-> 0]
    /\ pc = [t \in Thread |-> "out"]
    /\ epoch_excl_begin_lsn = [i \in 0..2 |-> 0]
    /\ epoch_reclaim_lsn = [i \in 0..2 |-> 0]
    /\ gc_lsn = 0 /\ gc_epoch = 0

Moves(t, p, q) == pc[t] = p /\ pc' = [pc EXCEPT ![t] = q]

\* transaction::transaction: enter the epoch ...
epoch_enter(t) ==
    /\ Moves(t, "out", "entered")
    /\ Epochs!Enter(t)
    /\ e' = [e EXCEPT ![t] = inside'[t]]
    /\ UNCHANGED <<csn, begin, stop, gc>>

\* ... then read the begin stamp.
read_begin(t) ==
    /\ Moves(t, "entered", "active")
    /\ begin' = [begin EXCEPT ![t] = csn]
    /\ UNCHANGED <<epochs, csn, e, stop, gc>>

\* A transaction commits with a fresh stamp, or aborts without one.
finish(t) ==
    /\ Moves(t, "active", "exit")
    /\ \/ /\ csn < MaxCsn
          /\ csn' = csn + 1
          /\ stop' = [stop EXCEPT ![t] = csn]
       \/ stop' = [stop EXCEPT ![t] = 0] /\ UNCHANGED csn
    /\ UNCHANGED <<epochs, begin, e, gc>>

\* epoch_exit: a thread that allocated enough stores its stamp ...
store_stamp(t) ==
    /\ stop[t] # 0
    /\ Moves(t, "exit", "new_epoch")
    /\ epoch_excl_begin_lsn' = [epoch_excl_begin_lsn EXCEPT ![(e[t] + 1) % 3] = stop[t]]
    /\ UNCHANGED <<epochs, csn, txn, epoch_reclaim_lsn, gc_lsn, gc_epoch>>

\* ... and tries to open the next epoch, which may fail, ...
new_epoch(t) ==
    /\ Moves(t, "new_epoch", "leave")
    /\ \/ Epochs!Open /\ current < MaxEpoch
       \/ UNCHANGED epochs
    /\ UNCHANGED <<csn, txn, gc>>

\* ... before it leaves.
context_exit(t) ==
    /\ pc[t] \in {"exit", "leave"}
    /\ pc' = [pc EXCEPT ![t] = "out"]
    /\ Epochs!Leave(t)
    /\ begin' = [begin EXCEPT ![t] = -1]
    /\ stop' = [stop EXCEPT ![t] = 0]
    /\ UNCHANGED <<csn, e, gc>>

\* Mutant: the stamp is not kept until its epoch is collectable, and a
\* straggler may have replaced it.
reclaimed_uncopied ==
    /\ Epochs!Reclaim /\ dead' = dead + 1
    /\ LET n == dead' IN
       IF epoch_excl_begin_lsn[n % 3] = 0
       THEN UNCHANGED gc
       ELSE /\ gc_lsn' = IF n >= 2 THEN epoch_excl_begin_lsn[(n - 2) % 3] ELSE gc_lsn
            /\ gc_epoch' = IF n >= 2 THEN n - 2 ELSE gc_epoch
            /\ epoch_reclaim_lsn' =
                 [i \in 0..2 |-> CASE n >= 2 /\ i = (n - 2) % 3 -> 0
                                   [] i = n % 3 -> epoch_excl_begin_lsn[i]
                                   [] OTHER -> epoch_reclaim_lsn[i]]
            /\ UNCHANGED epoch_excl_begin_lsn
    /\ UNCHANGED <<csn, txn, pc>>

\* The callback of the epoch manager.
epoch_reclaimed ==
    /\ Epochs!Reclaim /\ dead' = dead + 1
    /\ LET n == dead' IN
       IF epoch_excl_begin_lsn[n % 3] = 0
       THEN UNCHANGED gc
       ELSE /\ gc_lsn' = IF n >= 2 THEN epoch_reclaim_lsn[(n - 2) % 3] ELSE gc_lsn
            /\ gc_epoch' = IF n >= 2 THEN n - 2 ELSE gc_epoch
            /\ epoch_reclaim_lsn' =
                 [i \in 0..2 |-> CASE n >= 2 /\ i = (n - 2) % 3 -> 0
                                   [] i = n % 3 -> epoch_excl_begin_lsn[i]
                                   [] OTHER -> epoch_reclaim_lsn[i]]
            /\ UNCHANGED epoch_excl_begin_lsn
    /\ UNCHANGED <<csn, txn, pc>>

Next ==
    \/ \E t \in Thread : \/ epoch_enter(t) \/ read_begin(t) \/ finish(t) \/ store_stamp(t)
                         \/ new_epoch(t) \/ context_exit(t)
    \/ epoch_reclaimed

Spec == Init /\ [][Next]_vars
-----------------------------------------------------------------------------
\* The collector's horizon is never above the begin stamp of a running
\* transaction, though stragglers store their stamps under old epochs: what it
\* could collect nobody can read any more (epoch_exit, epoch_reclaimed; "it
\* could also be set by somebody else ... so we're fine").
GcHorizonIsSafe == \A t \in Thread : begin[t] # -1 => gc_lsn <= begin[t]

\* A version created in the collectable epoch, or earlier, has no reader left.
GcEpochIsDead == \A t \in Thread : inside[t] # 0 /\ gc_epoch # 0 => gc_epoch + 2 < inside[t]

\* What the collector may take, by the horizon or by the epoch, no running
\* transaction can still read.
GcIsSafe ==
    /\ TypeOK
    /\ GcHorizonIsSafe
    /\ GcEpochIsDead
=============================================================================
