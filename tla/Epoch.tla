------------------------------- MODULE Epoch --------------------------------
(***************************************************************************)
(* The epoch manager (epoch.cpp): threads enter and leave epochs without a *)
(* lock; whoever opens epoch N+1 flags the threads still in epoch N-1, and *)
(* the last of them to leave lets the next epoch open.                     *)
(*                                                                         *)
(*   begin, end   private_state::begin and end, the epoch and how far its  *)
(*                change has come                                          *)
(*   ready        ready_for_safe_point                                     *)
(*   cooling,cold the cookies of the last two epochs; a cookie is the      *)
(*                number of the epoch it was made for, 0 is null           *)
(*   cls          context_state of every thread                            *)
(*   pc, tmp, ret where a thread is, the epoch it read, and where the      *)
(*                straggler protocol it is in returns to                   *)
(*   todo, looked, found  new_epoch: contexts still to visit, the one at   *)
(*                hand, the stragglers found so far                        *)
(*   reclaimed    history: the epochs given to cb.epoch_reclaimed          *)
(*                                                                         *)
(* A step holds at most one load or store of a word that another thread    *)
(* may use at that moment; stores are seen in program order.  The mutex is *)
(* an mcs_lock (McsLock.tla); mutex is its holder.                         *)
(***************************************************************************)
EXTENDS Integers, Sequences, FiniteSets, SequencesExt

CONSTANTS Thread,
          MaxEpoch    \* bound: the epochs that are opened

VARIABLES begin, end, ready, nstragglers, cooling, cold, contexts, mutex,
          cls, pc, tmp, ret, todo, looked, found, reclaimed

glob == <<begin, end, ready, nstragglers, cooling, cold, contexts, mutex>>
scan == <<todo, looked, found>>
vars == <<glob, cls, pc, tmp, ret, scan, reclaimed>>

Free == "free"
NoThread == "none"
PC == {"none", "out", "in", "gone", "e_read", "e_end", "e_begin", "e_check", "e_flag",
       "e_bail", "e_slow", "s_check", "s_lock", "s_flag", "s_ended", "q_reclaim",
       "x_end", "x_race", "n_lock", "n_scan", "n_look", "n_flag"}

TypeOK ==
    /\ {begin, end, nstragglers, cooling, cold} \subseteq Nat
    /\ ready \in BOOLEAN
    /\ contexts \subseteq Thread
    /\ mutex \in Thread \cup {Free}
    /\ cls \in [Thread -> [begin : Nat, end : Nat, straggler : BOOLEAN]]
    /\ pc \in [Thread -> PC]
    /\ tmp \in [Thread -> Nat]
    /\ ret \in [Thread -> {"out", "in", "e_read"}]
    /\ todo \subseteq Thread /\ found \subseteq Thread
    /\ looked \in Thread \cup {NoThread}
    /\ reclaimed \in Seq(Nat)

Init ==
    /\ begin = 1 /\ end = 1
    /\ ready = TRUE
    /\ nstragglers = 0
    /\ cooling = 0 /\ cold = 0
    /\ contexts = {}
    /\ mutex = Free
    /\ cls = [t \in Thread |-> [begin |-> 0, end |-> 0, straggler |-> FALSE]]
    /\ pc = [t \in Thread |-> "none"]
    /\ tmp = [t \in Thread |-> 0]
    /\ ret = [t \in Thread |-> "out"]
    /\ todo = {} /\ found = {} /\ looked = NoThread
    /\ reclaimed = <<>>
-----------------------------------------------------------------------------
At(t, p) == pc[t] = p
Goto(t, p) == pc' = [pc EXCEPT ![t] = p]
Returns(t, p) == ret' = [ret EXCEPT ![t] = p]
Reads(t, v) == tmp' = [tmp EXCEPT ![t] = v]
Stores(t, field, v) == cls' = [cls EXCEPT ![t][field] = v]
-----------------------------------------------------------------------------
(* Registration.                                                           *)

context_init(t) ==
    /\ At(t, "none") /\ mutex = Free
    /\ contexts' = contexts \cup {t}
    /\ Goto(t, "out")
    /\ UNCHANGED <<begin, end, ready, nstragglers, cooling, cold, mutex, cls, tmp, ret,
                   scan, reclaimed>>

\* A thread that is inside leaves first (context_exit).  The last one ends the
\* active epoch and reclaims it together with the cooling one.
context_fini(t) ==
    /\ At(t, "out") /\ mutex = Free
    /\ contexts' = contexts \ {t}
    /\ IF contexts' = {}
       THEN /\ begin' = begin + 1 /\ end' = begin + 1
            /\ cooling' = 0
            /\ reclaimed' = reclaimed \o SelectSeq(<<cooling, begin>>, LAMBDA c : c # 0)
       ELSE UNCHANGED <<begin, end, cooling, reclaimed>>
    /\ Goto(t, "gone")
    /\ UNCHANGED <<ready, nstragglers, cold, mutex, cls, tmp, ret, scan>>
-----------------------------------------------------------------------------
(* context_enter.                                                          *)

\* tmp = state->begin: at the call ("out") and after "goto retry" ("e_read").
context_enter(t, p) ==
    /\ At(t, p)
    /\ Reads(t, begin)
    /\ Goto(t, "e_end")
    /\ UNCHANGED <<glob, cls, ret, scan, reclaimed>>

e_end(t) ==
    /\ At(t, "e_end")
    /\ Stores(t, "end", 0)
    /\ Goto(t, "e_begin")
    /\ UNCHANGED <<glob, tmp, ret, scan, reclaimed>>

e_begin(t) ==
    /\ At(t, "e_begin")
    /\ Stores(t, "begin", tmp[t])
    /\ Goto(t, "e_check")
    /\ UNCHANGED <<glob, tmp, ret, scan, reclaimed>>

\* The second look at state->begin (tmp2).
e_check(t) ==
    /\ At(t, "e_check")
    /\ Reads(t, begin)
    /\ Goto(t, CASE begin - tmp[t] \in {0, 1} -> "e_flag"
                 [] begin - tmp[t] = 2 -> "e_bail"
                 [] OTHER -> "e_slow")
    /\ UNCHANGED <<glob, cls, ret, scan, reclaimed>>

e_flag(t) ==
    /\ At(t, "e_flag")
    /\ Goto(t, IF cls[t].straggler THEN "e_bail" ELSE "in")
    /\ UNCHANGED <<glob, cls, tmp, ret, scan, reclaimed>>

\* Leave again, through the straggler protocol or (e_slow) not, and retry.
e_bail(t) ==
    /\ pc[t] \in {"e_bail", "e_slow"}
    /\ Stores(t, "end", tmp[t])
    /\ Returns(t, "e_read")
    /\ Goto(t, IF pc[t] = "e_bail" THEN "s_check" ELSE "e_read")
    /\ UNCHANGED <<glob, tmp, scan, reclaimed>>
-----------------------------------------------------------------------------
(* straggler_check, straggler_ended, global_quiesce.                       *)

s_check(t) ==
    /\ At(t, "s_check")
    /\ Goto(t, IF end < tmp[t] THEN "s_lock" ELSE "s_flag")
    /\ UNCHANGED <<glob, cls, tmp, ret, scan, reclaimed>>

s_lock(t) ==
    /\ At(t, "s_lock") /\ mutex = Free
    /\ Goto(t, "s_flag")
    /\ UNCHANGED <<glob, cls, tmp, ret, scan, reclaimed>>

s_flag(t) ==
    /\ At(t, "s_flag")
    /\ Stores(t, "straggler", FALSE)
    /\ Goto(t, IF cls[t].straggler THEN "s_ended" ELSE ret[t])
    /\ UNCHANGED <<glob, tmp, ret, scan, reclaimed>>

s_ended(t) ==
    /\ At(t, "s_ended")
    /\ nstragglers' = nstragglers - 1
    /\ Goto(t, IF nstragglers' = 0 THEN "q_reclaim" ELSE ret[t])
    /\ UNCHANGED <<begin, end, ready, cooling, cold, contexts, mutex, cls, tmp, ret, scan,
                   reclaimed>>

\* global_quiesce: hand the cold cookie to the callback, let the next epoch open.
global_quiesce(t) ==
    /\ At(t, "q_reclaim")
    /\ cold' = 0
    /\ reclaimed' = IF cold # 0 THEN Append(reclaimed, cold) ELSE reclaimed
    /\ ready' = TRUE
    /\ Goto(t, ret[t])
    /\ UNCHANGED <<begin, end, nstragglers, cooling, contexts, mutex, cls, tmp, ret, scan>>
-----------------------------------------------------------------------------
(* context_exit and context_quiesce.                                       *)

context_exit(t) ==
    /\ At(t, "in")
    /\ Reads(t, begin)
    /\ Returns(t, "out")
    /\ Goto(t, "x_end")
    /\ UNCHANGED <<glob, cls, scan, reclaimed>>

x_end(t) ==
    /\ At(t, "x_end")
    /\ Stores(t, "end", tmp[t])
    /\ Goto(t, IF tmp[t] < cls[t].begin + 2 THEN "x_race" ELSE "s_check")
    /\ UNCHANGED <<glob, tmp, ret, scan, reclaimed>>

x_race(t) ==
    /\ At(t, "x_race")
    /\ Reads(t, end)
    /\ Goto(t, IF end < cls[t].begin + 2 THEN "out" ELSE "s_check")
    /\ UNCHANGED <<glob, cls, ret, scan, reclaimed>>

\* Mutant: context_quiesce tells nobody that a straggler has ended.
quiesce_silent(t) ==
    /\ At(t, "in") /\ cls[t].straggler
    /\ cls' = [cls EXCEPT ![t] = [begin |-> begin, end |-> 0, straggler |-> FALSE]]
    /\ Returns(t, "in")
    /\ Goto(t, "in")
    /\ UNCHANGED <<glob, tmp, scan, reclaimed>>

\* No epoch opens before straggler_ended, so the three stores are one step.
context_quiesce(t) ==
    /\ At(t, "in") /\ cls[t].straggler
    /\ cls' = [cls EXCEPT ![t] = [begin |-> begin, end |-> 0, straggler |-> FALSE]]
    /\ Returns(t, "in")
    /\ Goto(t, "s_ended")
    /\ UNCHANGED <<glob, tmp, scan, reclaimed>>
-----------------------------------------------------------------------------
(* new_epoch, called from inside (MM::epoch_exit) or outside (xid_alloc).  *)

new_epoch(t) ==
    /\ pc[t] \in {"in", "out"} /\ begin < MaxEpoch
    /\ Returns(t, pc[t])
    /\ Goto(t, "n_lock")
    /\ UNCHANGED <<glob, cls, tmp, scan, reclaimed>>

\* Take the mutex and open epoch N + 1, unless an epoch is still closing.
n_open(t) ==
    /\ At(t, "n_lock") /\ mutex = Free
    /\ IF ready
       THEN /\ begin < MaxEpoch
            /\ mutex' = t
            /\ begin' = begin + 1
            /\ ready' = FALSE
            /\ todo' = contexts /\ found' = {}
            /\ Goto(t, "n_scan")
       ELSE Goto(t, ret[t]) /\ UNCHANGED <<mutex, begin, ready, todo, found>>
    /\ UNCHANGED <<end, nstragglers, cooling, cold, contexts, cls, tmp, ret, looked,
                   reclaimed>>

\* The loop over the contexts: look at begin of one of them ...
n_scan(t) ==
    /\ At(t, "n_scan")
    /\ \E u \in todo :
         /\ todo' = todo \ {u}
         /\ IF cls[u].begin = begin - 2
            THEN looked' = u /\ Goto(t, "n_look")
            ELSE UNCHANGED <<looked, pc>>
    /\ UNCHANGED <<glob, cls, tmp, ret, found, reclaimed>>

\* ... and, when that is the epoch before the last, at its end.
n_look(t) ==
    /\ At(t, "n_look")
    /\ found' = IF begin - 2 > cls[looked].end THEN found \cup {looked} ELSE found
    /\ looked' = NoThread
    /\ Goto(t, "n_scan")
    /\ UNCHANGED <<glob, cls, tmp, ret, todo, reclaimed>>

n_cookies(t) ==
    /\ At(t, "n_scan") /\ todo = {}
    /\ cold' = cooling
    /\ cooling' = begin - 1
    /\ nstragglers' = IF found # {} THEN Cardinality(found) ELSE nstragglers
    /\ todo' = found
    /\ Goto(t, "n_flag")
    /\ UNCHANGED <<begin, end, ready, contexts, mutex, cls, tmp, ret, looked, found,
                   reclaimed>>

n_flag(t) ==
    /\ At(t, "n_flag")
    /\ \E u \in todo : todo' = todo \ {u} /\ Stores(u, "straggler", TRUE)
    /\ UNCHANGED <<glob, pc, tmp, ret, looked, found, reclaimed>>

\* Mutant: the thread reclaims although stragglers are left.
n_end_hasty(t) ==
    /\ At(t, "n_flag") /\ todo = {}
    /\ end' = begin
    /\ mutex' = Free
    /\ found' = {}
    /\ Goto(t, "q_reclaim")
    /\ UNCHANGED <<begin, ready, nstragglers, cooling, cold, contexts, cls, tmp, ret, todo,
                   looked, reclaimed>>

\* The mutex is released; with no stragglers this thread reclaims the cold epoch.
n_end(t) ==
    /\ At(t, "n_flag") /\ todo = {}
    /\ end' = begin
    /\ mutex' = Free
    /\ found' = {}
    /\ Goto(t, IF found = {} THEN "q_reclaim" ELSE ret[t])
    /\ UNCHANGED <<begin, ready, nstragglers, cooling, cold, contexts, cls, tmp, ret, todo,
                   looked, reclaimed>>
-----------------------------------------------------------------------------
Calls(t) ==
    \/ context_init(t) \/ context_fini(t) \/ context_enter(t, "out")
    \/ context_quiesce(t) \/ new_epoch(t)

\* What a thread does once it has made its call; it leaves what it entered.
Step(t) ==
    \/ context_enter(t, "e_read") \/ e_end(t) \/ e_begin(t) \/ e_check(t) \/ e_flag(t)
    \/ e_bail(t) \/ s_check(t) \/ s_lock(t) \/ s_flag(t) \/ s_ended(t)
    \/ global_quiesce(t) \/ context_exit(t) \/ x_end(t) \/ x_race(t)
    \/ n_open(t) \/ n_scan(t) \/ n_look(t) \/ n_cookies(t) \/ n_flag(t) \/ n_end(t)

Next == \E t \in Thread : Calls(t) \/ Step(t)

Spec == Init /\ [][Next]_vars
-----------------------------------------------------------------------------
Inside(t) == pc[t] \in {"in", "x_end"} \/ ret[t] = "in"

\* What the manager promises (EpochContract.tla).
Contract == INSTANCE EpochContract WITH
    current <- begin,
    inside <- [t \in Thread |-> IF Inside(t) THEN cls[t].begin ELSE 0],
    dead <- IF reclaimed = <<>> THEN 0 ELSE Last(reclaimed)

ImplementsContract == Contract!Spec

\* An epoch that is closing will be closed: somebody is on its way to
\* global_quiesce, or nstragglers contexts carry the flag that takes the last of
\* them there (new_epoch, straggler_ended; context_enter retries when flagged).
StragglersAccounted ==
    (~ready /\ mutex = Free) =>
        \/ \E t \in Thread : At(t, "q_reclaim")
        \/ /\ nstragglers > 0
           /\ nstragglers = Cardinality({t \in Thread : cls[t].straggler \/ At(t, "s_ended")})

\* Never is a cookie lost: epochs are reclaimed one by one, in order, while no
\* thread has deregistered (new_epoch, "Epoch N-2 is already dead").
NoCookieLost ==
    (\A t \in Thread : pc[t] # "gone") => \A i \in 1..Len(reclaimed) : reclaimed[i] = i

\* "There cannot currently be a cold epoch, because there can be no
\* stragglers after the last thread leaves" (context_fini, and its ASSERT).
NoColdEpochLeft == (contexts = {} /\ \E t \in Thread : pc[t] = "gone") => cold = 0

\* Epochs are closed and reclaimed, each one and in order: what the context
\* words and nstragglers say of the stragglers agrees at every step of
\* new_epoch, context_enter and context_quiesce.
EpochsAreAccounted ==
    /\ TypeOK
    /\ StragglersAccounted
    /\ NoCookieLost
=============================================================================
