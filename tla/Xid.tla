-------------------------------- MODULE Xid ---------------------------------
(***************************************************************************)
(* The XID allocator (xid.cpp, xid.h): threads take a word of context bits *)
(* at a time from the bitmap of their epoch and hand out one context per   *)
(* transaction.  The epochs are those of EpochContract.                    *)
(*                                                                         *)
(*   data, widx   xid_bitmaps: a word is the set of contexts whose bit is  *)
(*                set; widx is the next word to take                       *)
(*   owner        xid_contexts[c].owner: the epoch of its XID (the local   *)
(*                part is c), 0 when there is none                         *)
(*   cache        xid_context_data of a thread: epoch and bitmap (base_id  *)
(*                is in the contexts themselves)                           *)
(*   e, i, w      locals of xid_alloc: epoch, word, and the word std::swap *)
(*                has loaded                                               *)
(*   live         the XID of the thread's transaction                      *)
(*   mutex        holder of xid_mutex                                      *)
(*   base         the main context of the worker of a preemptive context   *)
(*   paused       main contexts whose worker runs the preemptive context   *)
(*   issued, twice  history: every XID handed out, and whether one was     *)
(*                handed out again                                         *)
(***************************************************************************)
EXTENDS Integers, FiniteSets

CONSTANTS Thread,     \* the contexts: each has its own thread-local storage
          Bases,      \* who may preempt whom, see base
          NWORDS,     \* words of a bitmap
          BITS,       \* bits of a word
          MaxEpoch    \* bound: the epochs that are opened

VARIABLES current, inside, dead,
          data, widx, owner, cache, pc, e, i, w, live, mutex,
          base, paused, issued, twice

epochs == <<current, inside, dead>>
maps == <<data, widx, owner>>
locals == <<cache, e, i, w, live>>
history == <<base, issued, twice>>
vars == <<epochs, maps, locals, pc, mutex, paused, history>>

Epochs == INSTANCE EpochContract

NBITMAPS == 4
Half == NWORDS * BITS                  \* NCONTEXTS / 2
Context == 0..(2 * Half - 1)
Free == "free"
NoXid == <<0, 0>>
XID == (1..MaxEpoch) \X Context

\* The contexts of word k in the bitmaps of epoch ep: base_id and the bits above.
Word(ep, k) == {(ep % 2) * Half + k * BITS + b : b \in 0..(BITS - 1)}
WordOf(c) == (c \div BITS) % NWORDS

TypeOK ==
    /\ data \in [0..(NBITMAPS - 1) -> [0..(NWORDS - 1) -> SUBSET Context]]
    /\ widx \in [0..(NBITMAPS - 1) -> 0..NWORDS]
    /\ owner \in [Context -> 0..MaxEpoch]
    /\ cache \in [Thread -> [epoch : 0..MaxEpoch, bitmap : SUBSET Context]]
    /\ live \in [Thread -> XID \cup {NoXid}]
    /\ mutex \in Thread \cup {Free}
    /\ base \in Bases /\ paused \subseteq Thread
    /\ issued \subseteq XID
    /\ twice \in BOOLEAN

\* global_init fills the first row; context_registered clears the thread's cache.
Init ==
    /\ Epochs!Init
    /\ data = [m \in 0..(NBITMAPS - 1) |->
                 [k \in 0..(NWORDS - 1) |-> IF m < 2 THEN Word(m, k) ELSE {}]]
    /\ widx = [m \in 0..(NBITMAPS - 1) |-> 0]
    /\ owner = [c \in Context |-> 0]
    /\ cache = [t \in Thread |-> [epoch |-> 0, bitmap |-> {}]]
    /\ pc = [t \in Thread |-> "idle"]
    /\ e = [t \in Thread |-> 0] /\ i = [t \in Thread |-> 0] /\ w = [t \in Thread |-> {}]
    /\ live = [t \in Thread |-> NoXid]
    /\ mutex = Free
    /\ base \in Bases /\ paused = {}
    /\ issued = {} /\ twice = FALSE
-----------------------------------------------------------------------------
At(t, p) == pc[t] = p
Goto(t, p) == pc' = [pc EXCEPT ![t] = p]

\* while (not bitmap): enter the epoch ...
enter(t) ==
    /\ At(t, "idle") /\ live[t] = NoXid /\ cache[t].bitmap = {}
    /\ Epochs!Enter(t)
    /\ e' = [e EXCEPT ![t] = inside'[t]]
    /\ i' = [i EXCEPT ![t] = widx[e'[t] % NBITMAPS]]
    /\ Goto(t, "cas")
    /\ UNCHANGED <<maps, cache, w, live, mutex, paused, history>>

\* Mutant: reserve leaves the word to the next thread as well.
reserve_shared(t) ==
    /\ At(t, "cas")
    /\ LET m == e[t] % NBITMAPS IN
       IF i[t] = NWORDS
       THEN Goto(t, "overflow") /\ UNCHANGED <<widx, i>>
       ELSE IF widx[m] = i[t]
            THEN /\ UNCHANGED widx
                 /\ Goto(t, "load")
                 /\ UNCHANGED i
            ELSE i' = [i EXCEPT ![t] = widx[m]] /\ UNCHANGED <<pc, widx>>
    /\ UNCHANGED <<epochs, data, owner, cache, e, w, live, mutex, paused, history>>

\* ... and reserve a word of its bitmap, or notice that there is none left.
reserve(t) ==
    /\ At(t, "cas")
    /\ LET m == e[t] % NBITMAPS IN
       IF i[t] = NWORDS
       THEN Goto(t, "overflow") /\ UNCHANGED <<widx, i>>
       ELSE IF widx[m] = i[t]
            THEN /\ widx' = [widx EXCEPT ![m] = @ + 1]
                 /\ Goto(t, "load")
                 /\ UNCHANGED i
            ELSE i' = [i EXCEPT ![t] = widx[m]] /\ UNCHANGED <<pc, widx>>
    /\ UNCHANGED <<epochs, data, owner, cache, e, w, live, mutex, paused, history>>

\* std::swap(bitmap, b.data[i]) is a load and a store.
swap_load(t) ==
    /\ At(t, "load")
    /\ w' = [w EXCEPT ![t] = data[e[t] % NBITMAPS][i[t]]]
    /\ Goto(t, "store")
    /\ UNCHANGED <<epochs, maps, cache, e, i, live, mutex, paused, history>>

swap_store(t) ==
    /\ At(t, "store")
    /\ data' = [data EXCEPT ![e[t] % NBITMAPS][i[t]] = {}]
    /\ cache' = [cache EXCEPT ![t] = [epoch |-> e[t], bitmap |-> w[t]]]
    /\ w' = [w EXCEPT ![t] = {}]
    /\ Goto(t, "leave")
    /\ UNCHANGED <<epochs, widx, owner, e, i, live, mutex, paused, history>>

leave(t) ==
    /\ pc[t] \in {"leave", "overflow"}
    /\ Epochs!Leave(t)
    /\ Goto(t, IF At(t, "leave") THEN "idle" ELSE "lock")
    /\ UNCHANGED <<maps, locals, mutex, paused, history>>

\* Overflow: under xid_mutex, rewind the next bitmap ...
rewind(t) ==
    /\ At(t, "lock") /\ mutex = Free
    /\ IF e[t] = current
       THEN /\ widx' = [widx EXCEPT ![(e[t] + 1) % NBITMAPS] = 0]
            /\ mutex' = t
            /\ Goto(t, "open")
       ELSE Goto(t, "idle") /\ UNCHANGED <<widx, mutex>>
    /\ UNCHANGED <<epochs, data, owner, locals, paused, history>>

\* ... and wait until the next epoch can open.
open(t) ==
    /\ At(t, "open") /\ current < MaxEpoch
    /\ Epochs!Open
    /\ mutex' = Free
    /\ Goto(t, "idle")
    /\ UNCHANGED <<maps, locals, paused, history>>

take_one(t) ==
    /\ At(t, "idle") /\ live[t] = NoXid
    /\ \E c \in cache[t].bitmap :
         LET x == <<cache[t].epoch, c>> IN
         /\ \A d \in cache[t].bitmap : c <= d
         /\ cache' = [cache EXCEPT ![t].bitmap = @ \ {c}]
         /\ owner' = [owner EXCEPT ![c] = x[1]]
         /\ live' = [live EXCEPT ![t] = x]
         /\ issued' = issued \cup {x}
         /\ twice' = (twice \/ x \in issued)
    /\ UNCHANGED <<epochs, data, widx, pc, e, i, w, mutex, paused, base>>

\* xid_free: forget the owner, then set the bit in the bitmap of the XID's epoch.
xid_free(t) ==
    /\ At(t, "idle") /\ live[t] # NoXid
    /\ owner' = [owner EXCEPT ![live[t][2]] = 0]
    /\ Goto(t, "freed")
    /\ UNCHANGED <<epochs, data, widx, locals, mutex, paused, history>>

fetch_or(t) ==
    /\ At(t, "freed")
    /\ data' = [data EXCEPT ![live[t][1] % NBITMAPS][WordOf(live[t][2])] = @ \cup {live[t][2]}]
    /\ live' = [live EXCEPT ![t] = NoXid]
    /\ Goto(t, "idle")
    /\ UNCHANGED <<epochs, widx, owner, cache, e, i, w, mutex, paused, history>>

\* The epoch manager lets a closed epoch die; its callbacks do nothing here.
epoch_reclaimed ==
    /\ Epochs!Reclaim
    /\ UNCHANGED <<maps, locals, pc, mutex, paused, history>>

\* A user interrupt suspends a main context anywhere but where pcontext::lock
\* holds it off: from the overflow path on.
preempt(p) ==
    /\ base[p] \notin paused /\ ~At(base[p], "open")
    /\ paused' = paused \cup {base[p]}
    /\ UNCHANGED <<epochs, maps, locals, pc, mutex, history>>

\* The preemptive context is done and its worker returns to the main context.
resume(p) ==
    /\ base[p] \in paused /\ At(p, "idle") /\ live[p] = NoXid
    /\ paused' = paused \ {base[p]}
    /\ UNCHANGED <<epochs, maps, locals, pc, mutex, history>>

Running(t) == t \notin paused /\ (t \in DOMAIN base => base[t] \in paused)

Step(t) ==
    /\ Running(t)
    /\ \/ enter(t) \/ reserve(t) \/ swap_load(t) \/ swap_store(t) \/ leave(t)
       \/ rewind(t) \/ open(t) \/ take_one(t) \/ xid_free(t) \/ fetch_or(t)

Next ==
    \/ \E t \in Thread : Step(t)
    \/ \E p \in DOMAIN base : preempt(p) \/ resume(p)
    \/ epoch_reclaimed

Spec == Init /\ [][Next]_vars
-----------------------------------------------------------------------------
xid_get_context(x) == owner[x[2]] # 0 /\ owner[x[2]] >= x[1] /\ owner[x[2]] < x[1] + 3

\* "Request a new XID and an associated context. The former is globally unique
\* and the latter is distinct from any other transaction whose lifetime
\* overlaps with this one" (xid.h).
XidsAreUnique == ~twice

ContextsAreDistinct ==
    \A t \in Thread : \A u \in Thread \ {t} :
        /\ live[t] # NoXid => live[t][2] \notin ({live[u][2] : v \in {live[u]} \ {NoXid}}
                                                  \cup cache[u].bitmap)
        /\ cache[t].bitmap \cap cache[u].bitmap = {}

\* xid_get_context finds the context of an XID only while the XID owns it,
\* although it accepts the owners of three epochs.
GetContextIsExact == \A x \in issued : xid_get_context(x) => owner[x[2]] = x[1]

\* "If there are stragglers (highly unlikely) then sleep until they leave"
\* (xid_alloc): the wait for the next epoch ends.
StragglersLeave == \A t \in Thread : At(t, "open") ~> ~At(t, "open")

FairSpec == Spec /\ \A t \in Thread : WF_vars(Step(t)) /\ SF_vars(Running(t) /\ rewind(t))
                /\ \A p \in Thread : WF_vars(p \in DOMAIN base /\ resume(p))
                /\ WF_vars(epoch_reclaimed)

\* "Request a new XID and an associated context. The former is globally unique
\* and the latter is distinct from any other transaction whose lifetime
\* overlaps with this one" (xid.h), and the look-up finds it only meanwhile.
XidsAreExclusive ==
    /\ TypeOK
    /\ XidsAreUnique
    /\ ContextsAreDistinct
    /\ GetContextIsExact
=============================================================================
