------------------------------ MODULE Masstree ------------------------------
(***************************************************************************)
(* The index: lookups without locks against inserts that lock nodes, split *)
(* leaves and internodes and create layers (masstree_struct.hh,            *)
(* masstree_get.hh, masstree_insert.hh, masstree_split.hh,                 *)
(* btree_leaflink.hh, and search and insert_if_absent of                   *)
(* masstree_btree.h).                                                      *)
(*                                                                         *)
(*   node, used   the heap of nodes and how many are allocated; memory of  *)
(*                nodes is never reused (deallocate is empty)              *)
(*   root         basic_table::root_                                       *)
(*   pc, c        where a thread is, and its local variables               *)
(*   plock        the preemption lock count of its context                 *)
(*   active       the preemptive contexts that have taken over their core  *)
(*   map          history: the keys in the tree and their OIDs             *)
(*   legal        history: the answers a lookup in progress may give       *)
(*   miss         the last failed lookup of each thread: key, leaf and     *)
(*                full version (search_info, kept in masstree_absent_set)  *)
(*   todo         the calls each thread has still to make                  *)
(*                                                                         *)
(* A step reads or writes one node under the protocol's rules: the loads   *)
(* of a search in a node are one step, the version is checked in another;  *)
(* between mark_insert or mark_split and unlock every store that lock-free *)
(* readers can reach is a step.  Loads and stores are in program order.    *)
(***************************************************************************)
EXTENDS MasstreeNode, TLC

CONSTANTS Thread,
          Base,       \* the main context of each preemptive context
          Plans,      \* the calls that each thread may make, in order
          Dead,       \* OIDs whose version chain is empty (the insert was aborted)
          MaxNode

VARIABLES node, used, root, pc, c, plock, active, map, legal, miss, todo
vars == <<node, used, root, pc, c, plock, active, map, legal, miss, todo>>

Loader == CHOOSE t \in Thread : t \notin DOMAIN Base
Fresh == used + 1

Idle == [op |-> "none", key |-> <<1>>, ka |-> <<1>>, rt |-> 0, n |-> 0, v |-> NewVersion(TRUE),
         kid |-> 0, perm |-> make_sorted(0), i |-> 0, p |-> -1, lv |-> <<>>, match |-> 0,
         sn |-> 0, child |-> 0, xk |-> 0, stype |-> 0, par |-> 0, nchild |-> 0, nxk |-> 0,
         ans |-> <<>>, load |-> FALSE]

Init ==
    /\ node = [x \in 1..MaxNode |-> make_root] /\ used = 1 /\ root = 1
    /\ pc = [t \in Thread |-> "idle"] /\ c = [t \in Thread |-> Idle]
    /\ plock = [t \in Thread |-> 0] /\ active = {}
    /\ map = <<>> /\ legal = [t \in Thread |-> {}] /\ miss = [t \in Thread |-> <<>>]
    /\ todo \in Plans
-----------------------------------------------------------------------------
(* Scheduling: a context runs unless it has been preempted or has not yet  *)
(* been switched to; preemption needs a lock count of 0.                   *)

\* The calls "load" of one thread fill the tree before the others start.
Loaded == ~c[Loader].load /\ (todo[Loader] # <<>> => Head(todo[Loader]).op # "load")

Runs(t) == IF t \in DOMAIN Base THEN t \in active
           ELSE \A p \in active : Base[p] # t

At(t, l) == pc[t] = l /\ Runs(t)
Go(t, l) == pc' = [pc EXCEPT ![t] = l]
Set(t, r) == c' = [c EXCEPT ![t] = r]

LookupIn(m, k) == IF k \in DOMAIN m THEN m[k] ELSE <<>>

\* Every step that changes the map adds its answer to the lookups in progress.
Track == legal' = [t \in Thread |->
             IF c[t].op = "get" THEN legal[t] \cup {LookupIn(map', c[t].key)} ELSE legal[t]]
Keep == UNCHANGED <<used, root, plock, active, map, legal, miss, todo>>
Read == Keep /\ UNCHANGED node

preempt(p) ==
    /\ p \in DOMAIN Base /\ p \notin active /\ todo[p] # <<>> /\ Loaded
    /\ plock[Base[p]] = 0 /\ Base[p] \notin DOMAIN Base
    /\ active' = active \cup {p}
    /\ UNCHANGED <<node, used, root, pc, c, plock, map, legal, miss, todo>>

resume(p) ==
    /\ p \in active /\ pc[p] = "idle" /\ todo[p] = <<>>
    /\ active' = active \ {p}
    /\ UNCHANGED <<node, used, root, pc, c, plock, map, legal, miss, todo>>
-----------------------------------------------------------------------------
(* mbtree::search starts at root_, insert_if_absent locks preemption and   *)
(* replaces a root that has split (fix_root).                              *)

\* The next call of an idle thread.
Calls(t, op) ==
    /\ At(t, "idle") /\ todo[t] # <<>> /\ Head(todo[t]).op = op
    /\ op = "load" \/ Loaded
    /\ todo' = [todo EXCEPT ![t] = Tail(@)]

search(t) ==
    /\ Calls(t, "get")
    /\ LET k == Head(todo[t]).key IN
       /\ Set(t, [Idle EXCEPT !.op = "get", !.key = k, !.ka = k, !.rt = root, !.n = root])
       /\ legal' = [legal EXCEPT ![t] = {LookupIn(map, k)}]
    /\ Go(t, "root") /\ UNCHANGED <<node, used, root, plock, active, map, miss>>

insert_if_absent(t) ==
    /\ Calls(t, "insert") \/ Calls(t, "load")
    /\ LET q == Head(todo[t]) IN
       Set(t, [Idle EXCEPT !.op = "insert", !.key = q.key, !.ka = q.key, !.rt = root, !.n = root,
                           !.load = q.op = "load"])
    /\ plock' = [plock EXCEPT ![t] = @ + 1]
    /\ Go(t, "fix_root") /\ UNCHANGED <<node, used, root, active, map, legal, miss>>

\* unsplit_ancestor: one hop, or the end of the walk.
Hop(x) == IF ~node[x].v.root /\ node[x].parent # NoNode THEN node[x].parent ELSE x

fix_root(t) ==
    /\ At(t, "fix_root")
    /\ LET up == Hop(c[t].n) IN
       IF up # c[t].n THEN Set(t, [c[t] EXCEPT !.n = up]) /\ UNCHANGED <<pc, root>>
       ELSE /\ root' = IF root = c[t].rt THEN up ELSE root
            /\ Set(t, [c[t] EXCEPT !.rt = up]) /\ Go(t, "root")
    /\ UNCHANGED <<node, used, plock, active, map, legal, miss, todo>>
-----------------------------------------------------------------------------
(* reach_leaf.                                                             *)

Retry(t) == [c[t] EXCEPT !.n = c[t].rt]

reach_root(t) ==
    /\ At(t, "root") /\ ~Dirty(node[c[t].n].v)
    /\ LET v == node[c[t].n].v IN
       /\ Set(t, [c[t] EXCEPT !.v = v])
       /\ Go(t, IF ~v.root THEN "ancestor" ELSE IF node[c[t].n].isleaf THEN "leaf" ELSE "inner")
    /\ Read

unsplit_ancestor(t) ==
    /\ At(t, "ancestor")
    /\ LET up == Hop(c[t].n) IN
       Set(t, [c[t] EXCEPT !.n = up]) /\ Go(t, IF up # c[t].n THEN "ancestor" ELSE "root")
    /\ Read

reach_inner(t) ==
    /\ At(t, "inner")
    /\ LET in == node[c[t].n]
           kid == in.child[upper(c[t].ka[1], in) + 1]
       IN  IF kid = NoNode THEN Set(t, Retry(t)) /\ Go(t, "root")
           ELSE Set(t, [c[t] EXCEPT !.kid = kid]) /\ Go(t, "down")
    /\ Read

reach_down(t) ==
    /\ At(t, "down") /\ ~Dirty(node[c[t].kid].v)
    /\ LET kid == node[c[t].kid] IN
       IF has_changed(node[c[t].n].v, c[t].v) THEN Go(t, "again") /\ UNCHANGED c
       ELSE /\ Set(t, [c[t] EXCEPT !.n = c[t].kid, !.v = kid.v])
            /\ Go(t, IF kid.isleaf THEN "leaf" ELSE "inner")
    /\ Read

\* The internode changed: read it again, or start over when the key may have
\* moved to its right.
reach_again(t) ==
    /\ At(t, "again") /\ ~Dirty(node[c[t].n].v)
    /\ LET in == node[c[t].n] IN
       IF has_split(in.v, c[t].v) /\ c[t].ka[1] > Last(in.ikey)
       THEN Set(t, Retry(t)) /\ Go(t, "root")
       ELSE Set(t, [c[t] EXCEPT !.v = in.v]) /\ Go(t, "inner")
    /\ Read
-----------------------------------------------------------------------------
(* The leaf: find_unlocked and find_locked.                                *)

find_perm(t) ==
    /\ At(t, "leaf") /\ c[t].op # "scan"
    /\ IF c[t].v.del THEN Set(t, Retry(t)) /\ Go(t, "root")
       ELSE Set(t, [c[t] EXCEPT !.perm = node[c[t].n].perm]) /\ Go(t, "search")
    /\ Read

\* find_unlocked searches with the permutation it has loaded, find_locked with
\* the current one.
find_search(t) ==
    /\ At(t, "search")
    /\ LET n == node[c[t].n]
           kx == lower(c[t].ka, n.ent, IF c[t].op = "get" THEN c[t].perm ELSE n.perm)
       IN  /\ Set(t, [c[t] EXCEPT !.i = kx.i, !.p = kx.p, !.match = 0])
           /\ Go(t, IF kx.p >= 0 THEN "load" ELSE IF c[t].op = "get" THEN "check" ELSE "lock")
    /\ Read

find_load(t) ==
    /\ At(t, "load")
    /\ Set(t, [c[t] EXCEPT !.lv = node[c[t].n].ent[c[t].p].lv]) /\ Go(t, "match")
    /\ Read

find_match(t) ==
    /\ At(t, "match")
    /\ Set(t, [c[t] EXCEPT !.match = ksuf_matches(c[t].ka, node[c[t].n].ent[c[t].p])])
    /\ Go(t, IF c[t].op = "get" THEN "check" ELSE "descend")
    /\ Read

Descend(t, r) == [c[t] EXCEPT !.ka = Tail(@), !.rt = r, !.n = r]

\* Mutant: the value is returned without a look at the version.
find_unchecked(t) ==
    /\ At(t, "check")
    /\ IF c[t].match < 0 THEN Set(t, Descend(t, c[t].lv[1])) /\ Go(t, "root")
       ELSE Set(t, [c[t] EXCEPT !.ans = IF c[t].match = 1 THEN c[t].lv ELSE <<>>]) /\ Go(t, "return")
    /\ IF pc'[t] = "return" /\ c[t].match = 0
       THEN miss' = [miss EXCEPT ![t] = <<[key |-> c[t].key, n |-> c[t].n,
                                           fv |-> FullVersion(c[t].v, c[t].perm.size)]>>]
       ELSE UNCHANGED miss
    /\ UNCHANGED <<node, used, root, plock, active, map, legal, todo>>

find_check(t) ==
    /\ At(t, "check")
    /\ IF has_changed(node[c[t].n].v, c[t].v) THEN Go(t, "advance") /\ UNCHANGED c
       ELSE IF c[t].match < 0 THEN Set(t, Descend(t, c[t].lv[1])) /\ Go(t, "root")
       ELSE Set(t, [c[t] EXCEPT !.ans = IF c[t].match = 1 THEN c[t].lv ELSE <<>>]) /\ Go(t, "return")
    /\ IF pc'[t] = "return" /\ c[t].match = 0
       THEN miss' = [miss EXCEPT ![t] = <<[key |-> c[t].key, n |-> c[t].n,
                                           fv |-> FullVersion(c[t].v, c[t].perm.size)]>>]
       ELSE UNCHANGED miss
    /\ UNCHANGED <<node, used, root, plock, active, map, legal, todo>>

\* find_locked goes down a layer without the lock if nothing has changed.
find_descend(t) ==
    /\ At(t, "descend")
    /\ IF c[t].match < 0 /\ ~has_changed(node[c[t].n].v, c[t].v) /\ node[c[t].lv[1]].v.root
       THEN Set(t, Descend(t, c[t].lv[1])) /\ Go(t, "root")
       ELSE Go(t, "lock") /\ UNCHANGED c
    /\ Read

Acquire(x) == node[x].v.lock = FALSE /\ node' = [node EXCEPT ![x].v.lock = TRUE]

find_lock(t) == At(t, "lock") /\ Acquire(c[t].n) /\ Go(t, "locked") /\ Keep /\ UNCHANGED c

UnlockIn(nodes, x) == [nodes EXCEPT ![x].v = Unlocked(@)]

RECURSIVE Unsplit(_)
Unsplit(x) == IF Hop(x) = x THEN x ELSE Unsplit(Hop(x))

\* Mutant: the position found before the lock is used although the leaf has
\* changed.
find_locked_stale(t) ==
    /\ At(t, "locked")
    /\ LET n == c[t].n
           up == Unsplit(node[n].ent[c[t].p].lv[1])
       IN  IF c[t].match < 0
           THEN /\ node' = UnlockIn([node EXCEPT ![n].ent[c[t].p].lv = <<up>>], n)
                /\ Set(t, Descend(t, up)) /\ Go(t, "root")
           ELSE Go(t, "insert") /\ UNCHANGED <<node, c>>
    /\ Keep

find_locked(t) ==
    /\ At(t, "locked")
    /\ LET n == c[t].n
           up == Unsplit(node[n].ent[c[t].p].lv[1])
       IN  IF has_changed(node[n].v, c[t].v) \/ node[n].perm # c[t].perm
           THEN node' = UnlockIn(node, n) /\ Go(t, "advance") /\ UNCHANGED c
           ELSE IF c[t].match < 0
           THEN /\ node' = UnlockIn([node EXCEPT ![n].ent[c[t].p].lv = <<up>>], n)
                /\ Set(t, Descend(t, up)) /\ Go(t, "root")
           ELSE Go(t, "insert") /\ UNCHANGED <<node, c>>
    /\ Keep

\* advance_to_key: after a split the key may be in a leaf further right.  An
\* empty permutation has slot 0 as its "last" one.
LastSlot(perm) == IF perm.size = 0 THEN 0 ELSE perm.ord[perm.size]

advance_to_key(t) ==
    /\ At(t, "advance") /\ ~Dirty(node[c[t].n].v)
    /\ LET n == node[c[t].n] IN
       /\ Set(t, [c[t] EXCEPT !.v = n.v])
       /\ Go(t, IF has_split(n.v, c[t].v) /\ Compare(c[t].ka, n.ent[LastSlot(n.perm)]) > 0
                THEN "next" ELSE "leaf")
    /\ Read

advance_next(t) ==
    /\ At(t, "next")
    /\ LET nx == node[c[t].n].next IN
       IF ~c[t].v.del /\ nx # NoNode /\ c[t].ka[1] >= ikey_bound(node[nx])
       THEN Set(t, [c[t] EXCEPT !.n = nx]) /\ Go(t, "stable")
       ELSE Go(t, "leaf") /\ UNCHANGED c
    /\ Read

advance_stable(t) ==
    /\ At(t, "stable") /\ ~Dirty(node[c[t].n].v)
    /\ Set(t, [c[t] EXCEPT !.v = node[c[t].n].v]) /\ Go(t, "next")
    /\ Read
-----------------------------------------------------------------------------
(* find_insert: the leaf is locked and the key was not found in it, or it  *)
(* was.  lp.value() = o is part of the step that fills the slot.           *)

Oid(t) == <<c[t].key, t>>
Marked(x) == [node EXCEPT ![x].v.ins = TRUE]

find_insert(t) ==
    /\ At(t, "insert")
    /\ LET n == node[c[t].n] IN
       IF c[t].match = 1 THEN Go(t, "found") /\ UNCHANGED <<node, c>>
       ELSE IF c[t].p >= 0 THEN Go(t, "new_layer") /\ UNCHANGED <<node, c>>
       ELSE /\ node' = IF n.modstate # "insert"
                       THEN [node EXCEPT ![c[t].n].v.ins = TRUE, ![c[t].n].modstate = "insert"]
                       ELSE node
            /\ Go(t, "slot") /\ UNCHANGED c
    /\ Keep

\* The key is there.  It is free to be taken over if its version chain is empty.
insert_found(t) ==
    /\ At(t, "found")
    /\ LET e == node[c[t].n].ent[c[t].p]
           o == Oid(t)
       IN  IF e.lv \in Dead
           THEN /\ node' = [node EXCEPT ![c[t].n].ent[c[t].p].lv = o]
                /\ map' = [map EXCEPT ![c[t].key] = o] /\ Track
                /\ Set(t, [c[t] EXCEPT !.ans = <<"inserted">>])
           ELSE Set(t, [c[t] EXCEPT !.ans = <<"exists">>]) /\ UNCHANGED <<node, map, legal>>
    /\ Go(t, "finish") /\ UNCHANGED <<used, root, plock, active, miss, todo>>

\* Slot 0 keeps the bound of the leaf: it is reused only when that is safe, or
\* else another free slot is taken, or the leaf is split.
insert_slot(t) ==
    /\ At(t, "slot")
    /\ LET n == node[c[t].n]
           s == back(n.perm)
           other == exchange(n.perm, n.perm.size, W - 1)
           fill(x, pm) == [node EXCEPT ![c[t].n].ent[x] = Entry(c[t].ka, Oid(t)),
                                       ![c[t].n].perm = pm]
       IN  IF n.perm.size < W /\ (s # 0 \/ n.prev = NoNode \/ ikey_bound(n) = c[t].ka[1])
           THEN /\ node' = fill(s, n.perm) /\ Set(t, [c[t] EXCEPT !.p = s])
                /\ Go(t, "publish")
           ELSE IF n.perm.size < W /\ back(other) # 0
           THEN /\ node' = fill(back(other), other) /\ Set(t, [c[t] EXCEPT !.p = back(other)])
                /\ Go(t, "publish")
           ELSE Go(t, "split") /\ UNCHANGED <<node, c>>
    /\ Keep

\* finish_insert.
finish_insert(t) ==
    /\ At(t, "publish")
    /\ node' = [node EXCEPT ![c[t].n].perm = insert_from_back(@, c[t].i)]
    /\ map' = (c[t].key :> Oid(t)) @@ map /\ Track
    /\ Set(t, [c[t] EXCEPT !.ans = <<"inserted">>]) /\ Go(t, "finish")
    /\ UNCHANGED <<used, root, plock, active, miss, todo>>

finish(t) ==
    /\ At(t, "finish")
    /\ node' = UnlockIn(node, c[t].n)
    /\ plock' = [plock EXCEPT ![t] = @ - 1]
    /\ Go(t, "return") /\ UNCHANGED <<c, used, root, active, map, legal, miss, todo>>

return(t) ==
    /\ At(t, "return")
    /\ Go(t, "idle") /\ Set(t, Idle)
    /\ legal' = [legal EXCEPT ![t] = {}]
    /\ UNCHANGED <<node, used, root, plock, active, map, miss, todo>>
-----------------------------------------------------------------------------
(* make_new_layer: the two keys share the slice and go on differently.     *)

\* The slices that the two suffixes share, one layer each.
Common(a, b) == CHOOSE k \in 0..Len(a) :
    /\ k < Len(a) /\ k < Len(b) /\ (\A j \in 1..k : a[j] = b[j] /\ j < Len(a) /\ j < Len(b))
    /\ (a[k + 1] # b[k + 1] \/ Len(a) = k + 1 \/ Len(b) = k + 1)

make_new_layer(t) ==
    /\ At(t, "new_layer")
    /\ LET n == c[t].n
           e == node[n].ent[c[t].p]
           oka == e.suf
           ka == Tail(c[t].ka)
           k == Common(oka, ka)
           nl == Fresh + k
           o == Entry(SubSeq(oka, k + 1, Len(oka)), e.lv)
           x == Entry(SubSeq(ka, k + 1, Len(ka)), Oid(t))
           first == Compare(SubSeq(oka, k + 1, Len(oka)), x) < 0
           twig(j) == Leaf(NewVersion(TRUE), <<LayerEntry(SubSeq(oka, j, j), Fresh + j)>>,
                           make_sorted(1), NoNode, NoNode, NoNode)
           new == Leaf([NewVersion(TRUE) EXCEPT !.lock = TRUE],
                       IF first THEN <<o, x>> ELSE <<x, o>>,
                       IF first THEN make_sorted(1) ELSE remove_to_back(make_sorted(2), 0),
                       NoNode, NoNode, NoNode)
       IN  /\ nl <= MaxNode
           /\ node' = [y \in DOMAIN node |->
                          IF y = nl THEN new
                          ELSE IF y \in Fresh..(nl - 1) THEN twig(y - used)
                          ELSE IF y = n THEN [node[n] EXCEPT !.v.ins = TRUE]
                          ELSE node[y]]
           /\ used' = nl
           /\ Set(t, [c[t] EXCEPT !.sn = n, !.n = nl, !.child = Fresh,
                                  !.i = IF first THEN 1 ELSE 0])
    /\ Go(t, "layer_lv") /\ UNCHANGED <<root, plock, active, map, legal, miss, todo>>

\* Two stores turn the entry into a layer, readers retry because of the mark.
layer_lv(t) ==
    /\ At(t, "layer_lv")
    /\ node' = [node EXCEPT ![c[t].sn].ent[c[t].p].lv = <<c[t].child>>]
    /\ Go(t, "layer_kl") /\ Keep /\ UNCHANGED c

layer_kl(t) ==
    /\ At(t, "layer_kl")
    /\ node' = [node EXCEPT ![c[t].sn].ent[c[t].p].kl = "layer"]
    /\ Go(t, "layer_unlock") /\ Keep /\ UNCHANGED c

layer_unlock(t) ==
    /\ At(t, "layer_unlock")
    /\ node' = UnlockIn(node, c[t].sn)
    /\ Set(t, [c[t] EXCEPT !.p = c[t].i]) /\ Go(t, "publish") /\ Keep
-----------------------------------------------------------------------------
(* make_split: a new right leaf, then the parents, as far as they split.   *)

split_leaf(t) ==
    /\ At(t, "split") /\ Fresh <= MaxNode
    /\ LET n == node[c[t].n]
           sp == SplitPoint(n, c[t].i, Entry(c[t].ka, Oid(t)))
           right == SubSeq(sp.all, sp.mid + 1, n.perm.size + 1)
           sorted == make_sorted(Len(right))
           perm == IF c[t].i >= sp.mid THEN remove_to_back(sorted, c[t].i - sp.mid) ELSE sorted
       IN  /\ node' = [node EXCEPT ![Fresh] = Leaf(n.v, right, perm, c[t].n, NoNode, NoNode)]
           /\ Set(t, [c[t] EXCEPT !.sn = c[t].n, !.child = Fresh, !.xk = right[1].ik,
                  !.stype = IF c[t].i < sp.mid THEN 0 ELSE IF sp.mid = n.perm.size THEN 2 ELSE 1])
    /\ used' = Fresh /\ Go(t, "lock_next")
    /\ UNCHANGED <<root, plock, active, map, legal, miss, todo>>

\* link_split.
lock_next(t) ==
    /\ At(t, "lock_next") /\ ~node[c[t].sn].marked
    /\ LET next == node[c[t].sn].next IN
       /\ node' = [node EXCEPT ![c[t].sn].marked = next # NoNode, ![c[t].child].next = next]
       /\ Go(t, IF next # NoNode THEN "next_prev" ELSE "link")
    /\ Keep /\ UNCHANGED c

next_prev(t) ==
    /\ At(t, "next_prev")
    /\ node' = [node EXCEPT ![node[c[t].child].next].prev = c[t].child]
    /\ Go(t, "link") /\ Keep /\ UNCHANGED c

link(t) ==
    /\ At(t, "link")
    /\ node' = [node EXCEPT ![c[t].sn].next = c[t].child, ![c[t].sn].marked = FALSE]
    /\ Go(t, "parent") /\ Keep /\ UNCHANGED c

\* locked_parent.
parent(t) ==
    /\ At(t, "parent")
    /\ LET p == node[c[t].sn].parent IN
       Set(t, [c[t] EXCEPT !.par = p, !.nchild = NoNode])
       /\ Go(t, IF p = NoNode THEN "new_root" ELSE "lock_parent")
    /\ Read

lock_parent(t) ==
    /\ At(t, "lock_parent") /\ Acquire(c[t].par) /\ Go(t, "check_parent") /\ Keep /\ UNCHANGED c

check_parent(t) ==
    /\ At(t, "check_parent")
    /\ IF node[c[t].sn].parent = c[t].par THEN Go(t, "mark_parent") /\ UNCHANGED node
       ELSE node' = UnlockIn(node, c[t].par) /\ Go(t, "parent")
    /\ Keep /\ UNCHANGED c

new_root(t) ==
    /\ At(t, "new_root") /\ Fresh <= MaxNode
    /\ node' = [node EXCEPT ![Fresh] = Internode(NewVersion(TRUE), <<c[t].xk>>,
                                                 <<c[t].sn, c[t].child>>, NoNode),
                            ![c[t].child].parent = Fresh, ![c[t].sn].parent = Fresh]
    /\ used' = Fresh /\ Go(t, IF node[c[t].sn].isleaf THEN "mark_leaf" ELSE "unlock_left")
    /\ UNCHANGED <<c, root, plock, active, map, legal, miss, todo>>

\* Room in the parent: mark it and insert.  Otherwise a new internode takes the
\* right half, whose children learn of it before the parent is marked.
mark_parent(t) ==
    /\ At(t, "mark_parent")
    /\ LET p == node[c[t].par]
           kp == upper(c[t].xk, p)
           h == SplitInternode(p, kp, c[t].xk, c[t].child, c[t].stype)
           right == Internode([p.v EXCEPT !.root = FALSE], h.rkeys, h.rkids, NoNode)
       IN  IF Len(p.ikey) < IW
           THEN node' = Marked(c[t].par) /\ UNCHANGED <<c, used>>
           ELSE /\ Fresh <= MaxNode /\ used' = Fresh
                /\ node' = [x \in DOMAIN node |->
                       IF x = Fresh THEN right
                       ELSE IF x = c[t].par THEN [p EXCEPT !.v.spl = TRUE]
                       ELSE IF x \in ToSet(h.rkids) THEN [node[x] EXCEPT !.parent = Fresh]
                       ELSE node[x]]
                /\ Set(t, [c[t] EXCEPT !.nchild = Fresh, !.nxk = h.key])
    /\ Go(t, "put_parent") /\ UNCHANGED <<root, plock, active, map, legal, miss, todo>>

put_parent(t) ==
    /\ At(t, "put_parent")
    /\ LET p == node[c[t].par]
           kp == upper(c[t].xk, p)
           h == SplitInternode(p, kp, c[t].xk, c[t].child, c[t].stype)
           keys == IF c[t].nchild = NoNode THEN InsertAt2(p.ikey, kp, c[t].xk) ELSE h.lkeys
           kids == IF c[t].nchild = NoNode THEN InsertAt2(p.child, kp + 1, c[t].child) ELSE h.lkids
       IN  node' = [x \in DOMAIN node |->
              IF x = c[t].par THEN [p EXCEPT !.ikey = keys, !.child = kids]
              ELSE IF x = c[t].child /\ x \in ToSet(kids) THEN [node[x] EXCEPT !.parent = c[t].par]
              ELSE node[x]]
    /\ Go(t, IF node[c[t].sn].isleaf THEN "mark_leaf" ELSE "unlock_left")
    /\ Keep /\ UNCHANGED c

mark_leaf(t) ==
    /\ At(t, "mark_leaf")
    /\ node' = [node EXCEPT ![c[t].sn].v.spl = TRUE] /\ Go(t, "cut_leaf") /\ Keep /\ UNCHANGED c

\* The moved entries leave the permutation of the left leaf.  A slot freed by a
\* remove stays the first free one.
cut_leaf(t) ==
    /\ At(t, "cut_leaf")
    /\ LET nl == node[c[t].sn]
           size == nl.perm.size - node[c[t].child].perm.size
           cut == [nl.perm EXCEPT !.size = size]
           perm == IF nl.perm.size # W THEN exchange(cut, size, W - 1) ELSE cut
       IN  /\ node' = [node EXCEPT ![c[t].sn].perm = perm]
           /\ IF c[t].stype = 0
              THEN Set(t, [c[t] EXCEPT !.p = back(perm)]) /\ Go(t, "fill_left")
              ELSE /\ Set(t, [c[t] EXCEPT !.i = @ - size, !.p = c[t].i - size, !.n = c[t].child])
                   /\ Go(t, "unlock_left")
    /\ Keep

fill_left(t) ==
    /\ At(t, "fill_left")
    /\ node' = [node EXCEPT ![c[t].sn].ent[c[t].p] = Entry(c[t].ka, Oid(t))]
    /\ Go(t, "unlock_left") /\ Keep /\ UNCHANGED c

unlock_left(t) ==
    /\ At(t, "unlock_left")
    /\ node' = IF c[t].sn # c[t].n THEN UnlockIn(node, c[t].sn) ELSE node
    /\ Go(t, "unlock_child") /\ Keep /\ UNCHANGED c

\* Go on with the internode that was split, or unlock the parent.
unlock_child(t) ==
    /\ At(t, "unlock_child")
    /\ node' = IF c[t].child # c[t].n THEN UnlockIn(node, c[t].child) ELSE node
    /\ IF c[t].nchild # NoNode
       THEN /\ Set(t, [c[t] EXCEPT !.sn = c[t].par, !.child = c[t].nchild, !.xk = c[t].nxk])
            /\ Go(t, "parent")
       ELSE Go(t, IF c[t].par # NoNode THEN "unlock_parent" ELSE "publish") /\ UNCHANGED c
    /\ Keep

unlock_parent(t) ==
    /\ At(t, "unlock_parent")
    /\ node' = UnlockIn(node, c[t].par)
    /\ Go(t, "publish") /\ Keep /\ UNCHANGED c
-----------------------------------------------------------------------------
Reach(t) == \/ fix_root(t) \/ reach_root(t) \/ unsplit_ancestor(t) \/ reach_inner(t)
            \/ reach_down(t) \/ reach_again(t)
Find(t) == \/ find_perm(t) \/ find_search(t) \/ find_load(t) \/ find_match(t) \/ find_check(t)
           \/ find_descend(t) \/ find_lock(t) \/ find_locked(t)
           \/ advance_to_key(t) \/ advance_next(t) \/ advance_stable(t)
Put(t) == \/ find_insert(t) \/ insert_found(t) \/ insert_slot(t) \/ finish_insert(t)
          \/ finish(t) \/ return(t)
          \/ make_new_layer(t) \/ layer_lv(t) \/ layer_kl(t) \/ layer_unlock(t)
Split(t) == \/ split_leaf(t) \/ lock_next(t) \/ next_prev(t) \/ link(t)
            \/ parent(t) \/ lock_parent(t) \/ check_parent(t) \/ new_root(t)
            \/ mark_parent(t) \/ put_parent(t) \/ mark_leaf(t) \/ cut_leaf(t)
            \/ fill_left(t) \/ unlock_left(t) \/ unlock_child(t) \/ unlock_parent(t)

Step(t) == search(t) \/ insert_if_absent(t) \/ Reach(t) \/ Find(t) \/ Put(t) \/ Split(t)

AllDone == (\A t \in Thread : todo[t] = <<>> /\ pc[t] = "idle") /\ active = {}

Next == \/ \E t \in Thread : Step(t) \/ preempt(t) \/ resume(t)
        \/ (AllDone /\ UNCHANGED vars)

Spec == Init /\ [][Next]_vars
-----------------------------------------------------------------------------
\* A lookup returns what the index held for its key at some moment of the call:
\* it never misses a key because of a concurrent split or a new layer, and never
\* returns the OID of another key (masstree_get.hh: find_unlocked).
GetsAreLinearizable ==
    \A t \in Thread : pc[t] = "return" /\ c[t].op = "get" => c[t].ans \in legal[t]

RECURSIVE Leftmost(_)
Leftmost(x) == IF node[x].isleaf THEN x ELSE Leftmost(node[x].child[1])
RECURSIVE Chain(_)
Chain(x) == IF x = NoNode THEN <<>> ELSE <<x>> \o Chain(node[x].next)
RECURSIVE Contents(_, _)
Contents(x, prefix) ==
    LET entries(y) == [j \in 1..node[y].perm.size |-> node[y].ent[node[y].perm.ord[j]]]
        keys(e) == IF e.kl = "layer" THEN Contents(Unsplit(e.lv[1]), Append(prefix, e.ik))
                   ELSE <<(prefix \o <<e.ik>> \o e.suf) :> e.lv>>
        leaf(y) == FoldLeft(LAMBDA s, e : s \o keys(e), <<>>, entries(y))
    IN  FoldLeft(LAMBDA s, y : s \o leaf(y), <<>>, Chain(Leftmost(x)))

Quiet == \A x \in 1..used : ~node[x].v.lock

\* Whenever no node is locked, walking the leaves gives each key of the map
\* exactly once and with its OID.
TreeHoldsMap ==
    Quiet => LET all == Contents(Unsplit(root), <<>>) IN
             /\ Len(all) = Cardinality(DOMAIN map)
             /\ {all[j] : j \in 1..Len(all)} = {k :> map[k] : k \in DOMAIN map}

\* Where a thread has node locks.
Holding == {"locked", "insert", "found", "slot", "publish", "finish", "new_layer", "layer_lv",
            "layer_kl", "layer_unlock", "split", "lock_next", "next_prev", "link", "parent",
            "lock_parent", "check_parent", "new_root", "mark_parent", "put_parent", "mark_leaf",
            "cut_leaf", "fill_left", "unlock_left", "unlock_child", "unlock_parent"}

\* A main context is never preempted while it holds a node lock, for which the
\* preemptive context on its core would spin for ever (pcontext::lock in
\* insert_if_absent).
PreemptedHoldsNoLock == \A p \in active : pc[Base[p]] \notin Holding

\* A failed lookup hands out a leaf and its full version; once the key is in the
\* index that leaf has another version, so MasstreeCheckPhantom finds the phantom.
MissesAreGuarded ==
    \A t \in Thread : \A j \in DOMAIN miss[t] :
        LET m == miss[t][j] IN
        m.key \in DOMAIN map => FullVersion(node[m.n].v, node[m.n].perm.size) # m.fv

\* What the unlocked tree holds is the map, the main context of a core is never
\* stopped with a node locked, and a miss can be checked again at commit.
TreeIsSound ==
    /\ TreeHoldsMap
    /\ PreemptedHoldsNoLock
    /\ MissesAreGuarded
=============================================================================
