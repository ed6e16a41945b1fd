---------------------------- MODULE MasstreeScan ----------------------------
(***************************************************************************)
(* Range scans of the index, forwards and backwards, beside lookups and    *)
(* inserts (masstree_scan.hh, search_range_call and rsearch_range_call of  *)
(* masstree_btree.h).                                                      *)
(*                                                                         *)
(*   s    the scan of each thread:                                         *)
(*          lo, hi      the first key and the boundary, <<>> if none       *)
(*          rev         a reverse scan                                     *)
(*          ub          reverse_scan_helper::upper_bound_                  *)
(*          zero        the current key has length 0                       *)
(*          initial     in find_initial                                    *)
(*          pre, stack  the slices of the layers above and their cursors   *)
(*          cmp         boundary_compar_                                   *)
(*          visit       visit_leaf follows this find_next                  *)
(*          then        what comes after visit_leaf                        *)
(*          iter        a ScanIterator: no callback for nodes              *)
(*          e           what find_next has loaded of the entry             *)
(*          done        the scan has ended                                 *)
(*          out         the keys emitted                                   *)
(*          resp        the nodes reported to on_resp_node with versions   *)
(*          old, ever   history: the keys in the tree when the scan began, *)
(*                      and those in it at some moment since               *)
(* The cursor of the current layer is in c: rt, n, v, perm and i (ki_).    *)
(***************************************************************************)
EXTENDS Masstree

CONSTANT Big         \* a slice above all slices of keys

VARIABLE s
svars == <<vars, s>>

NoScan == [lo |-> <<>>, hi |-> <<>>, rev |-> FALSE, ub |-> FALSE, zero |-> FALSE,
           initial |-> TRUE, pre |-> <<>>, stack |-> <<>>, cmp |-> FALSE, visit |-> TRUE,
           then |-> "s_next", iter |-> FALSE, done |-> FALSE, e |-> NoEntry, out |-> <<>>, resp |-> {}, old |-> {}, ever |-> {}]

SInit == Init /\ s = [t \in Thread |-> NoScan]

SetS(t, r) == s' = [s EXCEPT ![t] = r]

scan(t) ==
    /\ Calls(t, "scan")
    /\ LET q == Head(todo[t]) IN
       /\ Set(t, [Idle EXCEPT !.op = "scan", !.ka = q.lo, !.rt = root, !.n = root])
       /\ SetS(t, [NoScan EXCEPT !.lo = q.lo, !.hi = q.hi, !.rev = q.rev, !.iter = q.iter,
                                 !.old = DOMAIN map, !.ever = DOMAIN map])
    /\ Go(t, "root") /\ UNCHANGED <<node, used, root, plock, active, map, legal, miss>>
-----------------------------------------------------------------------------
(* The helpers: positions, order and neighbours.                           *)

CompareS(t, e) == IF s[t].zero /\ c[t].ka[1] = e.ik THEN -1 ELSE Compare(c[t].ka, e)

LowerS(t, n, perm) ==
    LET below == {j \in 1..perm.size : CompareS(t, node[n].ent[perm.ord[j]]) > 0}
        i == Cardinality(below)
        hit == i < perm.size /\ CompareS(t, node[n].ent[perm.ord[i + 1]]) = 0
    IN  [i |-> IF s[t].rev /\ ~hit THEN i - 1 ELSE i, p |-> IF hit THEN perm.ord[i + 1] ELSE -1]

lower_ki(t, n, perm) == IF s[t].rev /\ s[t].ub THEN perm.size - 1 ELSE LowerS(t, n, perm).i
is_duplicate(t, e) == IF s[t].rev THEN CompareS(t, e) <= 0 /\ ~s[t].ub ELSE CompareS(t, e) >= 0
NextKi(t, ki) == IF s[t].rev THEN ki - 1 ELSE ki + 1
KpOf(perm, ki) == IF ki >= 0 /\ ki < perm.size THEN perm.ord[ki + 1] ELSE -1

\* Keys in order, slice by slice.
RECURSIVE Less(_, _)
Less(a, b) == IF a = <<>> THEN b # <<>>
              ELSE IF b = <<>> THEN FALSE
              ELSE a[1] < b[1] \/ (a[1] = b[1] /\ Less(Tail(a), Tail(b)))

\* search_range_scanner_base::check: whether keys must be compared with the
\* boundary.  A forward scan looks at the last slice of the leaf to find out.
Check(t) ==
    LET hi == s[t].hi
        k == Len(s[t].pre)
        m == IF Len(hi) < k THEN Len(hi) ELSE k
        eq == SubSeq(hi, 1, m) = SubSeq(s[t].pre, 1, m)
        lt == Less(SubSeq(hi, 1, m), SubSeq(s[t].pre, 1, m))
        lastik == node[c[t].n].ent[LastSlot(c[t].perm)].ik
    IN  CASE hi = <<>> -> s[t].cmp
          [] s[t].rev -> s[t].cmp \/ ~lt
          [] ~s[t].rev /\ (lt \/ (eq /\ Len(hi) <= k)) -> TRUE
          [] ~s[t].rev /\ eq /\ Len(hi) > k -> hi[k + 1] <= lastik
          [] OTHER -> s[t].cmp

visit_leaf(t) ==
    /\ At(t, "visit")
    /\ SetS(t, [s[t] EXCEPT !.cmp = Check(t),
            !.resp = IF s[t].iter THEN @
                     ELSE @ \cup {<<c[t].n, FullVersion(c[t].v, c[t].perm.size)>>}])
    /\ Go(t, s[t].then) /\ Read /\ UNCHANGED c
-----------------------------------------------------------------------------
(* find_initial and find_retry.                                            *)

find_retry(t) ==
    /\ At(t, "leaf") /\ c[t].op = "scan"
    /\ LET perm == node[c[t].n].perm IN
       IF c[t].v.del THEN Set(t, Retry(t)) /\ Go(t, "root")
       ELSE IF s[t].initial
       THEN Set(t, [c[t] EXCEPT !.perm = perm]) /\ Go(t, "s_lower")
       ELSE /\ Set(t, [c[t] EXCEPT !.perm = perm, !.i = lower_ki(t, c[t].n, perm)])
            /\ Go(t, "s_next")
    /\ Read /\ UNCHANGED s

find_initial(t) ==
    /\ At(t, "s_lower")
    /\ LET kx == LowerS(t, c[t].n, c[t].perm) IN
       /\ Set(t, [c[t] EXCEPT !.i = kx.i, !.p = kx.p])
       /\ SetS(t, [s[t] EXCEPT !.e = IF kx.p >= 0 THEN node[c[t].n].ent[kx.p] ELSE NoEntry])
    /\ Go(t, "s_entry") /\ Read

initial_entry(t) ==
    /\ At(t, "s_entry")
    /\ SetS(t, [s[t] EXCEPT !.e.lv = IF c[t].p >= 0 THEN node[c[t].n].ent[c[t].p].lv ELSE <<>>])
    /\ Go(t, "s_check") /\ Read /\ UNCHANGED c

\* The entry at the first key: descend, emit, or go on with the next one.
initial_check(t) ==
    /\ At(t, "s_check")
    /\ LET e == s[t].e
           suf == Tail(c[t].ka)
           past == IF s[t].rev THEN Less(e.suf, suf) ELSE Less(suf, e.suf)
           found == c[t].p >= 0 /\ (e.kl = "end" \/ e.suf = suf \/ past)
       IN  IF has_changed(node[c[t].n].v, c[t].v) THEN Go(t, "advance") /\ UNCHANGED <<c, s>>
           ELSE /\ Go(t, "visit")
                /\ IF c[t].p >= 0 /\ e.kl = "layer"
                   THEN SetS(t, [s[t] EXCEPT !.then = "s_down"]) /\ UNCHANGED c
                   ELSE IF found
                   THEN /\ SetS(t, [s[t] EXCEPT !.then = "s_emit", !.initial = FALSE])
                        /\ Set(t, [c[t] EXCEPT !.ka = <<c[t].ka[1]>> \o e.suf])
                   ELSE /\ SetS(t, [s[t] EXCEPT !.then = "s_next", !.initial = FALSE])
                        /\ Set(t, [c[t] EXCEPT !.i = IF c[t].p >= 0 THEN NextKi(t, @) ELSE @])
    /\ Read

\* Into a layer: at the rest of the first key, or at the layer's end.
scan_down(t) ==
    /\ At(t, "s_down")
    /\ SetS(t, [s[t] EXCEPT !.pre = Append(@, c[t].ka[1]), !.stack = Append(@, c[t]),
                            !.ub = s[t].rev /\ ~s[t].initial, !.visit = TRUE])
    /\ Set(t, [c[t] EXCEPT !.ka = IF s[t].initial THEN Tail(@)
                                  ELSE IF s[t].rev THEN <<Big, 0>> ELSE <<0>>,
                           !.rt = s[t].e.lv[1], !.n = s[t].e.lv[1]])
    /\ Go(t, "root") /\ Read
-----------------------------------------------------------------------------
(* find_next: load the entry at ki, then use it if the leaf is unchanged.  *)

find_next(t) ==
    /\ At(t, "s_next")
    /\ LET kp == KpOf(c[t].perm, c[t].i) IN
       IF c[t].v.del THEN Set(t, Retry(t)) /\ Go(t, "root") /\ UNCHANGED s
       ELSE IF kp >= 0
       THEN /\ Set(t, [c[t] EXCEPT !.p = kp])
            /\ SetS(t, [s[t] EXCEPT !.e = node[c[t].n].ent[kp]]) /\ Go(t, "s_value")
       ELSE Go(t, "s_advance") /\ UNCHANGED <<c, s>>
    /\ Read

next_value(t) ==
    /\ At(t, "s_value")
    /\ SetS(t, [s[t] EXCEPT !.e.lv = node[c[t].n].ent[c[t].p].lv])
    /\ Go(t, "s_use") /\ Read /\ UNCHANGED c

Visiting(t, l) == IF s[t].visit THEN "visit" ELSE l

next_use(t) ==
    /\ At(t, "s_use")
    /\ LET e == s[t].e
           l == IF e.kl = "layer" THEN "s_down" ELSE "s_emit"
       IN  IF has_changed(node[c[t].n].v, c[t].v) THEN Go(t, "s_stable") /\ UNCHANGED <<c, s>>
           ELSE IF is_duplicate(t, e)
           THEN Set(t, [c[t] EXCEPT !.i = NextKi(t, @)]) /\ Go(t, "s_next") /\ UNCHANGED s
           ELSE /\ SetS(t, [s[t] EXCEPT !.zero = FALSE, !.ub = FALSE, !.then = l])
                /\ Set(t, [c[t] EXCEPT !.ka = <<e.ik>> \o e.suf]) /\ Go(t, Visiting(t, l))
    /\ Read

\* No entry is left: the neighbour, or up a layer.
next_advance(t) ==
    /\ At(t, "s_advance")
    /\ LET n == node[c[t].n]
           x == IF s[t].rev THEN n.prev ELSE n.next
       IN  IF has_changed(n.v, c[t].v) THEN Go(t, "s_stable") /\ UNCHANGED <<c, s>>
           ELSE /\ IF x = NoNode THEN Go(t, "s_up") /\ UNCHANGED c
                   ELSE /\ Set(t, [c[t] EXCEPT !.n = x, !.ka = IF s[t].rev THEN <<ikey_bound(n)>> ELSE @])
                        /\ Go(t, "s_stable")
                /\ IF s[t].rev THEN SetS(t, [s[t] EXCEPT !.zero = TRUE]) ELSE UNCHANGED s
    /\ Read

\* helper.stable: a reverse scan moves right while the key belongs there.
next_stable(t) ==
    /\ At(t, "s_stable") /\ ~Dirty(node[c[t].n].v)
    /\ LET n == node[c[t].n]
           k == c[t].ka[1]
           right == /\ s[t].rev /\ n.next # NoNode
                    /\ k >= ikey_bound(node[n.next])
                    /\ ~(k = ikey_bound(node[n.next]) /\ s[t].zero)
       IN  IF right THEN Set(t, [c[t] EXCEPT !.n = n.next]) /\ UNCHANGED <<pc, s>>
           ELSE Set(t, [c[t] EXCEPT !.v = n.v]) /\ Go(t, "s_perm") /\ UNCHANGED s
    /\ Read

\* Mutant: a leaf that is read again after a change is not reported again.
next_perm_unseen(t) ==
    /\ At(t, "s_perm")
    /\ LET perm == node[c[t].n].perm IN
       Set(t, [c[t] EXCEPT !.perm = perm, !.i = lower_ki(t, c[t].n, perm)])
    /\ SetS(t, [s[t] EXCEPT !.then = "s_next", !.visit = FALSE])
    /\ Go(t, Visiting(t, "s_next")) /\ Read

next_perm(t) ==
    /\ At(t, "s_perm")
    /\ LET perm == node[c[t].n].perm IN
       Set(t, [c[t] EXCEPT !.perm = perm, !.i = lower_ki(t, c[t].n, perm)])
    /\ SetS(t, [s[t] EXCEPT !.then = "s_next", !.visit = TRUE])
    /\ Go(t, Visiting(t, "s_next")) /\ Read

scan_up(t) ==
    /\ At(t, "s_up")
    /\ IF s[t].stack = <<>>
       THEN Go(t, "return") /\ SetS(t, [s[t] EXCEPT !.done = TRUE]) /\ UNCHANGED c
       ELSE /\ Set(t, [Last(s[t].stack) EXCEPT !.ka = <<Last(s[t].pre), 0>>, !.i = NextKi(t, @)])
            /\ SetS(t, [s[t] EXCEPT !.stack = Front(@), !.pre = Front(@), !.zero = FALSE, !.visit = TRUE])
            /\ Go(t, "s_next")
    /\ Read

\* visit_value: stop at the boundary, otherwise hand the key out.  An iterator
\* returns to its caller; a scan goes on.
scan_emit(t) ==
    /\ At(t, "s_emit")
    /\ LET key == s[t].pre \o c[t].ka
           stop == s[t].cmp /\ (IF s[t].rev THEN ~Less(s[t].hi, key) ELSE ~Less(key, s[t].hi))
       IN  IF stop THEN Go(t, "return") /\ SetS(t, [s[t] EXCEPT !.done = TRUE])
           ELSE SetS(t, [s[t] EXCEPT !.out = Append(@, key)]) /\ Go(t, "s_value_out")
    /\ Read /\ UNCHANGED c

\* The find_next after a value is not followed by visit_leaf.  An iterator may
\* also be given up here.
scan_next_value(t) ==
    /\ At(t, "s_value_out")
    /\ SetS(t, [s[t] EXCEPT !.visit = FALSE])
    /\ Set(t, [c[t] EXCEPT !.i = NextKi(t, @)]) /\ Go(t, "s_next") /\ Read
-----------------------------------------------------------------------------
Scan(t) == \/ scan(t) \/ find_retry(t) \/ find_initial(t) \/ initial_entry(t) \/ initial_check(t)
           \/ find_next(t) \/ next_value(t) \/ next_use(t) \/ next_advance(t)
           \/ next_stable(t) \/ next_perm(t) \/ scan_up(t) \/ scan_down(t) \/ scan_emit(t)
           \/ scan_next_value(t) \/ visit_leaf(t)

\* Scans in progress learn of new keys.
Noted == s' = [t \in Thread |-> IF pc[t] # "idle" /\ c[t].op = "scan"
                                THEN [s[t] EXCEPT !.ever = @ \cup DOMAIN map'] ELSE s[t]]

SNext == \/ Next /\ Noted
         \/ \E t \in Thread : Scan(t)

SSpec == SInit /\ [][SNext]_svars

\* Cores run: a context that can take a step and is not preempted takes one.
SFairSpec == SSpec /\ \A t \in Thread : WF_svars(\/ (Step(t) \/ resume(t)) /\ Noted
                                                \/ Scan(t))
-----------------------------------------------------------------------------
InRange(t, k, hi) ==
    IF s[t].rev THEN ~Less(s[t].lo, k) /\ (hi = <<>> \/ Less(hi, k))
    ELSE ~Less(k, s[t].lo) /\ (hi = <<>> \/ Less(k, hi))

\* The weakly consistent guarantee of search_range_call (masstree_btree.h): all
\* keys of the range that exist when the scan starts are found, in order and
\* once, and no key is invented or below the first key.
ScansAreComplete ==
    \A t \in Thread :
        /\ \A j \in 2..Len(s[t].out) :
              IF s[t].rev THEN Less(s[t].out[j], s[t].out[j - 1]) ELSE Less(s[t].out[j - 1], s[t].out[j])
        /\ \A k \in ToSet(s[t].out) : k \in s[t].ever /\ InRange(t, k, <<>>)
        /\ s[t].done => {k \in s[t].old : InRange(t, k, s[t].hi)} \subseteq ToSet(s[t].out)

\* A scan never hands out a key at or past its boundary.
ScansStayInRange ==
    \A t \in Thread : \A k \in ToSet(s[t].out) : InRange(t, k, s[t].hi)

\* on_resp_node reports every leaf that is responsible for a part of the range:
\* when a key of the range that the scan has not seen is in the index, one of
\* the reported leaves has another version, so the commit finds the phantom.
ScanPhantomsDetected ==
    \A t \in Thread : (s[t].done /\ ~s[t].iter) =>
        \A k \in DOMAIN map : InRange(t, k, s[t].hi) /\ k \notin ToSet(s[t].out) =>
            \E x \in s[t].resp : FullVersion(node[x[1]].v, node[x[1]].perm.size) # x[2]

\* Every call returns: no thread waits for a lock for ever, neither for another
\* thread's nor for one of its own core's main context, and no lookup or scan
\* retries for ever once the inserts are over.
CallsReturn == <>[](\A t \in Thread : pc[t] = "idle")

\* A scan finds what was there, and what appears later is found at commit.
ScansAreSound ==
    /\ ScansAreComplete
    /\ ScanPhantomsDetected
=============================================================================
