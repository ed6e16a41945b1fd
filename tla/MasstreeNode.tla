---------------------------- MODULE MasstreeNode ----------------------------
(***************************************************************************)
(* The nodes of a Masstree as values: version words (nodeversion.hh),      *)
(* permutations (kpermuter.hh), keys (masstree_key.hh), the search in a    *)
(* node (ksearch.hh) and the construction of nodes (masstree_struct.hh,    *)
(* masstree_split.hh, masstree_insert.hh).                                 *)
(*                                                                         *)
(* A key is a non-empty sequence of slices.  An entry of a leaf holds the  *)
(* first slice (ik), how the key goes on (kl: "end", "suf" with the rest   *)
(* in suf, or "layer"), and a value or the root of the next layer (lv, the *)
(* root n as <<n>>).                                                       *)
(* Node 0 is the null pointer.                                             *)
(***************************************************************************)
EXTENDS Integers, Sequences, FiniteSets, SequencesExt

CONSTANTS W,    \* leaf_width
          IW    \* internode_width

NoNode == 0
Slot == 0..(W - 1)
-----------------------------------------------------------------------------
(* Version words.  The counters have the widths of nodeversion32: 6 bits   *)
(* of inserts below 19 bits of splits.                                     *)

VI == 64
VS == 524288

NewVersion(isroot) ==
    [lock |-> FALSE, ins |-> FALSE, spl |-> FALSE, vi |-> 0, vs |-> 0, del |-> FALSE,
     root |-> isroot]

Dirty(v) == v.ins \/ v.spl

\* has_changed: the words differ above the lock bit.
has_changed(v, x) == [v EXCEPT !.lock = FALSE] # [x EXCEPT !.lock = FALSE]

\* has_split(x): the words differ from vsplit_lowbit on.
has_split(v, x) == v.vs # x.vs \/ v.del # x.del \/ v.root # x.root

Unlocked(v) ==
    IF v.spl
    THEN [v EXCEPT !.lock = FALSE, !.ins = FALSE, !.spl = FALSE, !.vi = 0,
                   !.vs = (@ + 1) % VS, !.root = FALSE]
    ELSE LET n == v.vi + (IF v.ins THEN 1 ELSE 0) IN
         [v EXCEPT !.lock = FALSE, !.ins = FALSE, !.vi = n % VI,
                   !.vs = (@ + (n \div VI)) % VS]

\* full_version_value: the version shifted left by size_bits, which drops its
\* top bits (leaf, root, deleted), plus the size.
FullVersion(v, size) == <<v.lock, v.ins, v.spl, v.vi, v.vs, size>>
-----------------------------------------------------------------------------
(* Permutations: the slots in key order, then the free ones.               *)

\* make_sorted: slots 0 .. n-1 in use, the others free, slot n the next one.
make_sorted(n) ==
    [size |-> n, ord |-> [j \in 1..W |-> IF j <= n THEN j - 1 ELSE W - (j - n)]]

back(perm) == perm.ord[W]
Used(perm) == SubSeq(perm.ord, 1, perm.size)

insert_from_back(perm, i) ==
    [size |-> perm.size + 1,
     ord |-> SubSeq(perm.ord, 1, i) \o <<back(perm)>> \o SubSeq(perm.ord, i + 1, W - 1)]

\* The slot at i becomes the first free one.
remove(perm, i) ==
    [size |-> perm.size - 1,
     ord |-> SubSeq(perm.ord, 1, i) \o SubSeq(perm.ord, i + 2, perm.size)
             \o <<perm.ord[i + 1]>> \o SubSeq(perm.ord, perm.size + 1, W)]

\* The slot at i becomes the last free one.
remove_to_back(perm, i) ==
    [size |-> perm.size - 1,
     ord |-> SubSeq(perm.ord, 1, i) \o SubSeq(perm.ord, i + 2, W) \o <<perm.ord[i + 1]>>]

exchange(perm, i, j) ==
    [perm EXCEPT !.ord[i + 1] = perm.ord[j + 1], !.ord[j + 1] = perm.ord[i + 1]]
-----------------------------------------------------------------------------
(* Keys and search.                                                        *)

has_suffix(ka) == Len(ka) > 1

\* key::compare: <0, 0 or >0.
Compare(ka, e) ==
    IF ka[1] # e.ik THEN ka[1] - e.ik
    ELSE IF has_suffix(ka) THEN (IF e.kl = "end" THEN 1 ELSE 0)
         ELSE (IF e.kl = "end" THEN 0 ELSE -1)

\* key_lower_bound over the entries that a permutation lists: the index and
\* the slot, -1 when no entry compares equal.
lower(ka, ent, perm) ==
    LET below == {j \in 1..perm.size : Compare(ka, ent[perm.ord[j]]) > 0}
        i == Cardinality(below)
    IN  [i |-> i, p |-> IF i < perm.size /\ Compare(ka, ent[perm.ord[i + 1]]) = 0
                        THEN perm.ord[i + 1] ELSE -1]

\* key_upper_bound in an internode.
upper(ik, in) == Cardinality({j \in 1..Len(in.ikey) : in.ikey[j] <= ik})

\* ksuf_matches: 1 a match, 0 none, -1 a layer to descend into.
ksuf_matches(ka, e) ==
    CASE e.kl = "end" -> 1
      [] e.kl = "layer" -> -1
      [] OTHER -> IF Tail(ka) = e.suf THEN 1 ELSE 0

Entry(ka, lv) ==
    [ik |-> ka[1], kl |-> IF has_suffix(ka) THEN "suf" ELSE "end", suf |-> Tail(ka), lv |-> lv]
LayerEntry(ka, n) == [ik |-> ka[1], kl |-> "layer", suf |-> <<>>, lv |-> <<n>>]
NoEntry == [ik |-> 0, kl |-> "end", suf |-> <<>>, lv |-> <<>>]
-----------------------------------------------------------------------------
(* Nodes.                                                                  *)

Leaf(ver, entries, perm, prv, nxt, up) ==
    [isleaf |-> TRUE, v |-> ver, parent |-> up, perm |-> perm, prev |-> prv, next |-> nxt,
     marked |-> FALSE, modstate |-> "insert",
     ent |-> [s \in Slot |-> IF s < Len(entries) THEN entries[s + 1] ELSE NoEntry],
     ikey |-> <<>>, child |-> <<>>]

Internode(ver, keys, kids, up) ==
    [isleaf |-> FALSE, v |-> ver, parent |-> up, perm |-> make_sorted(0), prev |-> NoNode,
     next |-> NoNode, marked |-> FALSE, modstate |-> "insert",
     ent |-> [s \in Slot |-> NoEntry], ikey |-> keys, child |-> kids]

make_root == Leaf(NewVersion(TRUE), <<>>, make_sorted(0), NoNode, NoNode, NoNode)

\* ikey_bound: slot 0 keeps the lower bound of the leaf.
ikey_bound(n) == n.ent[0].ik

InsertAt2(s, i, x) == SubSeq(s, 1, i) \o <<x>> \o SubSeq(s, i + 1, Len(s))

\* leaf::split_into: what stays left (mid entries of the old and new ones) and
\* the new right leaf.  The new entry has been put at position p of the order.
SplitPoint(n, p, e) ==
    LET old == Used(n.perm)
        size == n.perm.size
        all == InsertAt2([j \in 1..size |-> n.ent[old[j]]], p, e)
        start == IF p = 0 /\ n.prev = NoNode THEN 1
                 ELSE IF p = size /\ n.next = NoNode THEN size
                 ELSE (W \div 2) + 1
        \* the first place right or left of start, right first, where slices differ
        cuts == {m \in 1..size : all[m].ik # all[m + 1].ik}
        far(m) == IF m > start THEN 2 * (m - start) - 1 ELSE 2 * (start - m)
    IN  [all |-> all, mid |-> CHOOSE m \in cuts : \A k \in cuts : far(m) <= far(k)]

\* internode::split_into with child x for key k at position p: the two halves
\* and the key between them.
SplitInternode(in, p, k, x, stype) ==
    LET keys == InsertAt2(in.ikey, p, k)
        kids == InsertAt2(in.child, p + 1, x)
        mid == IF stype = 2 THEN IW ELSE (IW + 1) \div 2
    IN  [lkeys |-> SubSeq(keys, 1, mid), lkids |-> SubSeq(kids, 1, mid + 1),
         key |-> keys[mid + 1],
         rkeys |-> SubSeq(keys, mid + 2, IW + 1), rkids |-> SubSeq(kids, mid + 2, IW + 2)]
=============================================================================
