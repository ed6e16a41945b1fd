------------------------------- MODULE ScHash -------------------------------
(***************************************************************************)
(* sc_hash_set (sc-hash.h), the set in which a thread keeps its OID caches *)
(* by FID: K subtables of buckets of M slots.  An element may live in one  *)
(* bucket of each subtable, and an insertion may move one other element to *)
(* its next subtable, but no more.                                         *)
(*                                                                         *)
(*   hash        of each element                                           *)
(*   slot        _buckets with _presence: an element or Empty              *)
(*   set         history: the elements inserted and not erased             *)
(*   pos         an iterator, NoIter if there is none                      *)
(*   due, seen   history: the elements at begin(), those it has visited    *)
(***************************************************************************)
EXTENDS Integers, Sequences, SequencesExt, FiniteSets, FiniteSetsExt, TLC

CONSTANTS N, K, M,   \* SLOTS, SUBTABLES, BUCKET_SIZE
          W_BITS,    \* of a bitmap_word
          MaxElem    \* bound: the elements are 1..MaxElem

VARIABLES hash, slot, set, pos, due, seen
vars == <<hash, slot, set, pos, due, seen>>

Elem == 1..MaxElem
Empty == 0
NoIter == -1
-----------------------------------------------------------------------------
subtsize == (N \div M) \div K

_hash_part(h, i) == (h \div (subtsize ^ i)) % subtsize

_get_bucket(h, i) == M * (subtsize * i + _hash_part(h, i))

\* The slots of h's bucket in subtable i, in order.
Slots(h, i) == [j \in 1..M |-> _get_bucket(h, i) + j - 1]

\* The first slot that satisfies p among those in q, or N.
First(q, p(_)) == IF \E j \in DOMAIN q : p(q[j])
                  THEN q[Min({j \in DOMAIN q : p(q[j])})] ELSE N

_find(x) ==
    First(FlattenSeq([i \in 1..K |-> Slots(hash[x], i - 1)]), LAMBDA s : slot[s] = x)

Vacant(h, i) == First(Slots(h, i), LAMBDA s : slot[s] = Empty)

\* The slots of h's bucket in subtable i - 1 whose element has room in its
\* own bucket of subtable i.
Movable(h, i) ==
    First(Slots(h, i - 1), LAMBDA s : slot[s] # Empty /\ Vacant(hash[slot[s]], i) # N)

\* Mutant: an element that is already in the table is added again.
emplace_again(x) ==
    LET h == hash[x]
        fits == {i \in 0..(K - 1) : Vacant(h, i) # N \/ (i > 0 /\ Movable(h, i) # N)}
        i == Min(fits)
        s == Movable(h, i)
    IN  IF fits = {} THEN slot
        ELSE IF Vacant(h, i) # N THEN [slot EXCEPT ![Vacant(h, i)] = x]
        ELSE [slot EXCEPT ![Vacant(hash[slot[s]], i)] = slot[s], ![s] = x]

\* Subtable by subtable: a vacant slot, or else (second chance) the slot of an
\* element that can move down to this subtable.
find_and_emplace(x) ==
    LET h == hash[x]
        fits == {i \in 0..(K - 1) : Vacant(h, i) # N \/ (i > 0 /\ Movable(h, i) # N)}
        i == Min(fits)
        s == Movable(h, i)
    IN  IF _find(x) # N \/ fits = {} THEN slot
        ELSE IF Vacant(h, i) # N THEN [slot EXCEPT ![Vacant(h, i)] = x]
        ELSE [slot EXCEPT ![Vacant(hash[slot[s]], i)] = slot[s], ![s] = x]
-----------------------------------------------------------------------------
\* Bound: hash functions up to a renaming of the elements.
Init ==
    /\ hash \in {f \in [Elem -> 0..(subtsize ^ K - 1)] : \A x, y \in Elem : x < y => f[x] <= f[y]}
    /\ slot = [s \in 0..(N - 1) |-> Empty]
    /\ set = {} /\ pos = NoIter /\ due = {} /\ seen = <<>>

Emplace(x) ==
    /\ pos = NoIter /\ slot' = find_and_emplace(x)
    /\ set' = IF x \in {slot'[s] : s \in DOMAIN slot'} THEN set \cup {x} ELSE set
    /\ UNCHANGED <<hash, pos, due, seen>>

erase(x) ==
    /\ pos = NoIter /\ _find(x) # N
    /\ slot' = [slot EXCEPT ![_find(x)] = Empty] /\ set' = set \ {x}
    /\ UNCHANGED <<hash, pos, due, seen>>

clear ==
    /\ pos = NoIter /\ set # {} /\ slot' = [s \in DOMAIN slot |-> Empty] /\ set' = {}
    /\ UNCHANGED <<hash, pos, due, seen>>

\* Word by word: the first present slot at or after p in its word, else the
\* start of the next word.
RECURSIVE _find_valid(_)
_find_valid(p) ==
    LET word == (p \div W_BITS) * W_BITS
        pending == {s \in p..(word + W_BITS - 1) : s < N /\ slot[s] # Empty}
    IN  IF p >= N THEN p ELSE IF pending # {} THEN Min(pending) ELSE _find_valid(word + W_BITS)

Visit(p) == pos' = p /\ seen' = IF p = N THEN seen ELSE Append(seen, slot[p])

begin ==
    /\ pos = NoIter /\ due' = set /\ pos' = _find_valid(0)
    /\ seen' = IF pos' = N THEN <<>> ELSE <<slot[pos']>>
    /\ UNCHANGED <<hash, slot, set>>

operator_inc ==
    /\ pos \in 0..(N - 1) /\ Visit(_find_valid(pos + 1))
    /\ UNCHANGED <<hash, slot, set, due>>

\* erase of the element an iterator points to.
erase_at ==
    /\ pos \in 0..(N - 1) /\ slot[pos] # Empty
    /\ slot' = [slot EXCEPT ![pos] = Empty] /\ set' = set \ {slot[pos]}
    /\ UNCHANGED <<hash, pos, due, seen>>

Done ==
    /\ pos = N /\ pos' = NoIter /\ due' = {} /\ seen' = <<>>
    /\ UNCHANGED <<hash, slot, set>>

Next == \/ \E x \in Elem : Emplace(x) \/ erase(x)
        \/ clear \/ begin \/ operator_inc \/ erase_at \/ Done

Spec == Init /\ [][Next]_vars
-----------------------------------------------------------------------------
(* Properties.                                                             *)

\* Wherever insertions have moved elements to, and whatever was erased on the
\* way, _find finds exactly the elements of the set, each in the only slot
\* that holds it: a second cache for a FID would hide OIDs of the first one.
SetIsFound ==
    /\ {slot[s] : s \in DOMAIN slot} \ {Empty} = set
    /\ Cardinality({s \in DOMAIN slot : slot[s] # Empty}) = Cardinality(set)
    /\ \A x \in Elem : x \in set <=> _find(x) # N

\* "erasing the current element does not change which element will be visited
\* next": an iteration visits every element once (context_revoke_caches).
IterationIsComplete == pos = N => Range(seen) = due /\ IsInjective(seen)

\* Every element of the set is found and visited, and only once.
SetIsSound ==
    /\ SetIsFound
    /\ IterationIsComplete
=============================================================================
