----------------------------- MODULE KPermuter -----------------------------
(***************************************************************************)
(* The permutation of a leaf as the code keeps it: one word of four-bit    *)
(* digits, digit 0 the size and digit i+1 the slot at position i           *)
(* (kpermuter.hh).  All masks and shifts of the code are whole digits, so  *)
(* a word is the function of its digits.  Slots beyond the width keep what *)
(* earlier shifts left in them.  The operations are checked against the    *)
(* sequences that MasstreeNode works with.                                 *)
(***************************************************************************)
EXTENDS Integers, Sequences, Bitwise

CONSTANTS W,    \* width
          D     \* digits of value_type; max_width is D - 1

VARIABLE x      \* a permuter

Node == INSTANCE MasstreeNode WITH IW <- W

Digit == 0..(D - 1)
Shl(w, k) == [d \in Digit |-> IF d >= k THEN w[d - k] ELSE 0]
Shr(w, k) == [d \in Digit |-> IF d + k < D THEN w[d + k] ELSE 0]
Masked(w, ds) == [d \in Digit |-> IF d \in ds THEN w[d] ELSE 0]
DOr(u, w) == [d \in Digit |-> u[d] | w[d]]
DXor(u, w) == [d \in Digit |-> u[d] ^^ w[d]]
Put(v, k) == [d \in Digit |-> IF d = k THEN v ELSE 0]
Grown(w, k) == [w EXCEPT ![0] = @ + k]

Low(n) == 0..(n - 1)              \* the digits of (16 << ((n-1) << 2)) - 1
High(n) == n..(D - 1)

\* initial_value is 0, 1, ..., D-2, 0 and full_value is D-2, ..., 1, 0, 0, from
\* the highest digit down.
initial_value == [d \in Digit |-> IF d = 0 THEN 0 ELSE D - 1 - d]
full_value == [d \in Digit |-> IF d = 0 THEN 0 ELSE d - 1]

make_empty == Masked(Shr(initial_value, D - 1 - W), High(1))
make_sorted(n) ==
    LET mask == IF n = W THEN Digit ELSE Low(n + 1)
    IN  DOr(DOr(Shl(make_empty, n), Masked(full_value, mask)), Put(n, 0))

size(w) == w[0]
at(w, i) == w[i + 1]
back(w) == at(w, W - 1)
set_size(w, n) == DOr(Masked(w, High(1)), Put(n, 0))

\* Mutant: a mask one digit short.
insert_masked(w, i) ==
    DOr(DOr(Masked(Grown(w, 1), Low(i)), Put(back(w), i + 1)), Masked(Shl(w, 1), High(i + 2)))

insert_from_back(w, i) ==
    DOr(DOr(Masked(Grown(w, 1), Low(i + 1)), Put(back(w), i + 1)), Masked(Shl(w, 1), High(i + 2)))

insert_selected(w, di, si) ==
    LET mask == Low(si + 2) IN
    DOr(DOr(Masked(Grown(w, 1), Low(di + 1)), Put(at(w, si), di + 1)),
       DOr(Masked(Shl(w, 1), mask \cap High(di + 2)), Masked(w, Digit \ mask)))

remove(w, i) ==
    LET rot == size(w) - i - 1
        mask == (i + 1)..(i + 1 + rot)
    IN  IF size(w) = i + 1 THEN Grown(w, -1)
        ELSE DOr(DOr(Masked(Grown(w, -1), Digit \ mask), Masked(Shr(Masked(w, mask), 1), mask)),
                Masked(Shl(Masked(w, mask), rot), mask))

remove_to_back(w, i) ==
    LET mask == High(i + 1)
        y == Masked(w, Low(W + 1))
    IN  DOr(DOr(Masked(Grown(y, -1), Digit \ mask), Masked(Shr(y, 1), mask)),
           Shl(Masked(y, mask), W - i - 1))

exchange(w, i, j) ==
    LET diff == Masked(DXor(Shr(w, i), Shr(w, j)), {1})
    IN  DXor(w, DOr(Shl(diff, i), Shl(diff, j)))

Init == \E n \in 0..W : x = make_sorted(n)

\* The preconditions are those of the comments in kpermuter.hh, as make_split,
\* finish_insert and remove_leaf keep them.
Next ==
    \/ \E i \in 0..size(x) : size(x) < W /\ x' = insert_from_back(x, i)
    \/ \E i \in 0..size(x), j \in 0..(W - 1) :
          size(x) < W /\ size(x) <= j /\ x' = insert_selected(x, i, j)
    \/ \E i \in 0..(size(x) - 1) : x' = remove(x, i)
    \/ \E i \in 0..(size(x) - 1) : x' = remove_to_back(x, i)
    \/ \E i, j \in 0..(W - 1) : i < j /\ x' = exchange(x, i, j)
    \/ \E n \in 0..(size(x) - 1) : x' = set_size(x, n)

Spec == Init /\ [][Next]_x
-----------------------------------------------------------------------------
\* The permutation that a word stands for.
Perm(w) == [size |-> size(w), ord |-> [j \in 1..W |-> at(w, j - 1)]]

\* Whatever operations have been applied, a word lists each slot once, and the
\* next operation does to it what the sequence operation does: make_sorted,
\* insert_from_back, remove, remove_to_back and exchange (the lists in the
\* comments of kpermuter.hh).
WordIsPermutation ==
    /\ {at(x, i) : i \in 0..(W - 1)} = 0..(W - 1) /\ size(x) <= W
    /\ \A n \in 0..W : Perm(make_sorted(n)) = Node!make_sorted(n)
    /\ size(x) < W => \A i \in 0..size(x) :
          Perm(insert_from_back(x, i)) = Node!insert_from_back(Perm(x), i)
    /\ \A i \in 0..(size(x) - 1) :
          /\ Perm(remove(x, i)) = Node!remove(Perm(x), i)
          /\ Perm(remove_to_back(x, i)) = Node!remove_to_back(Perm(x), i)
    /\ \A i, j \in 0..(W - 1) : Perm(exchange(x, i, j)) = Node!exchange(Perm(x), i, j)
=============================================================================
