------------------------------ MODULE SizeWalk ------------------------------
(***************************************************************************)
(* Walks over sizes to compare the two encoders of SizeCode with what a    *)
(* size code promises: every size up to Dense, and the sizes next to every *)
(* k * 2^e up to and past the largest encodable one.                       *)
(***************************************************************************)
EXTENDS SizeCode

CONSTANT Dense

VARIABLE sz

Init == sz = 0

Next == \/ sz < Dense /\ sz' = sz + 1
        \/ 16 <= sz /\ sz <= 32 /\ \E e \in 4..16, d \in -1..1 : sz' = sz * 2^e + d

Spec == Init /\ [][Next]_sz

\* Both encoders return the code of the least representable size that is not
\* below sz (allocations and log reads sized by a code are never too short),
\* they agree, the error stays within the 6.25% size-encode.h states, and a
\* size above MAX_ENCODABLE_SIZE gets the invalid code.
SizesRoundUp ==
    LET code == encode_size(sz) IN
    /\ code = encode_size_aligned(sz, 1)
    /\ sz > MAX_ENCODABLE_SIZE <=> code = INVALID_SIZE_CODE
    /\ code # INVALID_SIZE_CODE =>
         /\ decode_size(code) >= sz /\ (decode_size(code) - sz) * 16 <= sz
         /\ code > 0 => decode_size(code - 1) < sz

=============================================================================
