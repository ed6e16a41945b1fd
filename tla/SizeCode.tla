------------------------------ MODULE SizeCode ------------------------------
(***************************************************************************)
(* The 8-bit size codes of dbcore/size-encode.cpp: a small floating-point  *)
(* format (four bits of exponent, four of mantissa) into which every       *)
(* allocation size and the length of every log record is squeezed.         *)
(* encode_size computes a code, encode_size_aligned looks it up by binary  *)
(* search in the table of all decoded values; both round up.               *)
(***************************************************************************)
EXTENDS Integers, Sequences

INVALID_SIZE_CODE == 255

MAX_ENCODABLE_SIZE == 950272

\* decode_table: the value of the mantissa's implicit part for exponent e.
BaseOf(e) == 16 - (15 \div 2^e)

decode_size_helper(code) == ((code % 16) + BaseOf(code \div 16)) * 2^(code \div 16)

\* code + 0xff is taken modulo 2^8; 0xff itself decodes to -1, INVALID_SIZE.
decode_size(code) ==
    IF ((code + 1) % 256) \div 16 # 0 THEN decode_size_helper((code + 255) % 256)
    ELSE IF code >= 128 THEN code - 256 ELSE code

EFIRST(e) == decode_size_helper(e * 16)

ELAST(e) == IF e = 15 THEN decode_size(254) ELSE decode_size_helper(e * 16 + 15)

\* The lambda doit: round sz up to a multiple of 2^e and renormalise.
doit(sz, e) == e * 16 + ((sz + 2^e - 1) \div 2^e) - BaseOf(e) + 1

\* 27 - __builtin_clz(sz) for a 32-bit sz: the exponent leaving five bits.
Exponent(sz) == CHOOSE e \in 0..27 : 2^(e + 4) <= sz /\ sz < 2^(e + 5)

encode_size(sz) ==
    CASE sz < EFIRST(1)                      -> sz
      [] sz >= EFIRST(1) /\ sz <= ELAST(1)   -> doit(sz, 1)
      [] sz > ELAST(1) /\ sz <= EFIRST(2)    -> 2 * 16 + 1
      [] sz > EFIRST(2) /\ sz <= ELAST(2)    -> doit(sz, 2)
      [] sz > ELAST(2) /\ sz <= EFIRST(3)    -> 3 * 16 + 1
      [] sz > EFIRST(3) /\ sz <= ELAST(3)    -> doit(sz, 3)
      [] sz > ELAST(3) /\ sz <= EFIRST(4)    -> 4 * 16 + 1
      [] sz > EFIRST(4) /\ sz <= ELAST(15)   ->
            LET up == sz + 2^Exponent(sz) - 1
                e  == Exponent(up)
            IN e * 16 + (up \div 2^e - 16) + 1
      [] OTHER                               -> INVALID_SIZE_CODE

\* _encode_size_tab[i]; its last entry, D(ff), is size_t(-1), above every size.
_encode_size_tab(i) == IF i = 255 THEN 2^30 ELSE decode_size(i)

\* One round of the binary search: the half that holds the answer.
Narrow(x, r) == LET mid == (r[1] + r[2]) \div 2 IN
    IF x <= _encode_size_tab(mid) THEN <<r[1], mid>> ELSE <<mid + 1, r[2]>>

\* lo once lo = hi: eight rounds narrow the 256 codes to one.
encode_size_aligned(size, unit) ==
    LET x == (size + unit - 1) \div unit
        search[n \in 0..8] ==
            IF n = 0 THEN <<0, 255>>
            ELSE LET r == search[n - 1] IN IF r[1] < r[2] THEN Narrow(x, r) ELSE r
    IN search[8][1]

decode_size_aligned(code, unit) == decode_size(code) * unit

=============================================================================
