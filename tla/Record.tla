------------------------------- MODULE Record -------------------------------
(***************************************************************************)
(* Encoding of records (benchmarks/record): the fields of a value one      *)
(* after the other, numbers as varints (varint.h, serializer.h), and       *)
(* the cursors that read a field, or overwrite it in place and move what   *)
(* follows (cursor.h). Keys have fields of fixed size, in big-endian       *)
(* order (encoder.h, util.h), because the index compares bytes. Values are *)
(* encoded like this under USE_VARINT_ENCODING; without it a value is the  *)
(* struct itself, every field "fixed".                                     *)
(*                                                                         *)
(*   rec     history: the value the buffer should stand for                *)
(*   mem     the memory of the buffer, which is longer than the record     *)
(*   w       write_record_cursor: cur, end (-1 for nullptr) and n          *)
(*   r       read_record_cursor: cur, nbytes, n; lim, what it was given;   *)
(*           got, what it has read; open, until a call reports failure     *)
(*                                                                         *)
(* A byte is 0..2*Half-1: Half stands for 0x80. A uint32_t has four groups *)
(* of 7 bits and a fifth one of Top (2^4) values.                          *)
(***************************************************************************)
EXTENDS Integers, Sequences, FiniteSetsExt, SequencesExt

CONSTANTS
    Half,
    Top,
    Types,      \* of the fields: "u32", "i32" or "fixed" (two bytes, copied)
    Values      \* of each field, the values it is given

VARIABLES rec, mem, w, r
vars == <<rec, mem, w, r>>

Fields == 1..Len(Types)
Modulus == Half * Half * Half * Half * Top
Rest(b, k) == SubSeq(b, k + 1, Len(b))

-----------------------------------------------------------------------------
(* varint.h.                                                               *)

write_uvint32[v \in 0..(Modulus - 1)] ==
    IF v >= Half THEN <<(v % Half) + Half>> \o write_uvint32[v \div Half] ELSE <<v>>

size_uvint32(v) == 1 + Cardinality({k \in 1..4 : v > Half ^ k - 1})

\* Where the number can end: at a byte without the continuation bit.
Ends(b, nbytes) == {i \in 1..Min({5, nbytes}) : b[i] < Half}

skip_uvint32(b) == Min(Ends(b, Len(b)))
failsafe_skip_uvint32(b, nbytes) == IF Ends(b, nbytes) = {} THEN 0 ELSE Min(Ends(b, nbytes))

\* The value of the first k bytes; the fifth is not masked.
Joined(b, k) ==
    FoldLeft(LAMBDA sum, i : sum + (IF i < 5 THEN b[i] % Half ELSE b[i]) * Half ^ (i - 1),
             0, [i \in 1..k |-> i]) % Modulus
read_uvint32(b) == Joined(b, skip_uvint32(b))

-----------------------------------------------------------------------------
(* serializer.h: int32_t in zig-zag encoding, other types copied.          *)

zigzag(v) == IF v >= 0 THEN (2 * v) % Modulus ELSE Modulus - 1 - ((2 * v) % Modulus)
unzigzag(u) == IF u % 2 = 0 THEN u \div 2 ELSE -(u \div 2) - 1

write(type, v) ==
    CASE type = "u32" -> write_uvint32[v]
      [] type = "i32" -> write_uvint32[zigzag(v)]
      [] type = "fixed" -> v
nbytes(type, v) ==
    CASE type = "u32" -> size_uvint32(v)
      [] type = "i32" -> size_uvint32(zigzag(v))
      [] type = "fixed" -> 2
read(type, b) ==
    CASE type = "u32" -> read_uvint32(b)
      [] type = "i32" -> unzigzag(read_uvint32(b))
      [] type = "fixed" -> SubSeq(b, 1, 2)
skip(type, b) == IF type = "fixed" THEN 2 ELSE skip_uvint32(b)
\* The size of the field, 0 when it is not all there.
failsafe(type, b, n) ==
    IF type = "fixed" THEN (IF n < 2 THEN 0 ELSE 2) ELSE failsafe_skip_uvint32(b, n)

\* encode_write.
encode_write(v) == FlattenSeq([i \in Fields |-> write(Types[i], v[i])])
Size(v) == FoldLeft(LAMBDA s, i : s + nbytes(Types[i], v[i]), 0, [i \in Fields |-> i])

-----------------------------------------------------------------------------
(* Keys: host_endian_trfm reverses the bytes of a little-endian number.    *)

B == 2 * Half
host_endian_trfm(v) == <<v \div (B * B), (v \div B) % B, v % B>>
big_endian_trfm(b) == b[1] * B * B + b[2] * B + b[3]
Encode(key) == FlattenSeq([i \in DOMAIN key |-> host_endian_trfm(key[i])])
Decode(b) == [i \in 1..(Len(b) \div 3) |-> big_endian_trfm(SubSeq(b, 3 * i - 2, 3 * i))]
\* varstr: memcmp of the common part, then the length.
Less(a, b) ==
    \/ \E i \in 1..Min({Len(a), Len(b)}) : a[i] < b[i] /\ \A j \in 1..(i - 1) : a[j] = b[j]
    \/ Len(a) < Len(b) /\ \A j \in 1..Len(a) : a[j] = b[j]

-----------------------------------------------------------------------------
(* The cursors. Fields are counted from 0, as n is.                        *)

Closed == [cur |-> 0, nbytes |-> 0, n |-> 0, lim |-> 0, got |-> <<>>, open |-> FALSE]
Capacity == 5 * Len(Types)

\* px_cur after the fields from..to-1, each skipped where the previous one ended.
Skipped(from, to, cur) ==
    FoldLeft(LAMBDA px, i : px + skip(Types[i], Rest(mem, px)), cur,
             [k \in 1..(to - from) |-> from + k])

w_skip_to(i) ==
    /\ w.n < i /\ i < Len(Types)
    /\ w' = [w EXCEPT !.cur = Skipped(w.n, i, w.cur), !.n = i]
    /\ UNCHANGED <<rec, mem, r>>

w_reset ==
    /\ w.n > 0
    /\ w' = [w EXCEPT !.cur = 0, !.n = 0]
    /\ UNCHANGED <<rec, mem, r>>

\* The end is computed at the first write that changes a size, and kept.
compute_end == IF w.end >= 0 THEN w.end ELSE Skipped(w.n, Len(Types), w.cur)

Moved(oldsz, newsz, end) ==
    [i \in DOMAIN mem |->
        IF w.cur + newsz < i /\ i <= end - oldsz + newsz THEN mem[i - newsz + oldsz] ELSE mem[i]]

write_current_and_advance(v) ==
    LET type == Types[w.n + 1]
        newsz == nbytes(type, v)
        oldsz == skip(type, Rest(mem, w.cur))
        end == IF oldsz = newsz THEN w.end ELSE compute_end
        moved == IF oldsz = newsz THEN mem ELSE Moved(oldsz, newsz, end)
        bytes == write(type, v)
    IN  /\ ~r.open
        /\ w.n < Len(Types)
        /\ rec' = [rec EXCEPT ![w.n + 1] = v]
        /\ mem' = [i \in DOMAIN mem |->
                      IF w.cur < i /\ i <= w.cur + Len(bytes) THEN bytes[i - w.cur] ELSE moved[i]]
        /\ w' = [cur |-> w.cur + Len(bytes), n |-> w.n + 1,
                 end |-> IF oldsz = newsz THEN w.end ELSE end - oldsz + newsz]
        /\ UNCHANGED r

\* A cursor over the record, or over the first k bytes of it.
read_record_cursor(k) ==
    /\ ~r.open
    /\ r' = [Closed EXCEPT !.nbytes = k, !.lim = k, !.open = TRUE]
    /\ UNCHANGED <<rec, mem, w>>

\* One field: n advances first, and a field that is not all there is reported.
Advanced(c) ==
    LET sz == failsafe(Types[c.n + 1], Rest(mem, c.cur), c.nbytes)
    IN  [c EXCEPT !.n = c.n + 1, !.cur = c.cur + sz, !.nbytes = c.nbytes - sz, !.open = sz > 0]

\* The whole record from k bytes, without reading past them.
encode_failsafe_read(k) ==
    FoldLeft(LAMBDA c, i : IF c.open THEN Advanced(c) ELSE c,
             [Closed EXCEPT !.nbytes = k, !.open = TRUE], [i \in Fields |-> i]).open

r_skip_to(i) ==
    /\ r.open /\ r.n < i /\ i < Len(Types)
    /\ r' = FoldLeft(LAMBDA c, k : IF c.open THEN Advanced(c) ELSE c, r, [k \in 1..(i - r.n) |-> k])
    /\ UNCHANGED <<rec, mem, w>>

r_reset ==
    /\ r.open /\ r.n > 0
    /\ r' = [r EXCEPT !.nbytes = r.nbytes + r.cur, !.cur = 0, !.n = 0]
    /\ UNCHANGED <<rec, mem, w>>

\* read_current_and_advance, and with keep = FALSE read_current_raw_size_and_advance.
read_current_and_advance(keep) ==
    /\ r.open /\ r.n < Len(Types)
    /\ LET type == Types[r.n + 1]
           next == Advanced(r)
       IN  r' = [next EXCEPT !.got = IF keep /\ next.open
                                     THEN <<r.n + 1, read(type, Rest(mem, r.cur))>> ELSE <<>>]
    /\ UNCHANGED <<rec, mem, w>>

Init ==
    /\ rec = [i \in Fields |-> CHOOSE v \in Values[i] : TRUE]
    /\ mem = LET b == encode_write(rec) IN b \o [i \in 1..(Capacity - Len(b)) |-> 0]
    /\ w = [cur |-> 0, end |-> -1, n |-> 0]
    /\ r = Closed

Next ==
    \/ \E i \in Fields : w_skip_to(i) \/ r_skip_to(i)
    \/ w_reset \/ r_reset
    \/ \E i \in Fields : i = w.n + 1 /\ \E v \in Values[i] : write_current_and_advance(v)
    \/ \E k \in {Size(rec), Size(rec) - 1} : read_record_cursor(k)
    \/ \E keep \in BOOLEAN : read_current_and_advance(keep)

Spec == Init /\ [][Next]_vars

-----------------------------------------------------------------------------
(* Properties.                                                             *)

Offset(n) == FoldLeft(LAMBDA s, i : s + nbytes(Types[i], rec[i]), 0, [i \in 1..n |-> i])

(* However fields are overwritten, with shorter or longer numbers, in      *)
(* passes that leave the cached end valid across reset, the buffer holds   *)
(* the encoding of the record with every write applied, and the cursor is  *)
(* at its n-th field (write_current_and_advance, compute_end).             *)
OverwrittenRecordDecodes ==
    /\ SubSeq(mem, 1, Size(rec)) = encode_write(rec)
    /\ \A i \in Fields : read(Types[i], Rest(mem, Offset(i - 1))) = rec[i]
    /\ w.cur = Offset(w.n)
    /\ w.end \in {-1, Size(rec)}

(* The comment in read_record_cursor: nbytes, px_cur and n stay in sync    *)
(* until a call reports failure, whatever is read, skipped or reset; what  *)
(* was read is the field's value, and a truncated record is reported       *)
(* rather than read past its end (also by encode_failsafe_read).           *)
ReadCursorInSync ==
    /\ \A k \in 0..Size(rec) : encode_failsafe_read(k) <=> k = Size(rec)
    /\ r.open =>
              /\ r.cur = Offset(r.n)
              /\ r.cur + r.nbytes = r.lim
              /\ r.nbytes >= 0
              /\ r.got # <<>> => r.got[2] = rec[r.got[1]]

(* Byte order of encoded keys is the order of the keys, which the range    *)
(* scans of the index rely on, and a key decodes to itself. Fields are     *)
(* unsigned or never negative, as in TPC-C: a negative one would sort last.*)
KeysKeepOrder ==
    \A other \in Values[1] \X Values[1], second \in Values[1] :
        LET key == <<rec[1], second>>
        IN
            /\ Less(Encode(key), Encode(other))
                 <=> (key[1] < other[1] \/ (key[1] = other[1] /\ key[2] < other[2]))
            /\ Decode(Encode(other)) = other

\* Records decode to what was written, field by field, and keys keep the order
\* of their values.
RecordsDecode ==
    /\ OverwrittenRecordDecodes
    /\ ReadCursorInSync
    /\ KeysKeepOrder
=============================================================================
