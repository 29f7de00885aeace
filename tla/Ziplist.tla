------------------------------- MODULE Ziplist -------------------------------
(***************************************************************************)
(* The ziplist (redis-stable/src/ziplist.c), byte by byte: a list in one   *)
(* block of memory.  An entry begins with the length of the entry before   *)
(* it, in one byte if that is below BigLen (ZIP_BIGLEN), else in 1 + Wide  *)
(* bytes; an encoding of one or two bytes follows, and the string or the   *)
(* integer.  A change of one entry's length may so change that of the next *)
(* one.                                                                    *)
(*                                                                         *)
(* zl.buf are the entries and the end marker (offset 1 is the head, the    *)
(* header's zlbytes is its length), zl.tail and zl.len the header's tail   *)
(* offset and length; list is what the ziplist should hold.  Sizes are     *)
(* scaled down: the C code has BigLen = 254, Wide = 4, strings of up to 63 *)
(* bytes with one byte of encoding, integers of 0 to 8 bytes.              *)
(***************************************************************************)
EXTENDS Integers, Sequences, SequencesExt

CONSTANTS
    BigLen,        \* ZIP_BIGLEN
    Wide,          \* the bytes that follow the BigLen mark
    MaxShort,      \* the longest string with one byte of encoding
    LengthMax,     \* UINT16_MAX: the header's length counts no further
    Items,         \* strings [str, len, v]: len bytes v; integers [str, v]
    MaxEntries     \* bound: entries in the ziplist

VARIABLES zl, list, harmed

zlVars == <<zl, list, harmed>>

ZipEnd == BigLen + 1

-----------------------------------------------------------------------------
(* Encodings *)

(* zipTryEncoding, zipIntSize: an integer takes 0, 1 or 2 bytes. *)
IntSize(v) == IF v <= 1 THEN 0 ELSE IF v <= 3 THEN 1 ELSE 2

Immediate == MaxShort + 2
Int8 == MaxShort + 4
Int16 == MaxShort + 5

(* zipEncodeLength *)
EncodeLength(e) ==
    IF e.str THEN IF e.len <= MaxShort THEN <<e.len>> ELSE <<MaxShort + 1, e.len>>
    ELSE CASE IntSize(e.v) = 0 -> <<Immediate + e.v>>
           [] IntSize(e.v) = 1 -> <<Int8>>
           [] OTHER -> <<Int16>>

(* zipSaveInteger, or the bytes of the string *)
Payload(e) ==
    IF e.str THEN [i \in 1..e.len |-> e.v]
    ELSE CASE IntSize(e.v) = 0 -> <<>>
           [] IntSize(e.v) = 1 -> <<e.v>>
           [] OTHER -> <<e.v % 4, e.v \div 4>>

(* ZIP_DECODE_LENGTH: the bytes of the encoding at q, and of what follows *)
LenSize(b, q) == IF b[q] = MaxShort + 1 THEN 2 ELSE 1
DataLen(b, q) ==
    CASE b[q] <= MaxShort -> b[q]
      [] b[q] = MaxShort + 1 -> b[q + 1]
      [] b[q] \in {Immediate, Immediate + 1} -> 0
      [] b[q] = Int8 -> 1
      [] OTHER -> 2

(* zipPrevEncodeLength, its size and its bytes; force is                   *)
(* zipPrevEncodeLengthForceLarge                                           *)
PrevSize(len) == IF len < BigLen THEN 1 ELSE 1 + Wide
PrevBytes(len, force) ==
    IF len < BigLen /\ ~force THEN <<len>>
    ELSE [i \in 1..(1 + Wide) |-> CASE i = 1 -> BigLen [] i = 2 -> len [] OTHER -> 0]

(* ZIP_DECODE_PREVLENSIZE, ZIP_DECODE_PREVLEN *)
PrevLenSize(b, p) == IF b[p] < BigLen THEN 1 ELSE 1 + Wide
PrevLen(b, p) == IF b[p] < BigLen THEN b[p] ELSE b[p + 1]

(* zipPrevLenByteDiff, zipRawEntryLength *)
PrevLenByteDiff(b, p, len) == PrevSize(len) - PrevLenSize(b, p)
RawEntryLength(b, p) ==
    LET q == p + PrevLenSize(b, p) IN PrevLenSize(b, p) + LenSize(b, q) + DataLen(b, q)

(* zipEntry, ziplistGet, zipLoadInteger: the item at p *)
ZiplistGet(b, p) ==
    LET q == p + PrevLenSize(b, p)
        d == q + LenSize(b, q)
        n == DataLen(b, q)
    IN IF b[q] <= MaxShort + 1 THEN [str |-> TRUE, len |-> n, v |-> IF n = 0 THEN 0 ELSE b[d]]
       ELSE [str |-> FALSE, len |-> 0,
             v |-> CASE n = 0 -> b[q] - Immediate [] n = 1 -> b[d] [] OTHER -> b[d] + 4 * b[d + 1]]

-----------------------------------------------------------------------------
(* Memory *)

(* ziplistResize *)
Resize(b, n) ==
    [i \in 1..n |-> IF i = n THEN ZipEnd ELSE IF i <= Len(b) THEN b[i] ELSE 0]

(* memmove; before offset 1 are the bytes of the header, which are copied  *)
(* only to be overwritten                                                  *)
Memmove(b, dst, src, n) ==
    [i \in 1..Len(b) |->
        IF i \notin dst..(dst + n - 1) THEN b[i]
        ELSE IF i - dst + src < 1 THEN 0 ELSE b[i - dst + src]]

PutBytes(b, p, bytes) ==
    [i \in 1..Len(b) |-> IF i \in p..(p + Len(bytes) - 1) THEN bytes[i - p + 1] ELSE b[i]]

(* The variant that updates the next entry and none after it. *)
CascadeUpdateOnce(b, tail, p) ==
    LET rawlen == RawEntryLength(b, p)
        np == p + rawlen
    IN IF b[p] = ZipEnd \/ b[np] = ZipEnd \/ PrevLenSize(b, np) < PrevSize(rawlen)
       THEN [buf |-> b, tail |-> tail]
       ELSE [buf |-> PutBytes(b, np, PrevBytes(rawlen, PrevLenSize(b, np) > 1)), tail |-> tail]

(* __ziplistCascadeUpdate: from the entry p on, the next entry's field for *)
(* the length of the one before it is brought up to date, and grows if it  *)
(* must; it never shrinks.                                                 *)
CascadeUpdate(block, end, first) ==
    LET cascade[b \in Seq(Nat), tail \in Nat, p \in Nat] ==
            LET rawlen == RawEntryLength(b, p)
                np == p + rawlen
                size == PrevSize(rawlen)
                nextsize == PrevLenSize(b, np)
                extra == size - nextsize
                grown == Memmove(Resize(b, Len(b) + extra), np + size, np + nextsize,
                                 Len(b) - np - nextsize)
            IN IF b[p] = ZipEnd \/ b[np] = ZipEnd \/ PrevLen(b, np) = rawlen
               THEN [buf |-> b, tail |-> tail]
               ELSE IF nextsize < size
                    THEN cascade[PutBytes(grown, np, PrevBytes(rawlen, FALSE)),
                                 IF tail # np THEN tail + extra ELSE tail, np]
                    ELSE [buf |-> PutBytes(b, np, PrevBytes(rawlen, nextsize > size)),
                          tail |-> tail]
    IN cascade[block, end, first]

(* ZIPLIST_INCR_LENGTH *)
IncrLength(len, incr) == IF len < LengthMax THEN len + incr ELSE len

(* Whether the entry at p is the last one *)
IsLast(b, p) == b[p + RawEntryLength(b, p)] = ZipEnd

-----------------------------------------------------------------------------
(* Operations; z is a ziplist, p an offset *)

(* What __ziplistInsert needs for e at p: the length of the entry before,  *)
(* that of the new one, and how the next entry's field has to change       *)
Before(z, p) ==
    IF z.buf[p] # ZipEnd THEN PrevLen(z.buf, p)
    ELSE IF z.buf[z.tail] # ZipEnd THEN RawEntryLength(z.buf, z.tail) ELSE 0
ReqLen(z, p, e) == PrevSize(Before(z, p)) + Len(EncodeLength(e)) + Len(Payload(e))
NextDiff(z, p, e) ==
    IF z.buf[p] # ZipEnd THEN PrevLenByteDiff(z.buf, p, ReqLen(z, p, e)) ELSE 0

(* __ziplistInsert *)
ZiplistInsertAt(z, p, e) ==
    LET reqlen == ReqLen(z, p, e)
        diff == NextDiff(z, p, e)
        n == Len(z.buf)
        sized == Resize(z.buf, n + reqlen + diff)
        moved == PutBytes(Memmove(sized, p + reqlen, p - diff, n - p + diff), p + reqlen,
                          PrevBytes(reqlen, FALSE))
        tail == z.tail + reqlen + IF IsLast(moved, p + reqlen) THEN 0 ELSE diff
        room == CASE z.buf[p] = ZipEnd -> [buf |-> sized, tail |-> p]
                  [] diff = 0 -> [buf |-> moved, tail |-> tail]
                  [] OTHER -> CascadeUpdate(moved, tail, p + reqlen)
        entry == PrevBytes(Before(z, p), FALSE) \o EncodeLength(e) \o Payload(e)
    IN [buf |-> PutBytes(room.buf, p, entry), tail |-> room.tail, len |-> IncrLength(z.len, 1)]

(* The offset num entries after p, or the end *)
Skip(b, p, num) ==
    LET go[q \in DOMAIN b, n \in 0..num] ==
            IF b[q] = ZipEnd \/ n = 0 THEN q ELSE go[q + RawEntryLength(b, q), n - 1]
    IN go[p, num]

(* __ziplistDelete of deleted entries, from p on *)
DeleteAt(z, p, deleted) ==
    LET b == z.buf
        q == Skip(b, p, deleted)
        totlen == q - p
        prevlen == PrevLen(b, p)
        diff == IF b[q] = ZipEnd THEN 0 ELSE PrevLenByteDiff(b, q, prevlen)
        put == PutBytes(b, q - diff, PrevBytes(prevlen, FALSE))
        moved == Memmove(put, p, q - diff, Len(b) - (q - diff))
        tail == z.tail - totlen + IF IsLast(put, q - diff) THEN 0 ELSE diff
        cut == IF b[q] = ZipEnd THEN [buf |-> Resize(b, Len(b) - totlen), tail |-> p - prevlen]
               ELSE [buf |-> Resize(moved, Len(b) - totlen + diff), tail |-> tail]
        done == IF diff = 0 THEN cut ELSE CascadeUpdate(cut.buf, cut.tail, p)
    IN [buf |-> done.buf, tail |-> done.tail, len |-> IncrLength(z.len, -deleted)]

(* ziplistIndex, forward: the end is NULL *)
Index(z, i) == Skip(z.buf, 1, i)

(* ziplistNext, ziplistPrev; 0 is NULL *)
ZiplistNext(z, p) ==
    LET q == p + RawEntryLength(z.buf, p)
    IN IF z.buf[p] = ZipEnd \/ z.buf[q] = ZipEnd THEN 0 ELSE q
ZiplistPrev(z, p) ==
    CASE z.buf[p] = ZipEnd -> IF z.buf[z.tail] = ZipEnd THEN 0 ELSE z.tail
      [] p = 1 -> 0
      [] OTHER -> p - PrevLen(z.buf, p)

(* ziplistIndex, backward from the tail: the entry i entries before it *)
Back(z, p, i) ==
    LET go[q \in DOMAIN z.buf, n \in 0..i] ==
            IF z.buf[q] = ZipEnd THEN 0
            ELSE IF PrevLen(z.buf, q) > 0 /\ n > 0 THEN go[q - PrevLen(z.buf, q), n - 1]
            ELSE IF n > 0 THEN 0 ELSE q
    IN go[p, i]

(* ziplistFind, comparing one entry and skipping skip; ziplistCompare *)
Find(z, p, e, skip) ==
    LET go[q \in DOMAIN z.buf, cnt \in 0..skip] ==
            IF z.buf[q] = ZipEnd THEN 0
            ELSE IF cnt = 0 /\ ZiplistGet(z.buf, q) = e THEN q
            ELSE go[q + RawEntryLength(z.buf, q), IF cnt = 0 THEN skip ELSE cnt - 1]
    IN go[p, 0]

(* ziplistLen: the entries are counted when the header does not say, and   *)
(* the header is set again if it can                                       *)
Entries(b) ==
    LET from[p \in DOMAIN b] == IF b[p] = ZipEnd THEN 0 ELSE 1 + from[p + RawEntryLength(b, p)]
    IN from[1]
ZiplistLen(z) == IF z.len < LengthMax THEN z.len ELSE Entries(z.buf)

-----------------------------------------------------------------------------
(* ziplistNew *)
Init ==
    /\ zl = [buf |-> <<ZipEnd>>, tail |-> 1, len |-> 0]
    /\ list = <<>> /\ harmed = FALSE

(* ziplistInsert, ziplistPush.  If the next entry's field shrinks by more  *)
(* than the new entry takes, the block is shrunk before its contents are   *)
(* moved: bytes of the last entry are lost, and nothing is known of the    *)
(* ziplist from there on.                                                  *)
Insert(i, e) ==
    LET p == Index(zl, i) IN
    /\ ~harmed /\ Len(list) < MaxEntries
    /\ IF ReqLen(zl, p, e) + NextDiff(zl, p, e) < 0
       THEN harmed' = TRUE /\ UNCHANGED <<zl, list>>
       ELSE /\ zl' = ZiplistInsertAt(zl, p, e)
            /\ list' = SubSeq(list, 1, i) \o <<e>> \o SubSeq(list, i + 1, Len(list))
            /\ UNCHANGED harmed

(* ziplistDelete, ziplistDeleteRange *)
DeleteRange(i, num) ==
    LET p == Index(zl, i)
        n == IF i + num > Len(list) THEN Len(list) - i ELSE num
    IN /\ ~harmed /\ zl.buf[p] # ZipEnd
       /\ zl' = DeleteAt(zl, p, n)
       /\ list' = SubSeq(list, 1, i) \o SubSeq(list, i + n + 1, Len(list))
       /\ UNCHANGED harmed

(* ziplistLen is a read that writes. *)
Count ==
    /\ ~harmed /\ zl.len = LengthMax
    /\ LET n == ZiplistLen(zl) IN zl' = IF n < LengthMax THEN [zl EXCEPT !.len = n] ELSE zl
    /\ UNCHANGED <<list, harmed>>

Next ==
    \/ \E i \in 0..Len(list), e \in Items : Insert(i, e)
    \/ \E i \in 0..(Len(list) - 1), num \in 1..2 : DeleteRange(i, num)
    \/ Count

Spec == Init /\ [][Next]_zlVars

-----------------------------------------------------------------------------
(* Whatever was inserted and deleted, and however the lengths cascaded,    *)
(* the entries are the elements of the list, forwards, backwards from the  *)
(* tail, by index from either end and by search, and their number is       *)
(* right.                                                                  *)
Offset(i) == Index(zl, i - 1)
ZiplistExact == ~harmed =>
    LET n == Len(list) IN
    /\ ZiplistLen(zl) = n
    /\ zl.buf[Offset(n + 1)] = ZipEnd /\ Offset(n + 1) = Len(zl.buf)
    /\ \A i \in 1..n :
        /\ ZiplistGet(zl.buf, Offset(i)) = list[i]
        /\ ZiplistNext(zl, Offset(i)) = IF i = n THEN 0 ELSE Offset(i + 1)
        /\ ZiplistPrev(zl, Offset(i)) = IF i = 1 THEN 0 ELSE Offset(i - 1)
        /\ Back(zl, zl.tail, n - i) = Offset(i)
    /\ ZiplistPrev(zl, Offset(n + 1)) = IF n = 0 THEN 0 ELSE Offset(n)
    /\ Back(zl, zl.tail, n) = 0
    /\ \A e \in Items, skip \in 0..1 :
        LET hits == {i \in 1..n : i % (skip + 1) = 1 % (skip + 1) /\ list[i] = e}
        IN Find(zl, 1, e, skip) =
             IF hits = {} THEN 0 ELSE Offset(CHOOSE i \in hits : \A j \in hits : i <= j)
=============================================================================
