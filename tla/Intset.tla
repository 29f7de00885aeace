------------------------------- MODULE Intset -------------------------------
(***************************************************************************)
(* Sets of integers packed in one block (redis-stable/src/intset.c): a     *)
(* sorted array whose elements all have the width of the widest one ever   *)
(* added, searched by bisection, moved over itself by insertions and       *)
(* deletions, and rewritten in place when an element needs a wider         *)
(* encoding.                                                               *)
(*                                                                         *)
(* The block is a sequence of cells of the narrowest width.  A value       *)
(* written with width w fills w cells, and is read back only from exactly  *)
(* these: a read across two values, or past the block, is Garbage.  ref is *)
(* the set the block should hold.                                          *)
(***************************************************************************)
EXTENDS Integers, Sequences, FiniteSets

CONSTANTS
    Reach,       \* the values are -Reach..Reach
    Narrow,      \* bound of the values of one cell (INT16_MAX)
    Middle,      \* bound of the values of two cells (INT32_MAX)
    MaxMembers   \* bound: elements of a set

VARIABLES is, ref

intsetVars == <<is, ref>>

Values == (-Reach)..Reach
Garbage == Reach + 1
Unwritten == [v |-> Garbage, part |-> 0, width |-> 0]

(* _intsetValueEncoding: the negative side reaches one further *)
ValueEncoding(v) ==
    IF v < -(Middle + 1) \/ v > Middle THEN 4
    ELSE IF v < -(Narrow + 1) \/ v > Narrow THEN 2 ELSE 1

(* _intsetGetEncoded *)
GetEncoded(cells, pos, enc) ==
    LET cell(k) == pos * enc + k
        v == cells[cell(1)].v
    IN IF pos < 0 \/ cell(enc) > Len(cells) THEN Garbage
       ELSE IF \A k \in 1..enc : cells[cell(k)] = [v |-> v, part |-> k, width |-> enc]
            THEN v ELSE Garbage

(* _intsetSet *)
SetAt(cells, pos, v, enc) ==
    [i \in DOMAIN cells |->
        IF pos * enc < i /\ i <= (pos + 1) * enc
        THEN [v |-> v, part |-> i - pos * enc, width |-> enc] ELSE cells[i]]

(* intsetResize *)
Resized(cells, len, enc) ==
    [i \in 1..(len * enc) |-> IF i <= Len(cells) THEN cells[i] ELSE Unwritten]

Get(s, pos) == GetEncoded(s.cells, pos, s.enc)

(* intsetSearch: the loop narrows min..max until the middle is the value *)
Search(s, v) ==
    LET Bisect[range \in (0..s.len) \X ((-1)..(s.len - 1))] ==
            LET mid == (range[1] + range[2]) \div 2
                cur == Get(s, mid)
            IN IF range[2] < range[1] THEN [found |-> FALSE, pos |-> range[1]]
               ELSE IF v > cur THEN Bisect[<<mid + 1, range[2]>>]
               ELSE IF v < cur THEN Bisect[<<range[1], mid - 1>>]
               ELSE [found |-> TRUE, pos |-> mid]
    IN IF s.len = 0 THEN [found |-> FALSE, pos |-> 0]
       ELSE IF v > Get(s, s.len - 1) THEN [found |-> FALSE, pos |-> s.len]
       ELSE IF v < Get(s, 0) THEN [found |-> FALSE, pos |-> 0]
       ELSE Bisect[<<0, s.len - 1>>]

(* intsetUpgradeAndAdd: the values are rewritten from the last one to the  *)
(* first, n of them so far, and leave a place at the end the new one is for *)
UpgradeAndAdd(s, v) ==
    LET enc == ValueEncoding(v)
        shift == IF v < 0 THEN 1 ELSE 0
        Wider[n \in 0..s.len] ==
            IF n = 0 THEN Resized(s.cells, s.len + 1, enc)
            ELSE SetAt(Wider[n - 1], s.len - n + shift,
                       GetEncoded(Wider[n - 1], s.len - n, s.enc), enc)
    IN [enc |-> enc, len |-> s.len + 1,
        cells |-> SetAt(Wider[s.len], IF v < 0 THEN 0 ELSE s.len, v, enc)]

(* intsetMoveTail: memmove of what begins at from *)
MoveTail(s, cells, from, to) ==
    [i \in DOMAIN cells |->
        IF to * s.enc < i /\ i <= (to + s.len - from) * s.enc
        THEN cells[i + (from - to) * s.enc] ELSE cells[i]]

(* intsetAdd *)
IntsetAdd(s, v) ==
    LET at == Search(s, v)
        grown == Resized(s.cells, s.len + 1, s.enc)
        moved == IF at.pos < s.len THEN MoveTail(s, grown, at.pos, at.pos + 1) ELSE grown
    IN IF ValueEncoding(v) > s.enc THEN UpgradeAndAdd(s, v)
       ELSE IF at.found THEN s
       ELSE [s EXCEPT !.len = @ + 1, !.cells = SetAt(moved, at.pos, v, s.enc)]

(* intsetFind *)
IntsetFind(s, v) == ValueEncoding(v) <= s.enc /\ Search(s, v).found

(* intsetRemove: the encoding stays *)
IntsetRemove(s, v) ==
    LET pos == Search(s, v).pos
        moved == IF pos < s.len - 1 THEN MoveTail(s, s.cells, pos + 1, pos) ELSE s.cells
    IN IF IntsetFind(s, v)
       THEN [s EXCEPT !.len = @ - 1, !.cells = Resized(moved, s.len - 1, s.enc)]
       ELSE s

(* intsetNew *)
IntsetNew == [enc |-> 1, len |-> 0, cells |-> <<>>]

-----------------------------------------------------------------------------
Init == is = IntsetNew /\ ref = {}

Add(v) ==
    /\ Cardinality(ref) < MaxMembers
    /\ is' = IntsetAdd(is, v)
    /\ ref' = ref \cup {v}

Remove(v) ==
    /\ is' = IntsetRemove(is, v)
    /\ ref' = ref \ {v}

Next == \E v \in Values : Add(v) \/ Remove(v)

Spec == Init /\ [][Next]_intsetVars

-----------------------------------------------------------------------------
(* Whatever was added, removed, moved and widened in place, the block is   *)
(* the sorted array of the values added, each readable with the common     *)
(* encoding, and the bisection finds exactly these.                        *)
IntsetExact ==
    /\ is.len = Cardinality(ref) /\ Len(is.cells) = is.len * is.enc
    /\ \A i \in 0..(is.len - 1) : Get(is, i) \in ref
    /\ \A i \in 1..(is.len - 1) : Get(is, i - 1) < Get(is, i)
    /\ \A v \in Values : IntsetFind(is, v) <=> v \in ref
=============================================================================
