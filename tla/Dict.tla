-------------------------------- MODULE Dict --------------------------------
(***************************************************************************)
(* The hash table of Redis (redis-stable/src/dict.c): incremental          *)
(* rehashing from ht[0] to ht[1], safe iterators and SCAN, and the calls   *)
(* redis.c makes to resize it.  A chain is a sequence of keys, the last    *)
(* added first; the sizes of the tables are powers of two.                 *)
(*                                                                         *)
(* scan is an iteration of a client with SCAN: its cursor, and the keys    *)
(* that were in the dictionary all the time since it began and have not    *)
(* been returned.                                                          *)
(* iter is a safe iterator.  InitialSize, ForceRatio and MinFill are       *)
(* DICT_HT_INITIAL_SIZE (4), dict_force_resize_ratio (5) and               *)
(* REDIS_HT_MINFILL (10), scaled to the few keys of an instance.           *)
(***************************************************************************)
EXTENDS Integers, Sequences, SequencesExt, FiniteSets

CONSTANTS Keys, KeyHash, InitialSize, ForceRatio, MinFill

VARIABLES d, canResize, scan, iter

dVars == <<d, canResize, scan, iter>>

-----------------------------------------------------------------------------
(* Tables *)

NoTable == [size |-> 0, table |-> <<>>]                          \* _dictReset
NewTable(n) == [size |-> n, table |-> [i \in 0..(n - 1) |-> <<>>]]
Slot(t, k) == KeyHash[k] % t.size
Held(t) == UNION {Range(t.table[i]) : i \in 0..(t.size - 1)}
Used(t) == Cardinality(Held(t))
IsRehashing(x) == x.idx # -1
InDict(x) == Held(x.ht0) \cup Held(x.ht1)

(* _dictNextPower *)
NextPower(i, n) ==
    LET power[p \in Nat] == IF p >= n THEN p ELSE power[2 * p] IN power[i]

(* dictExpand *)
Expand(x, n) ==
    IF IsRehashing(x) \/ Used(x.ht0) > n THEN x
    ELSE IF x.ht0.size = 0 THEN [x EXCEPT !.ht0 = NewTable(NextPower(InitialSize, n))]
    ELSE [x EXCEPT !.ht1 = NewTable(NextPower(InitialSize, n)), !.idx = 0]

(* _dictExpandIfNeeded *)
ExpandIfNeeded(x) ==
    CASE IsRehashing(x) -> x
      [] x.ht0.size = 0 -> Expand(x, InitialSize)
      [] /\ x.ht0.size > 0 /\ Used(x.ht0) >= x.ht0.size
         /\ canResize \/ Used(x.ht0) \div x.ht0.size > ForceRatio -> Expand(x, Used(x.ht0) * 2)
      [] OTHER -> x

(* dictRehash, one step: the tables are switched if nothing is left, else  *)
(* the next chain is moved, key by key to the head of its new chain.       *)
Moved(x, i) ==
    LET put(t, k) == [t EXCEPT !.table[Slot(t, k)] = <<k>> \o @]
    IN FoldSeq(LAMBDA k, t : put(t, k), x.ht1, Reverse(x.ht0.table[i]))
Rehash(x) ==
    IF ~IsRehashing(x) THEN x
    ELSE IF Used(x.ht0) = 0 THEN [x EXCEPT !.ht0 = x.ht1, !.ht1 = NoTable, !.idx = -1]
    ELSE LET i == CHOOSE j \in x.idx..(x.ht0.size - 1) :
                     x.ht0.table[j] # <<>> /\ \A n \in x.idx..(j - 1) : x.ht0.table[n] = <<>>
         IN [x EXCEPT !.ht0.table[i] = <<>>, !.ht1 = Moved(x, i), !.idx = i + 1]

(* _dictRehashStep *)
RehashStep(x) == IF x.iterators = 0 THEN Rehash(x) ELSE x

(* dictAddRaw, once there is a place for the key *)
AddTo(x, k) ==
    IF IsRehashing(x) THEN [x EXCEPT !.ht1.table[Slot(x.ht1, k)] = <<k>> \o @]
    ELSE [x EXCEPT !.ht0.table[Slot(x.ht0, k)] = <<k>> \o @]

Without(t, k) ==
    IF t.size = 0 THEN t
    ELSE [t EXCEPT !.table[Slot(t, k)] = SelectSeq(@, LAMBDA e : e # k)]

(* dictFind *)
Finds(x, k) ==
    /\ x.ht0.size # 0
    /\ \/ k \in Range(x.ht0.table[Slot(x.ht0, k)])
       \/ IsRehashing(x) /\ k \in Range(x.ht1.table[Slot(x.ht1, k)])

-----------------------------------------------------------------------------
(* Operations *)

NoScan == [on |-> FALSE, cursor |-> 0, must |-> {}, steep |-> FALSE]
NoIter == [on |-> FALSE, table |-> 0, index |-> -1, entry |-> 0, rest |-> <<>>,
           must |-> {}, seen |-> {}, twice |-> {}]

(* dictCreate *)
Init ==
    /\ d = [ht0 |-> NoTable, ht1 |-> NoTable, idx |-> -1, iterators |-> 0]
    /\ canResize = TRUE /\ scan = NoScan /\ iter = NoIter

(* dictAdd *)
Add(k) ==
    LET x == ExpandIfNeeded(RehashStep(d))
    IN /\ d' = IF Finds(x, k) THEN x ELSE AddTo(x, k)
       /\ UNCHANGED <<canResize, scan, iter>>

(* dictGenericDelete; with an iterator only of the key it is at *)
Delete(k) ==
    LET x == RehashStep(d)
    IN /\ d.ht0.size > 0
       /\ iter.on => iter.entry = k
       /\ d' = IF Finds(x, k) THEN [x EXCEPT !.ht0 = Without(@, k), !.ht1 = Without(@, k)] ELSE x
       /\ scan' = [scan EXCEPT !.must = @ \ {k}]
       /\ iter' = [iter EXCEPT !.must = @ \ {k}]
       /\ UNCHANGED canResize

(* dictFind, dictGetRandomKey: a lookup is a step of rehashing. *)
Find ==
    /\ IsRehashing(d) /\ d.iterators = 0
    /\ d' = RehashStep(d)
    /\ UNCHANGED <<canResize, scan, iter>>

(* dictRehashMilliseconds from serverCron, as far as it gets *)
RehashMilliseconds ==
    /\ IsRehashing(d) /\ ~iter.on
    /\ d' = Rehash(d)
    /\ UNCHANGED <<canResize, scan, iter>>

(* htNeedsResize, dictResize: by tryResizeHashTables, or after a deletion *)
TryResize ==
    LET slots == d.ht0.size + d.ht1.size
        used == Cardinality(InDict(d))
        least == Used(d.ht0)
    IN /\ used > 0 /\ slots > InitialSize /\ (used * 100) \div slots < MinFill
       /\ canResize /\ ~IsRehashing(d) /\ ~iter.on
       /\ d' = Expand(d, IF least < InitialSize THEN InitialSize ELSE least)
       /\ UNCHANGED <<canResize, scan, iter>>

(* updateDictResizePolicy: a child was forked, or ended. *)
UpdateResizePolicy ==
    /\ ~iter.on
    /\ canResize' = ~canResize
    /\ UNCHANGED <<d, scan, iter>>

(* dictEmpty *)
Empty ==
    /\ InDict(d) # {} /\ ~iter.on
    /\ d' = [ht0 |-> NoTable, ht1 |-> NoTable, idx |-> -1, iterators |-> 0]
    /\ scan' = [scan EXCEPT !.must = {}]
    /\ UNCHANGED <<canResize, iter>>

-----------------------------------------------------------------------------
(* SCAN *)

(* rev, for a number below the power of two n *)
ReverseBits(v, n) ==
    LET rev[u \in 0..(n - 1), m \in 1..n] ==
            IF m = 1 THEN 0 ELSE (u % 2) * (m \div 2) + rev[u \div 2, m \div 2]
    IN rev[v, n]

(* The reversed cursor is incremented, above the bits of the mask n - 1. *)
IncrementCursor(v, n) ==
    LET r == ReverseBits(v % n, n) + 1 IN IF r = n THEN 0 ELSE ReverseBits(r, n)

(* The variant that looks at one bucket of the larger table only. *)
DictScanOneBucket(x, v) ==
    LET n == IF IsRehashing(x) /\ x.ht1.size < x.ht0.size THEN x.ht1.size ELSE x.ht0.size
    IN IF InDict(x) = {} THEN [cursor |-> 0, keys |-> {}]
       ELSE [cursor |-> IncrementCursor(v, n),
             keys |-> Range(x.ht0.table[v % x.ht0.size]) \cup
                      (IF IsRehashing(x) THEN Range(x.ht1.table[v % x.ht1.size]) ELSE {})]

(* dictScan: the cursor that follows and the keys emitted.  With two       *)
(* tables, the bucket of the smaller one and its expansions in the larger  *)
(* one, from the cursor on.                                                *)
DictScan(x, v) ==
    LET two == IsRehashing(x)
        small == IF two /\ x.ht0.size > x.ht1.size THEN x.ht1 ELSE x.ht0
        large == IF two /\ x.ht0.size > x.ht1.size THEN x.ht0 ELSE x.ht1
        n == small.size
        expansions == {h * n + (v % n) : h \in ((v % large.size) \div n)..(large.size \div n - 1)}
    IN IF InDict(x) = {} THEN [cursor |-> 0, keys |-> {}]
       ELSE [cursor |-> IncrementCursor(v, n),
             keys |-> Range(small.table[v % n]) \cup
                      (IF two THEN UNION {Range(large.table[i]) : i \in expansions} ELSE {})]

(* scanGenericCommand: as many calls of dictScan as it makes are as many   *)
(* steps.  steep remembers a call during a rehashing between tables of     *)
(* which one has four times the size of the other or more.                 *)
Scan ==
    LET begins == ~scan.on
        r == DictScan(d, IF begins THEN 0 ELSE scan.cursor)
    IN /\ ~iter.on
       /\ scan' = [on |-> r.cursor # 0, cursor |-> r.cursor,
                   must |-> (IF begins THEN InDict(d) ELSE scan.must) \ r.keys,
                   steep |-> \/ ~begins /\ scan.steep
                             \/ /\ IsRehashing(d)
                                /\ \/ d.ht0.size >= 4 * d.ht1.size
                                   \/ d.ht1.size >= 4 * d.ht0.size]
       /\ UNCHANGED <<d, canResize, iter>>

-----------------------------------------------------------------------------
(* Safe iterators *)

(* dictGetSafeIterator, and what the first dictNext does to the dictionary *)
(* (not within an iteration with SCAN, which it would not touch)           *)
GetIterator ==
    /\ ~iter.on /\ ~scan.on
    /\ d' = [d EXCEPT !.iterators = @ + 1]
    /\ iter' = [NoIter EXCEPT !.on = TRUE, !.must = InDict(d)]
    /\ UNCHANGED <<canResize, scan>>

(* dictNext: the rest of the chain, then the next chain that is not empty, *)
(* in ht[1] after ht[0] if the table is being rehashed; else               *)
(* dictReleaseIterator.                                                    *)
Chain(t, i) == IF t = 0 THEN d.ht0.table[i] ELSE d.ht1.table[i]

Ahead ==
    {p \in {<<0, i>> : i \in 0..(d.ht0.size - 1)} \cup
           (IF IsRehashing(d) THEN {<<1, i>> : i \in 0..(d.ht1.size - 1)} ELSE {}) :
        /\ p[1] > iter.table \/ (p[1] = iter.table /\ p[2] > iter.index)
        /\ Chain(p[1], p[2]) # <<>>}

At(t, i, chain) ==
    iter' = [iter EXCEPT !.table = t, !.index = i, !.entry = Head(chain), !.rest = Tail(chain),
                         !.seen = @ \cup {Head(chain)},
                         !.twice = @ \cup (iter.seen \cap {Head(chain)})]
Iterate ==
    /\ iter.on
    /\ \/ iter.rest # <<>> /\ At(iter.table, iter.index, iter.rest) /\ UNCHANGED d
       \/ /\ iter.rest = <<>> /\ Ahead # {}
          /\ LET p == CHOOSE p \in Ahead : \A q \in Ahead : p[1] < q[1] \/ (p[1] = q[1] /\ p[2] <= q[2])
             IN At(p[1], p[2], Chain(p[1], p[2]))
          /\ UNCHANGED d
       \/ /\ iter.rest = <<>> /\ Ahead = {}
          /\ d' = [d EXCEPT !.iterators = @ - 1]
          /\ iter' = [NoIter EXCEPT !.must = iter.must \ iter.seen]
    /\ UNCHANGED <<canResize, scan>>

Next ==
    \/ \E k \in Keys : Add(k) \/ Delete(k)
    \/ Find \/ RehashMilliseconds \/ TryResize \/ UpdateResizePolicy \/ Empty
    \/ Scan \/ GetIterator \/ Iterate

Spec == Init /\ [][Next]_dVars

-----------------------------------------------------------------------------
(* A key is in one chain only, and dictFind finds it there: the one of its *)
(* hash, in ht[1] when that of ht[0] has been moved.                       *)
EachKeyOnce ==
    \A k \in InDict(d) :
        /\ Finds(d, k)
        /\ ~(k \in Held(d.ht0) /\ k \in Held(d.ht1))
        /\ IsRehashing(d) /\ k \in Held(d.ht0) => Slot(d.ht0, k) >= d.idx

(* SCAN returns every key that was there from its beginning to its end,    *)
(* though the table grew, shrank and was rehashed in between, except when  *)
(* it was called while the size changed by a factor of four or more.       *)
ScanComplete == ~scan.on /\ ~scan.steep => scan.must = {}

(* dict.c 672: all the elements present from the start to the end of the   *)
(* iteration are returned.                                                 *)
ScanAlwaysComplete == ~scan.on => scan.must = {}

(* A safe iterator returns no key twice, and every key that was there all  *)
(* the time, whatever is looked up and added meanwhile and though it       *)
(* deletes the key it is at.                                               *)
IteratorExact ==
    /\ iter.twice \cap iter.must = {}
    /\ ~iter.on => iter.must = {}
=============================================================================
