------------------------------ MODULE SortedSet ------------------------------
(***************************************************************************)
(* A key that holds a sorted set (redis-stable/src/t_zset.c): a ziplist of *)
(* elements and scores in order, or a skip list with a dictionary of the   *)
(* scores.  It is converted to a skip list when it gets too long or gets a *)
(* long element; the result of ZUNIONSTORE and ZINTERSTORE is a ziplist    *)
(* again when it is small.                                                 *)
(***************************************************************************)
EXTENDS SkipList, SequencesExt

CONSTANTS
    MaxEntries,      \* zset_max_ziplist_entries
    LongElements,    \* longer than zset_max_ziplist_value
    Sources,         \* what two other keys may hold: pairs of maps to scores
    Weights

VARIABLE z

NoDict == [e \in {} |-> 0]
None == [enc |-> "none", zl |-> <<>>, sl |-> ZslCreate, dict |-> NoDict]
Packed(zl) == [None EXCEPT !.enc = "ziplist", !.zl = zl]
Skip(sl, dict) == [None EXCEPT !.enc = "skiplist", !.sl = sl, !.dict = dict]

Init == z = None

(* Scores with NaN, which is never stored *)
NaN == Inf + 1
Clamp(s) == IF s > Inf THEN Inf ELSE IF s < -Inf THEN -Inf ELSE s
Plus(a, b) ==
    IF a = NaN \/ b = NaN \/ (a = Inf /\ b = -Inf) \/ (a = -Inf /\ b = Inf) THEN NaN
    ELSE IF a \in {Inf, -Inf} THEN a ELSE IF b \in {Inf, -Inf} THEN b ELSE Clamp(a + b)
Times(w, s) ==
    IF w \in {Inf, -Inf} \/ s \in {Inf, -Inf}
    THEN IF w * s = 0 THEN NaN ELSE IF w * s > 0 THEN Inf ELSE -Inf
    ELSE Clamp(w * s)

-----------------------------------------------------------------------------
(* The ziplist: pairs of an element and its score in order *)

ZlElements(zl) == [i \in DOMAIN zl |-> zl[i][1]]

(* zzlFind *)
ZzlFind(zl, e) == SelectInSeq(zl, LAMBDA p : p[1] = e)

(* zzlInsert, zzlInsertAt: before the first entry that is greater *)
ZzlInsert(zl, e, s) ==
    LET i == SelectInSeq(zl, LAMBDA p : p[2] > s \/ (p[2] = s /\ p[1] > e))
    IN IF i = 0 THEN Append(zl, <<e, s>>) ELSE InsertAt(zl, i, <<e, s>>)

(* zzlDelete *)
ZzlDelete(zl, i) == RemoveAt(zl, i)

(* zzlIsInRange *)
ZzlIsInRange(zl, r) ==
    /\ ~(r.min > r.max \/ (r.min = r.max /\ (r.minex \/ r.maxex)))
    /\ zl # <<>>
    /\ ScoreGteMin(Last(zl)[2], r)
    /\ ScoreLteMax(Head(zl)[2], r)

(* zzlFirstInRange: an index, 0 for none *)
ZzlFirstInRange(zl, r) ==
    LET i == SelectInSeq(zl, LAMBDA p : ScoreGteMin(p[2], r))
    IN IF ZzlIsInRange(zl, r) /\ i # 0 /\ ScoreLteMax(zl[i][2], r) THEN i ELSE 0

(* zzlLastInRange *)
ZzlLastInRange(zl, r) ==
    LET i == SelectLastInSeq(zl, LAMBDA p : ScoreLteMax(p[2], r))
    IN IF ZzlIsInRange(zl, r) /\ i # 0 /\ ScoreGteMin(zl[i][2], r) THEN i ELSE 0

(* zzlIsInLexRange *)
ZzlIsInLexRange(zl, r) ==
    /\ ~LexAlwaysEmpty(r)
    /\ zl # <<>>
    /\ LexGteMin(Last(zl)[1], r)
    /\ LexLteMax(Head(zl)[1], r)

(* zzlFirstInLexRange *)
ZzlFirstInLexRange(zl, r) ==
    LET i == SelectInSeq(zl, LAMBDA p : LexGteMin(p[1], r))
    IN IF ZzlIsInLexRange(zl, r) /\ i # 0 /\ LexLteMax(zl[i][1], r) THEN i ELSE 0

(* zzlLastInLexRange *)
ZzlLastInLexRange(zl, r) ==
    LET i == SelectLastInSeq(zl, LAMBDA p : LexLteMax(p[1], r))
    IN IF ZzlIsInLexRange(zl, r) /\ i # 0 /\ LexGteMin(zl[i][1], r) THEN i ELSE 0

(* The entries i up to the last before one that is not in within *)
CutRun(zl, i, within) ==
    LET stop == SelectInSubSeq(zl, i, Len(zl), LAMBDA p : p[1] \notin within)
        next == IF stop = 0 THEN Len(zl) + 1 ELSE stop
    IN SubSeq(zl, 1, i - 1) \o SubSeq(zl, next, Len(zl))

(* zzlDeleteRangeByScore *)
ZzlDeleteRangeByScore(zl, r) ==
    LET i == ZzlFirstInRange(zl, r)
    IN IF i = 0 THEN zl
       ELSE CutRun(zl, i, {zl[j][1] : j \in {k \in DOMAIN zl : ScoreLteMax(zl[k][2], r)}})

(* zzlDeleteRangeByLex *)
ZzlDeleteRangeByLex(zl, r) ==
    LET i == ZzlFirstInLexRange(zl, r)
    IN IF i = 0 THEN zl ELSE CutRun(zl, i, {e \in Members : LexLteMax(e, r)})

(* zzlDeleteRangeByRank, ranks from 1 *)
ZzlDeleteRangeByRank(zl, start, end) == SubSeq(zl, 1, start - 1) \o SubSeq(zl, end + 1, Len(zl))

-----------------------------------------------------------------------------
(* The commands that write *)

(* zsetConvert to a skip list: the entries inserted one after the other *)
ZsetConvert(zl, height) ==
    LET sl[i \in 0..Len(zl)] ==
            IF i = 0 THEN ZslCreate ELSE ZslInsert(sl[i - 1], zl[i][2], zl[i][1], height[zl[i][1]])
    IN Skip(sl[Len(zl)], [e \in {zl[i][1] : i \in DOMAIN zl} |-> zl[ZzlFind(zl, e)][2]])

(* zaddGenericCommand for one element that is not there yet *)
ZaddNew(e, s) ==
    \/ /\ z.enc \in {"none", "ziplist"} /\ ZzlFind(z.zl, e) = 0
       /\ LET zl == ZzlInsert(z.zl, e, s) IN
          IF Len(zl) > MaxEntries \/ e \in LongElements
          THEN \E height \in [ToSet(ZlElements(zl)) -> Levels] : z' = ZsetConvert(zl, height)
          ELSE z' = Packed(zl)
    \/ /\ z.enc = "skiplist" /\ e \notin DOMAIN z.dict
       /\ \E height \in Levels :
            z' = Skip(ZslInsert(z.sl, s, e, height),
                      [x \in DOMAIN z.dict \cup {e} |-> IF x = e THEN s ELSE z.dict[x]])

(* The variant that does not look out for NaN. *)
StorableNaN(score, cur) == score # cur

(* What is worth storing in place of the score cur *)
Storable(score, cur) == score \notin {NaN, cur}

(* zaddGenericCommand (ZADD, ZINCRBY) for one element that is there: it is *)
(* removed and inserted again when its score changed                       *)
ZaddUpdate(e, s, incr) ==
    \/ /\ z.enc = "ziplist" /\ ZzlFind(z.zl, e) # 0
       /\ LET i == ZzlFind(z.zl, e)
              cur == z.zl[i][2]
              score == IF incr THEN Plus(s, cur) ELSE s
          IN /\ Storable(score, cur)
             /\ z' = Packed(ZzlInsert(ZzlDelete(z.zl, i), e, score))
    \/ /\ z.enc = "skiplist" /\ e \in DOMAIN z.dict
       /\ LET cur == z.dict[e]
              score == IF incr THEN Plus(s, cur) ELSE s
          IN /\ Storable(score, cur)
             /\ \E height \in Levels :
                  z' = Skip(ZslInsert(ZslDelete(z.sl, cur, e), score, e, height),
                            [z.dict EXCEPT ![e] = score])

(* A sorted set without elements is deleted, with its key. *)
PackedOrNone(zl) == IF zl = <<>> THEN None ELSE Packed(zl)
SkipOrNone(sl, dict) == IF DOMAIN dict = {} THEN None ELSE Skip(sl, dict)

Keep(dict, S) == [e \in DOMAIN dict \cap S |-> dict[e]]

(* zremCommand *)
ZremCommand(e) ==
    \/ /\ z.enc = "ziplist" /\ ZzlFind(z.zl, e) # 0
       /\ z' = PackedOrNone(ZzlDelete(z.zl, ZzlFind(z.zl, e)))
    \/ /\ z.enc = "skiplist" /\ e \in DOMAIN z.dict
       /\ z' = SkipOrNone(ZslDelete(z.sl, z.dict[e], e), Keep(z.dict, Members \ {e}))

(* The range deletions take what they delete out of the dictionary too. *)
SkipCut(sl) == SkipOrNone(sl, Keep(z.dict, ToSet(InOrder(sl))))

(* zremrangeGenericCommand, ZRANGE_SCORE *)
ZremrangebyscoreCommand(r) ==
    \/ z.enc = "ziplist" /\ z' = PackedOrNone(ZzlDeleteRangeByScore(z.zl, r))
    \/ z.enc = "skiplist" /\ z' = SkipCut(ZslDeleteRangeByScore(z.sl, r))

(* zremrangeGenericCommand, ZRANGE_LEX *)
ZremrangebylexCommand(r) ==
    \/ z.enc = "ziplist" /\ z' = PackedOrNone(ZzlDeleteRangeByLex(z.zl, r))
    \/ z.enc = "skiplist" /\ z' = SkipCut(ZslDeleteRangeByLex(z.sl, r))

(* zsetLength *)
ZsetLength == IF z.enc = "skiplist" THEN z.sl.length ELSE Len(z.zl)

(* The indexes of a range by rank, from 0, sanitized as all commands do    *)
Sanitized(start, end) ==
    LET n == ZsetLength
        s == IF start >= 0 THEN start ELSE IF n + start < 0 THEN 0 ELSE n + start
        e == IF end < 0 THEN n + end ELSE IF end >= n THEN n - 1 ELSE end
    IN <<s, e>>

(* zremrangeGenericCommand, ZRANGE_RANK *)
ZremrangebyrankCommand(start, end) ==
    LET i == Sanitized(start, end) IN
    /\ i[1] <= i[2] /\ i[1] < ZsetLength
    /\ \/ z.enc = "ziplist" /\ z' = PackedOrNone(ZzlDeleteRangeByRank(z.zl, i[1] + 1, i[2] + 1))
       \/ z.enc = "skiplist" /\ z' = SkipCut(ZslDeleteRangeByRank(z.sl, i[1] + 1, i[2] + 1))

(* zunionInterAggregate *)
ZunionInterAggregate(a, b, aggregate) ==
    IF aggregate = "sum" THEN (IF Plus(a, b) = NaN THEN 0 ELSE Plus(a, b))
    ELSE IF b = NaN THEN a
    ELSE IF aggregate = "min" THEN (IF b < a THEN b ELSE a)
    ELSE IF b > a THEN b ELSE a

(* The map from elements to scores that z stands for *)
ScoreMap ==
    IF z.enc = "skiplist" THEN z.dict
    ELSE [e \in {z.zl[i][1] : i \in DOMAIN z.zl} |-> z.zl[ZzlFind(z.zl, e)][2]]

(* The sources f and g, in this order, with weights v and w *)
Combined(f, v, g, w, aggregate, inter) ==
    LET first(s) == IF s = NaN THEN 0 ELSE s
    IN [e \in IF inter THEN DOMAIN f \cap DOMAIN g ELSE DOMAIN f \cup DOMAIN g |->
          IF e \notin DOMAIN f THEN first(Times(w, g[e]))
          ELSE IF e \notin DOMAIN g THEN first(Times(v, f[e]))
          ELSE ZunionInterAggregate(first(Times(v, f[e])), Times(w, g[e]), aggregate)]

(* What zunionInterGenericCommand makes of the maps of two other keys (a   *)
(* set counts as the scores 1): the smaller comes first.                   *)
ZunionInterResults(f, g, w, aggregate, inter) ==
    LET n == Cardinality(DOMAIN f)
        m == Cardinality(DOMAIN g)
    IN (IF n <= m THEN {Combined(f, w, g, 1, aggregate, inter)} ELSE {})
       \cup (IF m <= n THEN {Combined(g, 1, f, w, aggregate, inter)} ELSE {})

(* zunionInterGenericCommand: the result replaces this key.  It is built   *)
(* as a skip list and converted to a ziplist when it is small.             *)
ZunionInterGenericCommand(p, w, aggregate, inter) ==
    \E h \in ZunionInterResults(p[1], p[2], w, aggregate, inter) :
        LET sorted == SetToSortSeq(DOMAIN h, LAMBDA a, b : h[a] < h[b] \/ (h[a] = h[b] /\ a < b))
            zl == [i \in DOMAIN sorted |-> <<sorted[i], h[sorted[i]]>>]
        IN z' \in IF zl = <<>> THEN {None}
                  ELSE IF Len(zl) <= MaxEntries /\ DOMAIN h \cap LongElements = {} THEN {Packed(zl)}
                  ELSE {ZsetConvert(zl, height) : height \in [DOMAIN h -> Levels]}

AllResults ==
    UNION {ZunionInterResults(p[1], p[2], w, aggregate, inter) :
             p \in Sources, w \in Weights, aggregate \in {"sum", "min", "max"}, inter \in BOOLEAN}

ScoreRanges == [min : Scores, minex : BOOLEAN, max : Scores, maxex : BOOLEAN]

Next ==
    \/ \E e \in Members, s \in Scores : ZaddNew(e, s)
    \/ \E e \in Members, s \in Scores, incr \in BOOLEAN : ZaddUpdate(e, s, incr)
    \/ \E e \in Members : ZremCommand(e)
    \/ \E r \in {q \in ScoreRanges : {q.min, q.max} \subseteq {-Inf, 0, 1}} : ZremrangebyscoreCommand(r)
    \/ \E r \in LexRanges : ZremrangebylexCommand(r)
    \/ \E start \in (-Count)..Count, end \in (-Count)..Count : ZremrangebyrankCommand(start, end)
    \/ \E p \in Sources, w \in Weights, aggregate \in {"sum", "min", "max"}, inter \in BOOLEAN :
         ZunionInterGenericCommand(p, w, aggregate, inter)

Spec == Init /\ [][Next]_z

-----------------------------------------------------------------------------
(* The commands that read *)

(* The elements from node n on, by the forward or the backward links *)
From(sl, n, reverse) ==
    LET go[x \in Members] ==
            LET y == IF reverse THEN sl.back[x] ELSE sl.fwd[x][1]
            IN IF y = NIL THEN <<x>> ELSE <<x>> \o go[y]
    IN go[n]

FromIndex(zl, i, reverse) ==
    IF reverse THEN Reverse(ZlElements(SubSeq(zl, 1, i))) ELSE ZlElements(SubSeq(zl, i, Len(zl)))

(* zrangeGenericCommand *)
Zrange(start, end, reverse) ==
    LET i == Sanitized(start, end)
        n == ZsetLength
        first == IF reverse THEN (IF i[1] = 0 THEN z.sl.tail ELSE ZslGetElementByRank(z.sl, n - i[1]))
                 ELSE IF i[1] = 0 THEN z.sl.fwd[Header][1] ELSE ZslGetElementByRank(z.sl, i[1] + 1)
    IN IF i[1] > i[2] \/ i[1] >= n THEN <<>>
       ELSE SubSeq(IF z.enc = "ziplist" THEN FromIndex(z.zl, IF reverse THEN n - i[1] ELSE i[1] + 1, reverse)
                   ELSE From(z.sl, first, reverse), 1, i[2] - i[1] + 1)

(* From the first element in range: skip offset of them, then take at most *)
(* limit (-1: all) up to the first that is not in the range                *)
Limited(q, offset, limit, within) ==
    LET rest == SubSeq(q, offset + 1, Len(q))
        stop == SelectInSeq(rest, LAMBDA e : e \notin within)
        n == IF stop = 0 THEN Len(rest) ELSE stop - 1
    IN SubSeq(rest, 1, IF limit >= 0 /\ limit < n THEN limit ELSE n)

(* genericZrangebyscoreCommand *)
Zrangebyscore(r, reverse, offset, limit) ==
    LET f == ScoreMap
        i == IF reverse THEN ZzlLastInRange(z.zl, r) ELSE ZzlFirstInRange(z.zl, r)
        x == IF reverse THEN ZslLastInRange(z.sl, r) ELSE ZslFirstInRange(z.sl, r)
        within == {e \in DOMAIN f : IF reverse THEN ScoreGteMin(f[e], r) ELSE ScoreLteMax(f[e], r)}
    IN IF z.enc = "ziplist"
       THEN IF i = 0 THEN <<>> ELSE Limited(FromIndex(z.zl, i, reverse), offset, limit, within)
       ELSE IF x = NIL THEN <<>> ELSE Limited(From(z.sl, x, reverse), offset, limit, within)

(* zcountCommand *)
Zcount(r) ==
    LET first == ZslFirstInRange(z.sl, r)
        last == ZslLastInRange(z.sl, r)
        rank(n) == ZslGetRank(z.sl, z.sl.score[n], n)
    IN IF z.enc = "ziplist" THEN Len(Zrangebyscore(r, FALSE, 0, -1))
       ELSE IF first = NIL THEN 0
       ELSE z.sl.length - (rank(first) - 1) - (IF last = NIL THEN 0 ELSE z.sl.length - rank(last))

(* genericZrangebylexCommand *)
Zrangebylex(r, reverse, offset, limit) ==
    LET i == IF reverse THEN ZzlLastInLexRange(z.zl, r) ELSE ZzlFirstInLexRange(z.zl, r)
        x == IF reverse THEN ZslLastInLexRange(z.sl, r) ELSE ZslFirstInLexRange(z.sl, r)
        within == {e \in Members : IF reverse THEN LexGteMin(e, r) ELSE LexLteMax(e, r)}
    IN IF z.enc = "ziplist"
       THEN IF i = 0 THEN <<>> ELSE Limited(FromIndex(z.zl, i, reverse), offset, limit, within)
       ELSE IF x = NIL THEN <<>> ELSE Limited(From(z.sl, x, reverse), offset, limit, within)

(* zlexcountCommand *)
Zlexcount(r) ==
    LET first == ZslFirstInLexRange(z.sl, r)
        last == ZslLastInLexRange(z.sl, r)
        rank(n) == ZslGetRank(z.sl, z.sl.score[n], n)
    IN IF z.enc = "ziplist" THEN Len(Zrangebylex(r, FALSE, 0, -1))
       ELSE IF first = NIL THEN 0
       ELSE z.sl.length - (rank(first) - 1) - (IF last = NIL THEN 0 ELSE z.sl.length - rank(last))

(* zrankGenericCommand: -1 for none *)
Zrank(e, reverse) ==
    LET rank == IF z.enc = "ziplist" THEN ZzlFind(z.zl, e) ELSE ZslGetRank(z.sl, z.dict[e], e)
    IN IF e \notin DOMAIN ScoreMap THEN -1
       ELSE IF reverse THEN ZsetLength - rank ELSE rank - 1

-----------------------------------------------------------------------------
(* The reference: the elements of ScoreMap sorted by score, then element.  *)
Order == SetToSortSeq(DOMAIN ScoreMap,
    LAMBDA a, b : ScoreMap[a] < ScoreMap[b] \/ (ScoreMap[a] = ScoreMap[b] /\ a < b))

(* Whatever the heights of the nodes and whatever was inserted, deleted or *)
(* cut out, in both encodings: the entries are in order; on each level the *)
(* links go on to the next node that has this level, and their spans are   *)
(* the distance in the order; the backward links and the tail are those of *)
(* the lowest level; and the dictionary holds the scores of the nodes      *)
(* (zslInsert, zslDeleteNode, the dictDelete in the range deletions).      *)
Position(n) == IF n = Header THEN 0 ELSE SelectInSeq(Order, LAMBDA e : e = n)
SkipListExact ==
    /\ z.enc = "ziplist" => ZlElements(z.zl) = Order /\ Len(z.zl) \in 1..MaxEntries
    /\ z.enc = "skiplist" =>
         /\ InOrder(z.sl) = Order /\ z.sl.length = Len(Order) /\ Order # <<>>
         /\ z.sl.tail = Last(Order)
         /\ \A e \in DOMAIN z.dict : z.dict[e] = z.sl.score[e]
         /\ \A i \in 1..z.sl.level, n \in DOMAIN z.dict \cup {Header} :
              z.sl.fwd[n][i] # NIL => z.sl.span[n][i] = Position(z.sl.fwd[n][i]) - Position(n)
         /\ \A i \in DOMAIN Order : z.sl.back[Order[i]] = IF i = 1 THEN NIL ELSE Order[i - 1]

(* The commands by score and by rank answer what the sorted set holds: the *)
(* elements in the range in order or in reverse, their number, and ranks,  *)
(* in both encodings alike.                                                *)
Within(r) == SelectSeq(Order, LAMBDA e : ScoreGteMin(ScoreMap[e], r) /\ ScoreLteMax(ScoreMap[e], r))
QueriesExact == z.enc # "none" =>
    /\ \A r \in ScoreRanges :
         /\ Zrangebyscore(r, FALSE, 0, -1) = Within(r)
         /\ Zrangebyscore(r, TRUE, 0, -1) = Reverse(Within(r))
         /\ Zrangebyscore(r, FALSE, 1, 1) = IF Len(Within(r)) > 1 THEN <<Within(r)[2]>> ELSE <<>>
         /\ Zcount(r) = Len(Within(r))
    /\ \A e \in Members : LET i == SelectInSeq(Order, LAMBDA x : x = e) IN
         /\ Zrank(e, FALSE) = i - 1
         /\ i # 0 => Zrank(e, TRUE) = Len(Order) - i
         /\ i # 0 => Zrange(i - 1, -1, FALSE) = SubSeq(Order, i, Len(Order))
         /\ i # 0 => Zrange(-i, -1, TRUE) = SubSeq(Reverse(Order), Len(Order) - i + 1, Len(Order))

(* With equal scores a lexicographic range is counted and answered exactly *)
(* too, whether the sorted set is a ziplist or a skip list.  (What         *)
(* ZREMRANGEBYLEX deletes is not compared with a reference.)  Not for an   *)
(* end that is - or + when the other, exclusive, end is the text of these  *)
(* objects: zslParseLexRangeItem's shared objects compare by their text    *)
(* when the range is tested for being empty.                               *)
SameScores == \A d \in DOMAIN ScoreMap, e \in DOMAIN ScoreMap : ScoreMap[d] = ScoreMap[e]
AfterMin(e, r) == CASE r.min.shared = "min" -> TRUE
                    [] r.min.shared = "max" -> FALSE
                    [] OTHER -> e > r.min.text \/ (e = r.min.text /\ ~r.minex)
BeforeMax(e, r) == CASE r.max.shared = "max" -> TRUE
                     [] r.max.shared = "min" -> FALSE
                     [] OTHER -> e < r.max.text \/ (e = r.max.text /\ ~r.maxex)
InLex(r) == SelectSeq(Order, LAMBDA e : AfterMin(e, r) /\ BeforeMax(e, r))
LexExact(r) ==
    /\ Zrangebylex(r, FALSE, 0, -1) = InLex(r)
    /\ Zrangebylex(r, TRUE, 0, -1) = Reverse(InLex(r))
    /\ Zlexcount(r) = Len(InLex(r))
Confused(r) ==
    r.min.text = r.max.text /\ (r.minex \/ r.maxex) /\ (r.min.shared # "" \/ r.max.shared # "")
LexQueriesExact ==
    z.enc # "none" /\ SameScores => \A r \in LexRanges : Confused(r) \/ LexExact(r)

(* All of it: the structure, and every answer read from it *)
SortedSetExact == SkipListExact /\ QueriesExact /\ LexQueriesExact

(* Both encodings implement the abstract sorted set. *)
Abstract == INSTANCE SortedSetSpec WITH
    Elements <- Members, ScoreValues <- Scores, scores <- ScoreMap,
    Combinations <- AllResults
ImplementsSortedSet == Abstract!Spec
=============================================================================
