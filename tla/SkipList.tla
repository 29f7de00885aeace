------------------------------- MODULE SkipList -------------------------------
(***************************************************************************)
(* The skip list of redis-stable/src/t_zset.c.  A node is an element (they *)
(* are numbered in the order of their strings) or the header; every node   *)
(* has, per level, the next node and the number of nodes this link spans.  *)
(*                                                                         *)
(* A score is in -Inf..Inf, the ends being the infinities.                 *)
(***************************************************************************)
EXTENDS Integers, Sequences, FiniteSets

CONSTANTS
    Count,       \* elements are 1..Count
    Inf,
    MaxLevel     \* ZSKIPLIST_MAXLEVEL

Members == 1..Count
Header == 0
NIL == -1
Scores == (-Inf)..Inf
Levels == 1..MaxLevel

(* zslCreate *)
ZslCreate ==
    [level |-> 1, length |-> 0, tail |-> NIL,
     score |-> [n \in Members |-> 0],
     back |-> [n \in Members |-> NIL],
     fwd |-> [n \in 0..Count |-> [i \in Levels |-> NIL]],
     span |-> [n \in 0..Count |-> [i \in Levels |-> 0]]]

(* The nodes with a score and an element before (s, e) *)
NodesBefore(sl, s, e) == {n \in Members : sl.score[n] < s \/ (sl.score[n] = s /\ n < e)}

(* The walk that the functions share: on each level from the highest down, *)
(* go forward while the next node is in ahead.  Per level, the node it     *)
(* stops at (update[i]) and the number of nodes passed (rank[i]).          *)
Walk(sl, ahead) ==
    LET w[i \in 1..sl.level] ==
            LET start == IF i = sl.level THEN [node |-> Header, rank |-> 0] ELSE w[i + 1]
                go[n \in 0..Count] ==
                    IF sl.fwd[n][i] = NIL \/ sl.fwd[n][i] \notin ahead THEN [node |-> n, rank |-> 0]
                    ELSE [go[sl.fwd[n][i]] EXCEPT !.rank = @ + sl.span[n][i]]
            IN [go[start.node] EXCEPT !.rank = @ + start.rank]
    IN w

(* The variant that leaves the links above the new node as they are. *)
SpanAboveKept(sl, n, i) == sl.span[n][i]

(* A link on a level above the new node passes over it. *)
SpanAbove(sl, n, i) == sl.span[n][i] + 1

(* zslInsert, with the level that zslRandomLevel gave *)
ZslInsert(sl, s, e, height) ==
    LET w == Walk(sl, NodesBefore(sl, s, e))
        top == IF height > sl.level THEN height ELSE sl.level
        old(i) == i <= sl.level
        update(i) == IF old(i) THEN w[i].node ELSE Header
        rank(i) == IF old(i) THEN w[i].rank ELSE 0
        span(i) == IF old(i) THEN sl.span[update(i)][i] ELSE sl.length
        gap(i) == w[1].rank - rank(i)
        next == sl.fwd[update(1)][1]
    IN [level |-> top, length |-> sl.length + 1,
        tail |-> IF next = NIL THEN e ELSE sl.tail,
        score |-> [sl.score EXCEPT ![e] = s],
        back |-> [n \in Members |->
                    IF n = e THEN (IF update(1) = Header THEN NIL ELSE update(1))
                    ELSE IF n = next THEN e ELSE sl.back[n]],
        fwd |-> [n \in 0..Count |-> [i \in Levels |->
                    IF i <= height /\ n = e THEN sl.fwd[update(i)][i]
                    ELSE IF i <= height /\ n = update(i) THEN e
                    ELSE sl.fwd[n][i]]],
        span |-> [n \in 0..Count |-> [i \in Levels |->
                    IF i <= height /\ n = e THEN span(i) - gap(i)
                    ELSE IF i <= height /\ n = update(i) THEN gap(i) + 1
                    ELSE IF i > height /\ i <= top /\ n = update(i) THEN SpanAbove(sl, n, i)
                    ELSE sl.span[n][i]]]]

(* zslDeleteNode: node x after the nodes of the walk w; the freed node is  *)
(* put back to what it was before, so that states are not told apart by it *)
ZslDeleteNode(sl, x, w) ==
    LET fwd == [n \in 0..Count |-> [i \in Levels |->
                  IF n = x THEN NIL
                  ELSE IF i <= sl.level /\ n = w[i].node /\ sl.fwd[n][i] = x THEN sl.fwd[x][i]
                  ELSE sl.fwd[n][i]]]
        span == [n \in 0..Count |-> [i \in Levels |->
                  IF n = x THEN 0
                  ELSE IF i > sl.level \/ n # w[i].node THEN sl.span[n][i]
                  ELSE IF sl.fwd[n][i] = x THEN sl.span[n][i] + sl.span[x][i] - 1
                  ELSE sl.span[n][i] - 1]]
        next == sl.fwd[x][1]
        used == {i \in 1..sl.level : i = 1 \/ fwd[Header][i] # NIL}
    IN [level |-> CHOOSE i \in used : \A j \in used : j <= i,
        length |-> sl.length - 1,
        tail |-> IF next = NIL THEN sl.back[x] ELSE sl.tail,
        score |-> [sl.score EXCEPT ![x] = 0],
        back |-> [n \in Members |-> IF n = x THEN NIL ELSE IF n = next THEN sl.back[x] ELSE sl.back[n]],
        fwd |-> fwd, span |-> span]

(* zslDelete *)
ZslDelete(sl, s, e) ==
    LET w == Walk(sl, NodesBefore(sl, s, e))
    IN IF sl.fwd[w[1].node][1] = e /\ sl.score[e] = s THEN ZslDeleteNode(sl, e, w) ELSE sl

(* The nodes one after the other, by the links of the lowest level *)
InOrder(sl) ==
    LET from[n \in 0..Count] == IF sl.fwd[n][1] = NIL THEN <<>>
                                ELSE <<sl.fwd[n][1]>> \o from[sl.fwd[n][1]]
    IN from[Header]

(* The loop of the range deletions: after the walk, nodes are deleted as   *)
(* long as they are in within.                                             *)
DeleteWhile(sl, ahead, within) ==
    LET w == Walk(sl, ahead)
        del[l \in 0..Count] ==
            IF l = 0 THEN sl
            ELSE LET x == del[l - 1].fwd[w[1].node][1]
                 IN IF x = NIL \/ x \notin within THEN del[l - 1]
                    ELSE ZslDeleteNode(del[l - 1], x, w)
    IN del[Count]

(* zslValueGteMin, zslValueLteMax: a range has ends min and max, each      *)
(* exclusive or not                                                        *)
ScoreGteMin(s, r) == IF r.minex THEN s > r.min ELSE s >= r.min
ScoreLteMax(s, r) == IF r.maxex THEN s < r.max ELSE s <= r.max

(* zslDeleteRangeByScore *)
ZslDeleteRangeByScore(sl, r) ==
    DeleteWhile(sl, {n \in Members : ~ScoreGteMin(sl.score[n], r)},
                {n \in Members : ScoreLteMax(sl.score[n], r)})

(* The walk that counts: forward while it passes at most limit nodes *)
WalkByRank(sl, limit) ==
    LET w[i \in 1..sl.level] ==
            LET start == IF i = sl.level THEN [node |-> Header, rank |-> 0] ELSE w[i + 1]
                go[n \in 0..Count, t \in 0..Count] ==
                    IF sl.fwd[n][i] = NIL \/ t + sl.span[n][i] > limit THEN [node |-> n, rank |-> t]
                    ELSE go[sl.fwd[n][i], t + sl.span[n][i]]
            IN go[start.node, start.rank]
    IN w

(* zslDeleteRangeByRank, ranks from 1 *)
ZslDeleteRangeByRank(sl, start, end) ==
    LET w == WalkByRank(sl, start - 1)
        del[l \in 0..Count] ==
            IF l = 0 THEN sl
            ELSE LET x == del[l - 1].fwd[w[1].node][1]
                 IN IF x = NIL \/ w[1].rank + l > end THEN del[l - 1]
                    ELSE ZslDeleteNode(del[l - 1], x, w)
    IN del[Count]

(* zslGetRank: on the first level where the walk ends at the element *)
ZslGetRank(sl, s, e) ==
    LET w == Walk(sl, NodesBefore(sl, s, e) \cup {n \in Members : n = e /\ sl.score[n] = s})
        at == {i \in 1..sl.level : w[i].node = e}
    IN IF at = {} THEN 0 ELSE w[CHOOSE i \in at : \A j \in at : j <= i].rank

(* zslGetElementByRank *)
ZslGetElementByRank(sl, rank) ==
    LET w == WalkByRank(sl, rank)
        at == {i \in 1..sl.level : w[i].rank = rank}
    IN IF at = {} THEN NIL ELSE w[CHOOSE i \in at : \A j \in at : j <= i].node

(* zslIsInRange *)
ZslIsInRange(sl, r) ==
    /\ ~(r.min > r.max \/ (r.min = r.max /\ (r.minex \/ r.maxex)))
    /\ sl.tail # NIL
    /\ ScoreGteMin(sl.score[sl.tail], r)
    /\ ScoreLteMax(sl.score[sl.fwd[Header][1]], r)

(* zslFirstInRange *)
ZslFirstInRange(sl, r) ==
    LET x == sl.fwd[Walk(sl, {n \in Members : ~ScoreGteMin(sl.score[n], r)})[1].node][1]
    IN IF ~ZslIsInRange(sl, r) THEN NIL
       ELSE IF ScoreLteMax(sl.score[x], r) THEN x ELSE NIL

(* zslLastInRange *)
ZslLastInRange(sl, r) ==
    LET x == Walk(sl, {n \in Members : ScoreLteMax(sl.score[n], r)})[1].node
    IN IF ~ZslIsInRange(sl, r) THEN NIL
       ELSE IF ScoreGteMin(sl.score[x], r) THEN x ELSE NIL

-----------------------------------------------------------------------------
(* Lexicographic ranges.  An end is a string, or one of the two shared     *)
(* objects for - and +, which are strings too.                             *)

CONSTANTS MinText, MaxText

MinString == [shared |-> "min", text |-> MinText]
MaxString == [shared |-> "max", text |-> MaxText]
Text(e) == [shared |-> "", text |-> e]

(* zslParseLexRangeItem: -, +, [text or (text *)
LexEnds == {[at |-> x, ex |-> FALSE] : x \in {MinString, MaxString}}
           \cup {[at |-> Text(e), ex |-> x] : e \in Members, x \in BOOLEAN}
LexRanges == {[min |-> a.at, minex |-> a.ex, max |-> b.at, maxex |-> b.ex] : a \in LexEnds, b \in LexEnds}

(* compareStringObjectsForLexRange *)
LexCompare(a, b) ==
    IF a = b /\ a.shared # "" THEN 0
    ELSE IF a.shared = "min" \/ b.shared = "max" THEN -1
    ELSE IF a.shared = "max" \/ b.shared = "min" THEN 1
    ELSE a.text - b.text

(* zslLexValueGteMin, zslLexValueLteMax *)
LexGteMin(e, r) == LET c == LexCompare(Text(e), r.min) IN IF r.minex THEN c > 0 ELSE c >= 0
LexLteMax(e, r) == LET c == LexCompare(Text(e), r.max) IN IF r.maxex THEN c < 0 ELSE c <= 0

(* The test of zslIsInLexRange and zzlIsInLexRange for a range that is     *)
(* always empty; the shared objects count as their text here.              *)
LexAlwaysEmpty(r) ==
    \/ LexCompare(r.min, r.max) > 1
    \/ r.min.text = r.max.text /\ (r.minex \/ r.maxex)

(* zslIsInLexRange *)
ZslIsInLexRange(sl, r) ==
    /\ ~LexAlwaysEmpty(r)
    /\ sl.tail # NIL
    /\ LexGteMin(sl.tail, r)
    /\ LexLteMax(sl.fwd[Header][1], r)

(* zslFirstInLexRange *)
ZslFirstInLexRange(sl, r) ==
    LET x == sl.fwd[Walk(sl, {n \in Members : ~LexGteMin(n, r)})[1].node][1]
    IN IF ~ZslIsInLexRange(sl, r) THEN NIL
       ELSE IF LexLteMax(x, r) THEN x ELSE NIL

(* zslLastInLexRange *)
ZslLastInLexRange(sl, r) ==
    LET x == Walk(sl, {n \in Members : LexLteMax(n, r)})[1].node
    IN IF ~ZslIsInLexRange(sl, r) THEN NIL
       ELSE IF LexGteMin(x, r) THEN x ELSE NIL

(* zslDeleteRangeByLex *)
ZslDeleteRangeByLex(sl, r) ==
    DeleteWhile(sl, {n \in Members : ~LexGteMin(n, r)}, {n \in Members : LexLteMax(n, r)})
=============================================================================
