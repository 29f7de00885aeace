---------------------------- MODULE ListCommands ----------------------------
(* The commands of redis-stable/src/t_list.c and sort.c that write, but    *)
(* for the blocking ones (BlockingLists).                                  *)
EXTENDS Dataset, SequencesExt

(* listTypeTryConversion, listTypePush and their like: the list q in place *)
(* of o, converted when it got too long for a ziplist.                     *)
Grown(o, q) == List(q, o.packed /\ Len(q) <= MaxPacked)

Pushed(q, e, left) == IF left THEN <<e>> \o q ELSE Append(q, e)

(* pushGenericCommand *)
PushCommand(D, k, e, left) ==
    LET o == IF Has(D, k) THEN D.val[k] ELSE List(<<>>, TRUE)
    IN IF ~OfType(D, k, "list") THEN Unchanged(D)
       ELSE Changed(Put(D, k, Grown(o, Pushed(o.content, e, left))), {k})

(* pushxGenericCommand without a pivot: LPUSHX, RPUSHX *)
PushxCommand(D, k, e, left) ==
    IF ~Is(D, k, "list") THEN Unchanged(D)
    ELSE Changed(Put(D, k, Grown(D.val[k], Pushed(D.val[k].content, e, left))), {k})

(* pushxGenericCommand with a pivot: LINSERT *)
LinsertCommand(D, k, pivot, e, after) ==
    LET o == D.val[k]
        at == {i \in DOMAIN o.content : o.content[i] = pivot}
        first == CHOOSE i \in at : \A j \in at : i <= j
    IN IF ~Is(D, k, "list") THEN Unchanged(D)
       ELSE IF at = {} THEN Unchanged(D)
       ELSE Changed(Put(D, k, Grown(o, InsertAt(o.content, IF after THEN first + 1 ELSE first, e))), {k})

(* lsetCommand *)
LsetCommand(D, k, index, e) ==
    LET o == D.val[k]
        i == IF index < 0 THEN Len(o.content) + index + 1 ELSE index + 1
    IN IF ~Is(D, k, "list") THEN Unchanged(D)
       ELSE IF i \notin DOMAIN o.content THEN Unchanged(D)
       ELSE Changed(Put(D, k, [o EXCEPT !.content[i] = e]), {k})

Popped(q, left) == IF left THEN Tail(q) ELSE Front(q)

(* popGenericCommand *)
PopCommand(D, k, left) ==
    IF ~Is(D, k, "list") THEN Unchanged(D)
    ELSE Changed(PutOrDelete(D, k, [D.val[k] EXCEPT !.content = Popped(@, left)]), {k})

(* ltrimCommand: counts as a change even when it removes nothing *)
LtrimCommand(D, k, start, end) ==
    LET o == D.val[k]
        n == Len(o.content)
        s == IF start >= 0 THEN start ELSE IF n + start > 0 THEN n + start ELSE 0
        e == IF end < 0 THEN n + end ELSE IF end >= n THEN n - 1 ELSE end
    IN IF ~Is(D, k, "list") THEN Unchanged(D)
       ELSE Changed(PutOrDelete(D, k, [o EXCEPT !.content = SubSeq(@, s + 1, e + 1)]), {k})

(* The elements of q at the positions I, in the order of the positions *)
Arranged(q, I, InOrder(_, _)) ==
    LET rank(i) == Cardinality({j \in I : InOrder(j, i)})
    IN [n \in 1..Cardinality(I) |-> q[CHOOSE i \in I : rank(i) = n]]

(* The elements of q that are not e *)
Without(q, e) == Arranged(q, {i \in DOMAIN q : q[i] # e}, <=)

(* lremCommand, for a count of 0 *)
LremCommand(D, k, e) ==
    LET o == D.val[k] IN
    IF ~Is(D, k, "list") THEN Unchanged(D)
    ELSE IF ~Contains(o.content, e) THEN Unchanged(D)
    ELSE Changed(PutOrDelete(D, k, [o EXCEPT !.content = Without(@, e)]), {k})

(* rpoplpushCommand: the target may be the source itself *)
RpoplpushCommand(D, src, dst) ==
    IF ~Is(D, src, "list") \/ ~OfType(D, dst, "list") THEN Unchanged(D)
    ELSE LET E == Put(D, src, [D.val[src] EXCEPT !.content = Front(@)])
             o == IF Has(E, dst) THEN E.val[dst] ELSE List(<<>>, TRUE)
             F == Put(E, dst, Grown(o, Pushed(o.content, Last(D.val[src].content), TRUE)))
         IN Changed(PutOrDelete(F, src, F.val[src]), {src, dst})

-----------------------------------------------------------------------------
(* SORT key [BY nosort] STORE dst *)

(* sortCompare, by number or (alpha) by string: some order of the elements *)
Before(a, b) == IF IsNumber(a) = IsNumber(b) THEN a <= b ELSE IsNumber(a)

(* The vector to sort: a set comes in the order of its hash table. *)
Vectors(o) == IF o.type = "set" THEN SetToSeqs(o.content) ELSE {o.content}

Sorted(q) ==
    LET InOrder(i, j) == IF q[i] = q[j] THEN i <= j ELSE Before(q[i], q[j])
    IN Arranged(q, DOMAIN q, InOrder)

(* With STORE even BY nosort is sorted, so that it is deterministic. *)
SortedForStore(q, nosort) == Sorted(q)

(* The end of sortCommand: the vector is stored *)
StoreList(D, dst, q) ==
    IF q # <<>> THEN Changed(SetKey(D, dst, Grown(List(<<>>, TRUE), q)), {dst})
    ELSE IF Has(D, dst) THEN Changed(Delete(D, dst), {dst}) ELSE Unchanged(D)

(* sortCommand: what is no number is no score either, but for BY nosort *)
SortCommand(D, k, dst, nosort) ==
    LET o == IF Has(D, k) THEN D.val[k] ELSE List(<<>>, TRUE) IN
    IF o.type \notin {"list", "set"} THEN {Unchanged(D)}
    ELSE {IF ~nosort /\ \E i \in DOMAIN q : ~IsNumber(q[i]) THEN Unchanged(D)
          ELSE StoreList(D, dst, SortedForStore(q, nosort)) : q \in Vectors(o)}
=============================================================================
