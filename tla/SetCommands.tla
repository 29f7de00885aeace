----------------------------- MODULE SetCommands -----------------------------
(* The commands of redis-stable/src/t_set.c that write. *)
EXTENDS Dataset

(* setTypeCreate: a set that can hold e *)
SetTypeCreate(e) == Set({}, IsNumber(e))

(* setTypeAdd: an intset with too many or other elements is converted *)
SetTypeAdd(o, e) ==
    LET s == o.content \cup {e}
    IN Set(s, o.packed /\ IsNumber(e) /\ Cardinality(s) <= MaxIntset)

(* The elements of S added one after the other, to an intset at first *)
Collected(S) == Set(S, Cardinality(S) <= MaxIntset /\ \A e \in S : IsNumber(e))

(* setTypeRemove: there is no way back to an intset *)
SetTypeRemove(o, e) == Set(o.content \ {e}, o.packed)

(* saddCommand *)
SaddCommand(D, k, e) ==
    LET o == IF Has(D, k) THEN D.val[k] ELSE SetTypeCreate(e)
    IN IF ~OfType(D, k, "set") THEN Unchanged(D)
       ELSE IF e \in o.content THEN Unchanged(D)
       ELSE Changed(Put(D, k, SetTypeAdd(o, e)), {k})

(* sremCommand *)
SremCommand(D, k, e) ==
    IF ~Is(D, k, "set") THEN Unchanged(D)
    ELSE IF e \notin D.val[k].content THEN Unchanged(D)
    ELSE Changed(PutOrDelete(D, k, SetTypeRemove(D.val[k], e)), {k})

(* The variant that signals the source only. *)
SmoveSignalsSource(D, src, dst, e) ==
    IF ~Is(D, src, "set") \/ ~OfType(D, dst, "set") \/ src = dst THEN Unchanged(D)
    ELSE IF e \notin D.val[src].content THEN Unchanged(D)
    ELSE LET o == IF Has(D, dst) THEN D.val[dst] ELSE SetTypeCreate(e)
             E == PutOrDelete(D, src, SetTypeRemove(D.val[src], e))
         IN Changed(Put(E, dst, SetTypeAdd(o, e)), {src})

(* smoveCommand *)
SmoveCommand(D, src, dst, e) ==
    IF ~Is(D, src, "set") \/ ~OfType(D, dst, "set") \/ src = dst THEN Unchanged(D)
    ELSE IF e \notin D.val[src].content THEN Unchanged(D)
    ELSE LET o == IF Has(D, dst) THEN D.val[dst] ELSE SetTypeCreate(e)
             E == PutOrDelete(D, src, SetTypeRemove(D.val[src], e))
         IN Changed(Put(E, dst, SetTypeAdd(o, e)), {src, dst})

(* The variant of spopCommand that is replicated as it is. *)
SpopReplicated(D, k) ==
    IF ~Is(D, k, "set") THEN {Unchanged(D)}
    ELSE {Changed(PutOrDelete(D, k, SetTypeRemove(D.val[k], e)), {k}) : e \in D.val[k].content}

(* spopCommand: one of the elements, replicated as SREM *)
SpopCommand(D, k) ==
    IF ~Is(D, k, "set") THEN {Unchanged(D)}
    ELSE {RewrittenAs(Changed(PutOrDelete(D, k, SetTypeRemove(D.val[k], e)), {k}), <<"SREM", k, e>>) :
            e \in D.val[k].content}

(* The result set of a STORE command replaces the target, or deletes it *)
StoreSet(D, dst, o) ==
    Changed(IF o.content = {} THEN Delete(D, dst) ELSE Put(Delete(D, dst), dst, o), {dst})

(* sinterGenericCommand: nothing but the target counts if a set is missing *)
SinterstoreCommand(D, dst, a, b) ==
    IF ~Has(D, a) \/ (Is(D, a, "set") /\ ~Has(D, b))
    THEN IF Has(D, dst) THEN Changed(Delete(D, dst), {dst}) ELSE Unchanged(D)
    ELSE IF ~Is(D, a, "set") \/ ~Is(D, b, "set") THEN Unchanged(D)
    ELSE StoreSet(D, dst, Collected(D.val[a].content \cap D.val[b].content))

Members(D, k) == IF Has(D, k) THEN D.val[k].content ELSE {}

(* sunionDiffGenericCommand, REDIS_OP_UNION *)
SunionstoreCommand(D, dst, a, b) ==
    IF ~OfType(D, a, "set") \/ ~OfType(D, b, "set") THEN Unchanged(D)
    ELSE StoreSet(D, dst, Collected(Members(D, a) \cup Members(D, b)))

(* sunionDiffGenericCommand, REDIS_OP_DIFF: the first algorithm collects   *)
(* what is in the first set only, the second takes elements out of a copy  *)
(* of the first set.                                                       *)
FirstAlgorithm(D, a, b) ==
    LET n == Cardinality(Members(D, a))
        m == Cardinality(Members(D, b))
    IN (IF Has(D, b) THEN 2 * n ELSE n) \div 2 <= n + m

SdiffstoreCommand(D, dst, a, b) ==
    LET diff == IF a = b THEN {} ELSE Members(D, a) \ Members(D, b)
    IN IF ~OfType(D, a, "set") \/ ~OfType(D, b, "set") THEN Unchanged(D)
       ELSE IF FirstAlgorithm(D, a, b) THEN StoreSet(D, dst, Collected(diff))
       ELSE StoreSet(D, dst, Set(diff, Collected(Members(D, a)).packed))
=============================================================================
