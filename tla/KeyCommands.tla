----------------------------- MODULE KeyCommands -----------------------------
(* The commands of redis-stable/src/db.c on keys of any type that write. *)
EXTENDS Dataset

(* delCommand *)
DelCommand(D, k) == IF Has(D, k) THEN Changed(Delete(D, k), {k}) ELSE Unchanged(D)

(* flushdbCommand: dirty goes up by the number of keys *)
FlushdbCommand(D, db) ==
    LET ks == {k \in Keys : k[1] = db /\ Has(D, k)}
    IN IF ks = {} THEN Unchanged(D) ELSE Changed(DeleteAll(D, ks), ks)

(* flushallCommand *)
FlushallCommand(D) == Changed(DeleteAll(D, Keys), {k \in Keys : Has(D, k)})

(* renameGenericCommand: the expire goes with the key *)
RenameCommand(D, src, dst, nx) ==
    IF ~Has(D, src) \/ (nx /\ Has(D, dst)) THEN Unchanged(D)
    ELSE LET E == Put(Delete(D, dst), dst, D.val[src])
             F == IF D.ttl[src] THEN SetExpire(E, dst) ELSE E
         IN Changed(Delete(F, src), {src, dst})

(* moveCommand: the expire is lost and no key is signalled *)
MoveCommand(D, src, dst) ==
    IF ~Has(D, src) \/ Has(D, dst) THEN Unchanged(D)
    ELSE Changed(Delete(Put(D, dst, D.val[src]), src), {})

(* expireGenericCommand: a time in the past is replicated as DEL *)
ExpireCommand(D, k, past) ==
    IF ~Has(D, k) THEN Unchanged(D)
    ELSE IF past THEN RewrittenAs(Changed(Delete(D, k), {k}), <<"DEL", k>>)
    ELSE Changed(SetExpire(D, k), {k})

(* persistCommand *)
PersistCommand(D, k) ==
    IF Has(D, k) /\ D.ttl[k] THEN Changed(RemoveExpire(D, k), {}) ELSE Unchanged(D)
=============================================================================
