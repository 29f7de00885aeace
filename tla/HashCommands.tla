---------------------------- MODULE HashCommands ----------------------------
(* The commands of redis-stable/src/t_hash.c that write. *)
EXTENDS Dataset, Functions

(* hashTypeLookupWriteOrCreate, for a key that holds a hash or nothing *)
LookupHash(D, k) == IF Has(D, k) THEN D.val[k] ELSE Hash([f \in {} |-> 0], TRUE)

(* hashTypeTryConversion: a long value does not go into a ziplist *)
HashTypeTryConversion(o, s) == [o EXCEPT !.packed = @ /\ s >= -1]

(* hashTypeSet: nor do too many entries *)
HashTypeSet(o, f, s) ==
    LET h == [g \in DOMAIN o.content \cup {f} |-> IF g = f THEN s ELSE o.content[g]]
    IN Hash(h, o.packed /\ Cardinality(DOMAIN h) <= MaxPacked)

(* hsetCommand, hmsetCommand for one field *)
HsetCommand(D, k, f, s) ==
    IF ~OfType(D, k, "hash") THEN Unchanged(D)
    ELSE Changed(Put(D, k, HashTypeSet(HashTypeTryConversion(LookupHash(D, k), s), f, s)), {k})

(* hsetnxCommand: the hash may be converted for a value that is not set *)
HsetnxCommand(D, k, f, s) ==
    LET o == HashTypeTryConversion(LookupHash(D, k), s)
    IN IF ~OfType(D, k, "hash") THEN Unchanged(D)
       ELSE IF f \in DOMAIN o.content THEN Unchanged(Put(D, k, o))
       ELSE Changed(Put(D, k, HashTypeSet(o, f, s)), {k})

(* hmsetCommand, for two fields *)
HmsetCommand(D, k, f1, f2, s) ==
    LET o == HashTypeTryConversion(LookupHash(D, k), s)
    IN IF ~OfType(D, k, "hash") THEN Unchanged(D)
       ELSE Changed(Put(D, k, HashTypeSet(HashTypeSet(o, f1, s), f2, s)), {k})

FieldNumber(o, f) == IF f \in DOMAIN o.content THEN o.content[f] ELSE 0

(* hincrbyCommand *)
HincrbyCommand(D, k, f, n) ==
    LET o == LookupHash(D, k)
        old == FieldNumber(o, f)
    IN IF ~OfType(D, k, "hash") THEN Unchanged(D)
       ELSE IF ~IsNumber(old) \/ old + n \notin 0..MaxNumber THEN Unchanged(D)
       ELSE Changed(Put(D, k, HashTypeSet(o, f, old + n)), {k})

(* hincrbyfloatCommand, replicated as HSET with the final value *)
HincrbyfloatCommand(D, k, f, n) ==
    LET o == LookupHash(D, k)
        old == FieldNumber(o, f)
    IN IF ~OfType(D, k, "hash") THEN Unchanged(D)
       ELSE IF ~IsNumber(old) \/ old + n \notin 0..MaxNumber THEN Unchanged(D)
       ELSE RewrittenAs(Changed(Put(D, k, HashTypeSet(o, f, old + n)), {k}),
                        <<"HSET", k, f, old + n>>)

(* The variant that keeps a hash without fields. *)
HdelKeepingKey(D, k, f) ==
    IF ~Is(D, k, "hash") THEN Unchanged(D)
    ELSE IF f \notin DOMAIN D.val[k].content THEN Unchanged(D)
    ELSE LET o == D.val[k]
         IN Changed(Put(D, k, [o EXCEPT !.content = Restrict(@, DOMAIN @ \ {f})]), {k})

(* hashTypeDelete, hdelCommand *)
HdelCommand(D, k, f) ==
    IF ~Is(D, k, "hash") THEN Unchanged(D)
    ELSE IF f \notin DOMAIN D.val[k].content THEN Unchanged(D)
    ELSE LET o == D.val[k]
         IN Changed(PutOrDelete(D, k, [o EXCEPT !.content = Restrict(@, DOMAIN @ \ {f})]), {k})
=============================================================================
