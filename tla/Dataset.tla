------------------------------- MODULE Dataset -------------------------------
(***************************************************************************)
(* The dataset of a Redis server as the commands see it                    *)
(* (redis-stable/src/db.c, object.c): for each key a value object and      *)
(* whether it has an expire.  A key is a pair of a database and a name.    *)
(*                                                                         *)
(* A string is a number in 0..MaxNumber (MaxNumber stands for LLONG_MAX),  *)
(* or -n for any other string of n bytes, their content not told apart.    *)
(* A packed aggregate is a ziplist or an intset, else a linked list or a   *)
(* hash table.                                                             *)
(*                                                                         *)
(* A command is a function from a dataset to a result: the dataset after   *)
(* it, whether server.dirty went up, the keys signalModifiedKey was called *)
(* for, and the command it was rewritten as for replication, if it was.    *)
(***************************************************************************)
EXTENDS Integers, Sequences, FiniteSets

CONSTANTS Keys, MaxNumber, MaxLength, MaxPacked, MaxIntset

IsNumber(s) == s >= 0

Absent == [type |-> "none"]
String(s) == [type |-> "string", content |-> s]
List(q, packed) == [type |-> "list", content |-> q, packed |-> packed]
Set(s, packed) == [type |-> "set", content |-> s, packed |-> packed]
Hash(h, packed) == [type |-> "hash", content |-> h, packed |-> packed]

Has(D, k) == D.val[k] # Absent
Is(D, k, t) == D.val[k].type = t
OfType(D, k, t) == D.val[k].type \in {t, "none"}

Size(o) ==
    IF o.type = "list" THEN Len(o.content)
    ELSE IF o.type = "set" THEN Cardinality(o.content)
    ELSE Cardinality(DOMAIN o.content)

-----------------------------------------------------------------------------
(* The primitives of db.c *)

(* dbAdd, dbOverwrite: the expire of the key stays. *)
Put(D, k, o) == [D EXCEPT !.val[k] = o]

(* removeExpire, setExpire *)
RemoveExpire(D, k) == [D EXCEPT !.ttl[k] = FALSE]
SetExpire(D, k) == [D EXCEPT !.ttl[k] = TRUE]

(* setKey: the key is made persistent. *)
SetKey(D, k, o) == RemoveExpire(Put(D, k, o), k)

(* dbDelete *)
Delete(D, k) == RemoveExpire(Put(D, k, Absent), k)

DeleteAll(D, ks) ==
    [val |-> [k \in Keys |-> IF k \in ks THEN Absent ELSE D.val[k]],
     ttl |-> [k \in Keys |-> k \notin ks /\ D.ttl[k]]]

(* What the commands on aggregates do when nothing is left. *)
PutOrDelete(D, k, o) == IF Size(o) = 0 THEN Delete(D, k) ELSE Put(D, k, o)

-----------------------------------------------------------------------------
(* Results *)

Changed(D, signalled) == [data |-> D, dirty |-> TRUE, signalled |-> signalled, as |-> <<>>]
Unchanged(D) == [data |-> D, dirty |-> FALSE, signalled |-> {}, as |-> <<>>]
RewrittenAs(r, c) == [r EXCEPT !.as = c]
=============================================================================
