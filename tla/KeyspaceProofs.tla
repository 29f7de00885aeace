--------------------------- MODULE KeyspaceProofs ---------------------------
(***************************************************************************)
(* The commands of Keyspace, for any keys, fields, elements and limits.    *)
(* Two lemmas are proved for each command: XLeaves, what it leaves behind  *)
(* is sound and what it changes it signals, and XReplays, what it is       *)
(* propagated as does the same on a replica, which may have other          *)
(* encodings and lack expires.  From them follows that every step keeps    *)
(* InStep, the inductive invariant.  The HyperLogLog values, which share   *)
(* no state with it, have an invariant of their own at the end.            *)
(***************************************************************************)
EXTENDS HllKeyspace, SequenceTheorems, FiniteSetTheorems, TLAPS

(* The values of each type, the packed ones within the limits *)
ListValue(o) ==
    /\ o \in [type : {"list"}, content : Seq(Int), packed : BOOLEAN]
    /\ o.packed => Len(o.content) <= MaxPacked

SetValue(o) ==
    /\ o \in [type : {"set"}, content : SUBSET Int, packed : BOOLEAN]
    /\ IsFiniteSet(o.content)
    /\ o.packed => Cardinality(o.content) <= MaxIntset /\ \A e \in o.content : IsNumber(e)

HashValue(o) ==
    /\ o = Hash(o.content, o.packed) /\ o.packed \in BOOLEAN
    /\ o.content = [f \in DOMAIN o.content |-> o.content[f]]
    /\ IsFiniteSet(DOMAIN o.content)
    /\ o.packed => Cardinality(DOMAIN o.content) <= MaxPacked

Aggregate(o) == ListValue(o) \/ SetValue(o) \/ HashValue(o)

(* What a key may hold: an aggregate has elements. *)
Present(o) == o = String(o.content) \/ (Aggregate(o) /\ Size(o) > 0)
Value(o) == o = Absent \/ Present(o)

(* A dataset with such values, and expires of keys that are there *)
IsDataset(D) ==
    /\ D = [val |-> D.val, ttl |-> D.ttl]
    /\ D.val = [k \in Keys |-> D.val[k]]
    /\ D.ttl \in [Keys -> BOOLEAN]
Sound(D) ==
    /\ IsDataset(D)
    /\ \A k \in Keys : Value(D.val[k])
    /\ \A k \in Keys : D.ttl[k] => Has(D, k)

(* The same value, apart from its encoding *)
Same(o, p) == o.type = p.type /\ (o # Absent => o.content = p.content)

(* The keys outside ks have the same values in D and E. *)
Keeps(D, E, ks) == \A k \in Keys \ ks : Same(D.val[k], E.val[k])

(* R is a replica of D: it may lack expires. *)
Like(D, R) ==
    /\ \A k \in Keys : Same(D.val[k], R.val[k])
    /\ \A k \in Keys : R.ttl[k] => D.ttl[k]

(* What a command with result r leaves behind on dataset D is sound, and a *)
(* change was signalled.                                                   *)
Leaves(D, r) == Sound(r.data) /\ Keeps(D, r.data, r.signalled)

(* The master that replied r is still like its replica, with dataset R     *)
(* before: r was propagated, and q is the result there, or it was not.     *)
Replays(r, q, R) == IF r.dirty THEN Like(r.data, q.data) ELSE Like(r.data, R)

-----------------------------------------------------------------------------
(* Values *)

LEMMA ValueTypes ==
    ASSUME NEW o, Value(o)
    PROVE /\ o = Absent <=> o.type = "none"
          /\ o.type = "string" => o = String(o.content)
          /\ o.type = "list" => ListValue(o)
          /\ o.type = "set" => SetValue(o)
          /\ o.type = "hash" => HashValue(o)
          /\ o.type \in {"list", "set", "hash"} => Size(o) > 0
  BY DEF Value, Present, Aggregate, ListValue, SetValue, HashValue, Hash, String, Absent

(* Two values that are the same are there or not together. *)
LEMMA SameTypes ==
    ASSUME NEW o, NEW p, Value(o), Value(p), Same(o, p)
    PROVE (o = Absent <=> p = Absent) /\ o.type = p.type /\ (o # Absent => o.content = p.content)
  BY ValueTypes DEF Same

LEMMA SameItself == ASSUME NEW o PROVE Same(o, o)
  BY DEF Same

LEMMA StringIsPresent == ASSUME NEW s PROVE Present(String(s)) /\ String(s) # Absent /\ String(s).type = "string" /\ String(s).content = s
  BY DEF Present, String, Absent

LEMMA AggregateIsPresent ==
    ASSUME NEW o, Aggregate(o), Size(o) # 0
    PROVE Present(o) /\ o # Absent
  <1>1. CASE ListValue(o)
    <2>1. Len(o.content) \in Nat /\ Size(o) = Len(o.content)
      BY <1>1 DEF ListValue, Size
    <2> QED
      BY <2>1, <1>1 DEF Present, Absent, ListValue
  <1>2. CASE SetValue(o)
    <2>1. Cardinality(o.content) \in Nat /\ Size(o) = Cardinality(o.content)
      BY <1>2, FS_CardinalityType DEF SetValue, Size
    <2> QED
      BY <2>1, <1>2 DEF Present, Absent, SetValue
  <1>3. CASE HashValue(o)
    <2>1. Cardinality(DOMAIN o.content) \in Nat /\ Size(o) = Cardinality(DOMAIN o.content)
      BY <1>3, FS_CardinalityType DEF HashValue, Size, Hash
    <2> QED
      BY <2>1, <1>3 DEF Present, Absent, HashValue, Hash
  <1> QED
    BY <1>1, <1>2, <1>3 DEF Aggregate

-----------------------------------------------------------------------------
(* The primitives of db.c *)

LEMMA SoundFacts ==
    ASSUME NEW D, Sound(D), NEW k \in Keys
    PROVE /\ Value(D.val[k]) /\ D.ttl[k] \in BOOLEAN /\ (D.ttl[k] => Has(D, k))
          /\ Has(D, k) <=> D.val[k].type # "none"
          /\ \A t : Is(D, k, t) <=> D.val[k].type = t
          /\ \A t : OfType(D, k, t) <=> D.val[k].type \in {t, "none"}
  BY ValueTypes DEF Sound, IsDataset, Has, Is, OfType

LEMMA PutVal ==
    ASSUME NEW D, IsDataset(D), NEW k \in Keys, NEW o
    PROVE Put(D, k, o).val[k] = o /\ \A j \in Keys \ {k} : Put(D, k, o).val[j] = D.val[j]
  BY DEF Put, IsDataset

LEMMA PutTtl ==
    ASSUME NEW D, IsDataset(D), NEW k \in Keys, NEW o
    PROVE Put(D, k, o).ttl = D.ttl
  BY DEF Put, IsDataset

LEMMA PutDataset ==
    ASSUME NEW D, IsDataset(D), NEW k \in Keys, NEW o
    PROVE IsDataset(Put(D, k, o))
  BY DEF Put, IsDataset

LEMMA PutSound ==
    ASSUME NEW D, Sound(D), NEW k \in Keys, NEW o, Present(o), o # Absent
    PROVE Sound(Put(D, k, o))
  <1> DEFINE E == Put(D, k, o)
  <1>1. IsDataset(E)
    BY PutDataset DEF Sound
  <1>2. E.val[k] = o /\ \A j \in Keys \ {k} : E.val[j] = D.val[j]
    BY PutVal DEF Sound
  <1>3. E.ttl = D.ttl
    BY PutTtl DEF Sound
  <1> HIDE DEF E
  <1> SUFFICES Sound(E)
    BY DEF E
  <1> QED
    BY <1>1, <1>2, <1>3 DEF Sound, Value, Has

LEMMA RemoveExpireVal ==
    ASSUME NEW D, IsDataset(D), NEW k \in Keys
    PROVE RemoveExpire(D, k).val = D.val
  BY DEF RemoveExpire, IsDataset

LEMMA RemoveExpireTtl ==
    ASSUME NEW D, IsDataset(D), NEW k \in Keys
    PROVE ~RemoveExpire(D, k).ttl[k] /\ \A j \in Keys \ {k} : RemoveExpire(D, k).ttl[j] = D.ttl[j]
  <1>1. ~RemoveExpire(D, k).ttl[k]
    BY DEF RemoveExpire, IsDataset
  <1>2. \A j \in Keys \ {k} : RemoveExpire(D, k).ttl[j] = D.ttl[j]
    BY DEF RemoveExpire, IsDataset
  <1> QED
    BY <1>1, <1>2

LEMMA SetExpireVal ==
    ASSUME NEW D, IsDataset(D), NEW k \in Keys
    PROVE SetExpire(D, k).val = D.val
  BY DEF SetExpire, IsDataset

LEMMA SetExpireTtl ==
    ASSUME NEW D, IsDataset(D), NEW k \in Keys
    PROVE SetExpire(D, k).ttl[k] /\ \A j \in Keys \ {k} : SetExpire(D, k).ttl[j] = D.ttl[j]
  <1>1. SetExpire(D, k).ttl[k]
    BY DEF SetExpire, IsDataset
  <1>2. \A j \in Keys \ {k} : SetExpire(D, k).ttl[j] = D.ttl[j]
    BY DEF SetExpire, IsDataset
  <1> QED
    BY <1>1, <1>2

LEMMA ExpireDataset ==
    ASSUME NEW D, IsDataset(D), NEW k \in Keys
    PROVE IsDataset(RemoveExpire(D, k)) /\ IsDataset(SetExpire(D, k))
  <1> DEFINE Shaped(E) == E = [val |-> E.val, ttl |-> E.ttl]
  <1>1. \A x : Shaped([D EXCEPT !.ttl[k] = x])
    BY DEF IsDataset
  <1> HIDE DEF Shaped
  <1>2. Shaped(RemoveExpire(D, k)) /\ Shaped(SetExpire(D, k))
    BY <1>1, Zenon DEF RemoveExpire, SetExpire
  <1>3. RemoveExpire(D, k).val = D.val /\ RemoveExpire(D, k).ttl \in [Keys -> BOOLEAN]
    BY DEF RemoveExpire, IsDataset
  <1>4. SetExpire(D, k).val = D.val /\ SetExpire(D, k).ttl \in [Keys -> BOOLEAN]
    BY DEF SetExpire, IsDataset
  <1>5. D.val = [j \in Keys |-> D.val[j]]
    BY DEF IsDataset
  <1> QED
    BY <1>2, <1>3, <1>4, <1>5 DEF Shaped, IsDataset

LEMMA RemoveExpireSound ==
    ASSUME NEW D, Sound(D), NEW k \in Keys
    PROVE Sound(RemoveExpire(D, k))
  <1> DEFINE E == RemoveExpire(D, k)
  <1>1. IsDataset(E)
    BY ExpireDataset DEF Sound
  <1>2. E.val = D.val
    BY RemoveExpireVal DEF Sound
  <1>3. ~E.ttl[k] /\ \A j \in Keys \ {k} : E.ttl[j] = D.ttl[j]
    BY RemoveExpireTtl DEF Sound
  <1> HIDE DEF E
  <1> SUFFICES Sound(E)
    BY DEF E
  <1> QED
    BY <1>1, <1>2, <1>3 DEF Sound, Has

LEMMA SetExpireSound ==
    ASSUME NEW D, Sound(D), NEW k \in Keys, Has(D, k)
    PROVE Sound(SetExpire(D, k))
  <1> DEFINE E == SetExpire(D, k)
  <1>1. IsDataset(E)
    BY ExpireDataset DEF Sound
  <1>2. E.val = D.val
    BY SetExpireVal DEF Sound
  <1>3. E.ttl[k] /\ \A j \in Keys \ {k} : E.ttl[j] = D.ttl[j]
    BY SetExpireTtl DEF Sound
  <1> HIDE DEF E
  <1> SUFFICES Sound(E)
    BY DEF E
  <1> QED
    BY <1>1, <1>2, <1>3 DEF Sound, Has

LEMMA SetKeyDataset ==
    ASSUME NEW D, IsDataset(D), NEW k \in Keys, NEW o
    PROVE IsDataset(SetKey(D, k, o))
  BY PutDataset, ExpireDataset DEF SetKey

LEMMA SetKeyVal ==
    ASSUME NEW D, IsDataset(D), NEW k \in Keys, NEW o
    PROVE SetKey(D, k, o).val[k] = o /\ \A j \in Keys \ {k} : SetKey(D, k, o).val[j] = D.val[j]
  <1> DEFINE E == Put(D, k, o)
  <1>1. IsDataset(E) /\ SetKey(D, k, o) = RemoveExpire(E, k)
    BY PutDataset DEF SetKey
  <1>2. E.val[k] = o /\ \A j \in Keys \ {k} : E.val[j] = D.val[j]
    BY PutVal
  <1> HIDE DEF E
  <1>3. RemoveExpire(E, k).val = E.val
    BY <1>1, RemoveExpireVal
  <1> QED
    BY <1>1, <1>2, <1>3

LEMMA SetKeyTtl ==
    ASSUME NEW D, IsDataset(D), NEW k \in Keys, NEW o
    PROVE ~SetKey(D, k, o).ttl[k] /\ \A j \in Keys \ {k} : SetKey(D, k, o).ttl[j] = D.ttl[j]
  <1> DEFINE E == Put(D, k, o)
  <1>1. IsDataset(E) /\ SetKey(D, k, o) = RemoveExpire(E, k)
    BY PutDataset DEF SetKey
  <1>2. E.ttl = D.ttl
    BY PutTtl
  <1> HIDE DEF E
  <1>3. ~RemoveExpire(E, k).ttl[k] /\ \A j \in Keys \ {k} : RemoveExpire(E, k).ttl[j] = E.ttl[j]
    BY <1>1, RemoveExpireTtl
  <1> QED
    BY <1>1, <1>2, <1>3

LEMMA SetKeySound ==
    ASSUME NEW D, Sound(D), NEW k \in Keys, NEW o, Present(o), o # Absent
    PROVE Sound(SetKey(D, k, o))
  BY PutSound, RemoveExpireSound DEF SetKey

LEMMA DeleteIsSetKey == ASSUME NEW D, NEW k PROVE Delete(D, k) = SetKey(D, k, Absent)
  BY DEF Delete, SetKey

LEMMA DeleteVal ==
    ASSUME NEW D, IsDataset(D), NEW k \in Keys
    PROVE Delete(D, k).val[k] = Absent /\ \A j \in Keys \ {k} : Delete(D, k).val[j] = D.val[j]
  BY DeleteIsSetKey, SetKeyVal

LEMMA DeleteTtl ==
    ASSUME NEW D, IsDataset(D), NEW k \in Keys
    PROVE ~Delete(D, k).ttl[k] /\ \A j \in Keys \ {k} : Delete(D, k).ttl[j] = D.ttl[j]
  BY DeleteIsSetKey, SetKeyTtl

LEMMA DeleteSound ==
    ASSUME NEW D, Sound(D), NEW k \in Keys
    PROVE Sound(Delete(D, k))
  <1> DEFINE E == Delete(D, k)
  <1>1. IsDataset(E)
    BY DeleteIsSetKey, SetKeyDataset DEF Sound
  <1>2. E.val[k] = Absent /\ \A j \in Keys \ {k} : E.val[j] = D.val[j]
    BY DeleteVal DEF Sound
  <1>3. ~E.ttl[k] /\ \A j \in Keys \ {k} : E.ttl[j] = D.ttl[j]
    BY DeleteTtl DEF Sound
  <1> HIDE DEF E
  <1> SUFFICES Sound(E)
    BY DEF E
  <1> QED
    BY <1>1, <1>2, <1>3 DEF Sound, Value, Has

LEMMA DeleteAllVal ==
    ASSUME NEW D, NEW ks, NEW k \in Keys
    PROVE DeleteAll(D, ks).val[k] = IF k \in ks THEN Absent ELSE D.val[k]
  BY DEF DeleteAll

LEMMA DeleteAllTtl ==
    ASSUME NEW D, NEW ks, NEW k \in Keys
    PROVE DeleteAll(D, ks).ttl[k] <=> k \notin ks /\ D.ttl[k]
  BY DEF DeleteAll

LEMMA DeleteAllSound ==
    ASSUME NEW D, Sound(D), NEW ks
    PROVE Sound(DeleteAll(D, ks))
  BY DEF DeleteAll, Sound, IsDataset, Value, Has

LEMMA PutOrDeleteSound ==
    ASSUME NEW D, Sound(D), NEW k \in Keys, NEW o, Aggregate(o)
    PROVE Sound(PutOrDelete(D, k, o))
  BY PutSound, DeleteSound, AggregateIsPresent DEF PutOrDelete

LEMMA PutOrDeleteVal ==
    ASSUME NEW D, IsDataset(D), NEW k \in Keys, NEW o
    PROVE \A j \in Keys \ {k} : PutOrDelete(D, k, o).val[j] = D.val[j]
  <1>1. CASE Size(o) = 0
    BY <1>1, DeleteVal DEF PutOrDelete
  <1>2. CASE Size(o) # 0
    BY <1>2, PutVal DEF PutOrDelete
  <1> QED
    BY <1>1, <1>2

-----------------------------------------------------------------------------
(* A master and its replica *)

LEMMA Twins ==
    ASSUME NEW D, NEW R, Sound(D), Sound(R), Like(D, R), NEW k \in Keys
    PROVE /\ Has(D, k) <=> Has(R, k)
          /\ D.val[k].type = R.val[k].type
          /\ Has(D, k) => D.val[k].content = R.val[k].content
          /\ Value(D.val[k]) /\ Value(R.val[k])
  BY SameTypes DEF Sound, Like, Has

LEMMA LikePut ==
    ASSUME NEW D, NEW R, IsDataset(D), IsDataset(R), Like(D, R), NEW k \in Keys, NEW o, NEW p, Same(o, p)
    PROVE Like(Put(D, k, o), Put(R, k, p))
  <1>1. \A j \in Keys : Same(Put(D, k, o).val[j], Put(R, k, p).val[j])
    BY PutVal DEF Like
  <1>2. Put(D, k, o).ttl = D.ttl /\ Put(R, k, p).ttl = R.ttl
    BY PutTtl
  <1> QED
    BY <1>1, <1>2 DEF Like

LEMMA LikeRemoveExpire ==
    ASSUME NEW D, NEW R, IsDataset(D), IsDataset(R), Like(D, R), NEW k \in Keys
    PROVE Like(RemoveExpire(D, k), RemoveExpire(R, k)) /\ Like(D, RemoveExpire(R, k))
  <1>1. RemoveExpire(D, k).val = D.val /\ RemoveExpire(R, k).val = R.val
    BY RemoveExpireVal
  <1>2. \A j \in Keys : RemoveExpire(R, k).ttl[j] => j # k /\ R.ttl[j]
    BY RemoveExpireTtl
  <1>3. \A j \in Keys : j # k /\ D.ttl[j] => RemoveExpire(D, k).ttl[j]
    BY RemoveExpireTtl
  <1> QED
    BY <1>1, <1>2, <1>3 DEF Like

LEMMA LikeSetExpire ==
    ASSUME NEW D, NEW R, IsDataset(D), IsDataset(R), Like(D, R), NEW k \in Keys
    PROVE Like(SetExpire(D, k), SetExpire(R, k)) /\ Like(SetExpire(D, k), R)
  <1>1. SetExpire(D, k).val = D.val /\ SetExpire(R, k).val = R.val
    BY SetExpireVal
  <1>2. \A j \in Keys : SetExpire(R, k).ttl[j] => j = k \/ R.ttl[j]
    BY SetExpireTtl
  <1>3. \A j \in Keys : j = k \/ D.ttl[j] => SetExpire(D, k).ttl[j]
    BY SetExpireTtl
  <1> QED
    BY <1>1, <1>2, <1>3 DEF Like

LEMMA LikeSetKey ==
    ASSUME NEW D, NEW R, IsDataset(D), IsDataset(R), Like(D, R), NEW k \in Keys, NEW o, NEW p, Same(o, p)
    PROVE Like(SetKey(D, k, o), SetKey(R, k, p)) /\ Like(Put(D, k, o), SetKey(R, k, p))
  <1>1. IsDataset(Put(D, k, o)) /\ IsDataset(Put(R, k, p))
    BY PutDataset
  <1>2. Like(Put(D, k, o), Put(R, k, p))
    BY LikePut
  <1> QED
    BY <1>1, <1>2, LikeRemoveExpire DEF SetKey

LEMMA LikeDelete ==
    ASSUME NEW D, NEW R, IsDataset(D), IsDataset(R), Like(D, R), NEW k \in Keys
    PROVE Like(Delete(D, k), Delete(R, k))
  BY LikeSetKey, DeleteIsSetKey, SameItself

LEMMA LikeDeleteAll ==
    ASSUME NEW D, NEW R, Like(D, R), NEW ks
    PROVE Like(DeleteAll(D, ks), DeleteAll(R, ks))
  <1>1. \A k \in Keys : Same(DeleteAll(D, ks).val[k], DeleteAll(R, ks).val[k])
    BY DeleteAllVal, SameItself DEF Like
  <1>2. \A k \in Keys : DeleteAll(R, ks).ttl[k] => DeleteAll(D, ks).ttl[k]
    BY DeleteAllTtl DEF Like
  <1> QED
    BY <1>1, <1>2 DEF Like

LEMMA LikePutOrDelete ==
    ASSUME NEW D, NEW R, IsDataset(D), IsDataset(R), Like(D, R), NEW k \in Keys,
           NEW o, NEW p, Same(o, p), o # Absent, Size(o) = Size(p)
    PROVE Like(PutOrDelete(D, k, o), PutOrDelete(R, k, p))
  <1>1. CASE Size(o) = 0
    BY <1>1, LikeDelete DEF PutOrDelete
  <1>2. CASE Size(o) # 0
    BY <1>2, LikePut DEF PutOrDelete
  <1> QED
    BY <1>1, <1>2

(* Results *)
LEMMA ChangedFields ==
    ASSUME NEW D, NEW ks, NEW c
    PROVE /\ Changed(D, ks).data = D /\ Changed(D, ks).dirty /\ Changed(D, ks).signalled = ks
          /\ RewrittenAs(Changed(D, ks), c).data = D /\ RewrittenAs(Changed(D, ks), c).dirty
          /\ RewrittenAs(Changed(D, ks), c).signalled = ks
          /\ Changed(D, ks).as = <<>> /\ RewrittenAs(Changed(D, ks), c).as = c
  BY DEF Changed, RewrittenAs

LEMMA UnchangedFields ==
    ASSUME NEW D
    PROVE /\ Unchanged(D).data = D /\ ~Unchanged(D).dirty /\ Unchanged(D).signalled = {}
          /\ Unchanged(D).as = <<>>
  BY DEF Unchanged

LEMMA LeavesChanged ==
    ASSUME NEW D, NEW E, NEW ks, Sound(E), \A k \in Keys \ ks : E.val[k] = D.val[k]
    PROVE Leaves(D, Changed(E, ks)) /\ \A c : Leaves(D, RewrittenAs(Changed(E, ks), c))
  BY ChangedFields, SameItself DEF Leaves, Keeps

LEMMA LeavesUnchanged == ASSUME NEW D, Sound(D) PROVE Leaves(D, Unchanged(D))
  BY UnchangedFields, SameItself DEF Leaves, Keeps

LEMMA ReplaysChanged ==
    ASSUME NEW E, NEW F, NEW ks, NEW ls, NEW R, Like(E, F)
    PROVE /\ Replays(Changed(E, ks), Changed(F, ls), R)
          /\ \A c : Replays(RewrittenAs(Changed(E, ks), c), Changed(F, ls), R)
          /\ \A c, d : Replays(RewrittenAs(Changed(E, ks), c), RewrittenAs(Changed(F, ls), d), R)
  BY ChangedFields DEF Replays

LEMMA ReplaysUnchanged ==
    ASSUME NEW D, NEW R, Like(D, R), NEW q
    PROVE Replays(Unchanged(D), q, R)
  BY UnchangedFields DEF Replays

-----------------------------------------------------------------------------
(* The commands on strings *)

LEMMA SetLeaves ==
    ASSUME NEW D, Sound(D), NEW k \in Keys, NEW s, NEW cond, NEW expire
    PROVE Leaves(D, SetCommand(D, k, s, cond, expire))
  <1> DEFINE E == SetKey(D, k, String(s))
             F == IF expire THEN SetExpire(E, k) ELSE E
  <1>1. Sound(E) /\ E.val[k] = String(s) /\ \A j \in Keys \ {k} : E.val[j] = D.val[j]
    BY StringIsPresent, SetKeySound, SetKeyVal DEF Sound
  <1> HIDE DEF E
  <1>2. Has(E, k)
    BY <1>1, StringIsPresent DEF Has
  <1>3. Sound(SetExpire(E, k)) /\ SetExpire(E, k).val = E.val
    BY <1>1, <1>2, SetExpireSound, SetExpireVal DEF Sound
  <1>4. Sound(F) /\ \A j \in Keys \ {k} : F.val[j] = D.val[j]
    BY <1>1, <1>3
  <1>5. SetCommand(D, k, s, cond, expire) \in {Unchanged(D), Changed(F, {k})}
    BY DEF SetCommand, E
  <1> HIDE DEF F
  <1> QED
    BY <1>4, <1>5, LeavesChanged, LeavesUnchanged

LEMMA SetReplays ==
    ASSUME NEW D, NEW R, Sound(D), Sound(R), Like(D, R), NEW k \in Keys, NEW s, NEW cond, NEW expire
    PROVE Replays(SetCommand(D, k, s, cond, expire), SetCommand(R, k, s, cond, expire), R)
  <1> DEFINE E(C) == SetKey(C, k, String(s))
             F(C) == IF expire THEN SetExpire(E(C), k) ELSE E(C)
             none == (cond = "NX" /\ Has(D, k)) \/ (cond = "XX" /\ ~Has(D, k))
  <1>1. Has(D, k) <=> Has(R, k)
    BY Twins
  <1>2. IsDataset(E(D)) /\ IsDataset(E(R)) /\ Like(E(D), E(R))
    BY SetKeyDataset, LikeSetKey, SameItself DEF Sound
  <1>3. Like(F(D), F(R))
    BY <1>2, LikeSetExpire
  <1>4. CASE none
    BY <1>4, ReplaysUnchanged DEF SetCommand
  <1>5. CASE ~none
    BY <1>1, <1>3, <1>5, ReplaysChanged DEF SetCommand
  <1> QED
    BY <1>4, <1>5

(* A command that sets k to the string s, if that is allowed *)
LEMMA PutStringLeaves ==
    ASSUME NEW D, Sound(D), NEW k \in Keys, NEW s, NEW c
    PROVE /\ Leaves(D, Changed(Put(D, k, String(s)), {k}))
          /\ Leaves(D, RewrittenAs(Changed(Put(D, k, String(s)), {k}), c))
          /\ Leaves(D, Changed(SetKey(D, k, String(s)), {k}))
  <1>1. Sound(Put(D, k, String(s))) /\ \A j \in Keys \ {k} : Put(D, k, String(s)).val[j] = D.val[j]
    BY StringIsPresent, PutSound, PutVal DEF Sound
  <1>2. Sound(SetKey(D, k, String(s))) /\ \A j \in Keys \ {k} : SetKey(D, k, String(s)).val[j] = D.val[j]
    BY StringIsPresent, SetKeySound, SetKeyVal DEF Sound
  <1> QED
    BY <1>1, <1>2, LeavesChanged

LEMMA PutStringReplays ==
    ASSUME NEW D, NEW R, Sound(D), Sound(R), Like(D, R), NEW k \in Keys, NEW s
    PROVE /\ Like(Put(D, k, String(s)), Put(R, k, String(s)))
          /\ Like(Put(D, k, String(s)), SetKey(R, k, String(s)))
          /\ Like(SetKey(D, k, String(s)), SetKey(R, k, String(s)))
  BY LikePut, LikeSetKey, SameItself DEF Sound

LEMMA StringLeaves ==
    ASSUME NEW D, Sound(D), NEW k \in Keys, NEW s
    PROVE /\ Leaves(D, GetsetCommand(D, k, s))
          /\ Leaves(D, IncrbyCommand(D, k, s))
          /\ Leaves(D, IncrbyfloatCommand(D, k, s))
          /\ Leaves(D, AppendCommand(D, k, s))
          /\ Leaves(D, SetrangeCommand(D, k, s))
          /\ Leaves(D, SetbitCommand(D, k))
  <1>1. Leaves(D, GetsetCommand(D, k, s))
    BY PutStringLeaves, LeavesUnchanged DEF GetsetCommand
  <1>2. Leaves(D, IncrbyCommand(D, k, s))
    BY PutStringLeaves, LeavesUnchanged DEF IncrbyCommand
  <1>3. Leaves(D, IncrbyfloatCommand(D, k, s))
    BY PutStringLeaves, LeavesUnchanged DEF IncrbyfloatCommand
  <1>4. Leaves(D, AppendCommand(D, k, s))
    BY PutStringLeaves, LeavesUnchanged DEF AppendCommand
  <1>5. Leaves(D, SetrangeCommand(D, k, s))
    BY PutStringLeaves, LeavesUnchanged DEF SetrangeCommand
  <1>6. Leaves(D, SetbitCommand(D, k))
    BY PutStringLeaves, LeavesUnchanged DEF SetbitCommand
  <1> QED
    BY <1>1, <1>2, <1>3, <1>4, <1>5, <1>6

LEMMA MsetLeaves ==
    ASSUME NEW D, Sound(D), NEW k1 \in Keys, NEW s1, NEW k2 \in Keys, NEW s2, NEW nx
    PROVE Leaves(D, MsetCommand(D, k1, s1, k2, s2, nx))
  <1> DEFINE E == SetKey(D, k1, String(s1))
             F == SetKey(E, k2, String(s2))
  <1>1. Sound(E) /\ \A j \in Keys \ {k1} : E.val[j] = D.val[j]
    BY StringIsPresent, SetKeySound, SetKeyVal DEF Sound
  <1> HIDE DEF E
  <1>2. Sound(F) /\ \A j \in Keys \ {k2} : F.val[j] = E.val[j]
    BY <1>1, StringIsPresent, SetKeySound, SetKeyVal DEF Sound
  <1> HIDE DEF F
  <1>3. Leaves(D, Changed(F, {k1, k2}))
    BY <1>1, <1>2, LeavesChanged
  <1> QED
    BY <1>3, LeavesUnchanged DEF MsetCommand, E, F

LEMMA BitopLeaves ==
    ASSUME NEW D, Sound(D), NEW dst \in Keys, NEW srcs
    PROVE Leaves(D, BitopCommand(D, dst, srcs))
  <1>1. \A s : Leaves(D, Changed(SetKey(D, dst, String(s)), {dst}))
    BY PutStringLeaves
  <1>2. Sound(Delete(D, dst)) /\ \A j \in Keys \ {dst} : Delete(D, dst).val[j] = D.val[j]
    BY DeleteSound, DeleteVal DEF Sound
  <1>3. ~Has(D, dst) => Delete(D, dst).val[dst] = D.val[dst]
    BY DeleteVal DEF Sound, Has
  <1>4. Leaves(D, Changed(Delete(D, dst), IF Has(D, dst) THEN {dst} ELSE {}))
    <2>1. CASE Has(D, dst)
      BY <1>2, <2>1, LeavesChanged
    <2>2. CASE ~Has(D, dst)
      <3>1. \A j \in Keys \ {} : Delete(D, dst).val[j] = D.val[j]
        BY <1>2, <1>3, <2>2
      <3> QED
        BY <1>2, <2>2, <3>1, LeavesChanged
    <2> QED
      BY <2>1, <2>2
  <1> QED
    BY <1>1, <1>4, LeavesUnchanged, Zenon DEF BitopCommand

LEMMA StringReplays ==
    ASSUME NEW D, NEW R, Sound(D), Sound(R), Like(D, R), NEW k \in Keys, NEW s
    PROVE /\ Replays(GetsetCommand(D, k, s), GetsetCommand(R, k, s), R)
          /\ Replays(IncrbyCommand(D, k, s), IncrbyCommand(R, k, s), R)
          /\ Replays(AppendCommand(D, k, s), AppendCommand(R, k, s), R)
          /\ Replays(SetrangeCommand(D, k, s), SetrangeCommand(R, k, s), R)
          /\ Replays(SetbitCommand(D, k), SetbitCommand(R, k), R)
  <1>a. Has(D, k) <=> Has(R, k)
    BY Twins
  <1>b. D.val[k].type = R.val[k].type /\ (Has(D, k) => D.val[k].content = R.val[k].content)
    BY Twins
  <1>c. \A x : /\ Like(Put(D, k, String(x)), Put(R, k, String(x)))
               /\ Like(SetKey(D, k, String(x)), SetKey(R, k, String(x)))
    BY PutStringReplays
  <1>1. Replays(GetsetCommand(D, k, s), GetsetCommand(R, k, s), R)
    BY <1>a, <1>b, <1>c, ReplaysChanged, ReplaysUnchanged DEF GetsetCommand, OfType
  <1>2. Replays(IncrbyCommand(D, k, s), IncrbyCommand(R, k, s), R)
    BY <1>a, <1>b, <1>c, ReplaysChanged, ReplaysUnchanged DEF IncrbyCommand, OfType
  <1>3. Replays(AppendCommand(D, k, s), AppendCommand(R, k, s), R)
    BY <1>a, <1>b, <1>c, ReplaysChanged, ReplaysUnchanged DEF AppendCommand, OfType
  <1>4. Replays(SetrangeCommand(D, k, s), SetrangeCommand(R, k, s), R)
    BY <1>a, <1>b, <1>c, ReplaysChanged, ReplaysUnchanged DEF SetrangeCommand, OfType
  <1>5. Replays(SetbitCommand(D, k), SetbitCommand(R, k), R)
    BY <1>a, <1>b, <1>c, ReplaysChanged, ReplaysUnchanged DEF SetbitCommand, OfType
  <1> QED
    BY <1>1, <1>2, <1>3, <1>4, <1>5

(* INCRBYFLOAT is propagated as SET with the value. *)
LEMMA PlainSet ==
    ASSUME NEW R, NEW k, NEW s, NEW e, ~e
    PROVE SetCommand(R, k, s, "ALWAYS", e).data = SetKey(R, k, String(s))
  BY DEF SetCommand, Changed

LEMMA PlainSetFields ==
    ASSUME NEW k, NEW s, NEW c, c = <<"SET", k, s, "ALWAYS", FALSE>>
    PROVE c # <<>> /\ c[1] = "SET" /\ c[2] = k /\ c[3] = s /\ c[4] = "ALWAYS"
  OBVIOUS

LEMMA PlainSetExpire ==
    ASSUME NEW k, NEW s, NEW c, c = <<"SET", k, s, "ALWAYS", FALSE>>
    PROVE ~c[5]
  OBVIOUS

LEMMA IncrbyfloatReplays ==
    ASSUME NEW D, NEW R, Sound(D), Sound(R), Like(D, R), NEW k \in Keys, NEW n
    PROVE LET r == IncrbyfloatCommand(D, k, n)
              c == r.as
          IN /\ ~r.dirty => Like(r.data, R)
             /\ r.dirty => /\ c # <<>> /\ c[1] = "SET" /\ c[2] = k
                           /\ Like(r.data, SetCommand(R, k, c[3], c[4], c[5]).data)
  <1> DEFINE r == IncrbyfloatCommand(D, k, n)
  <1>1. CASE r = Unchanged(D)
    BY <1>1, UnchangedFields
  <1>2. ASSUME NEW s, r = RewrittenAs(Changed(Put(D, k, String(s)), {k}), <<"SET", k, s, "ALWAYS", FALSE>>)
        PROVE /\ r.dirty /\ r.as # <<>> /\ r.as[1] = "SET" /\ r.as[2] = k
              /\ Like(r.data, SetCommand(R, k, r.as[3], r.as[4], r.as[5]).data)
    <2> HIDE DEF r
    <2>1. r.dirty /\ r.data = Put(D, k, String(s))
      BY <1>2 DEF Changed, RewrittenAs
    <2> DEFINE c == r.as
    <2>2. c = <<"SET", k, s, "ALWAYS", FALSE>>
      BY <1>2 DEF Changed, RewrittenAs
    <2> HIDE DEF c
    <2>3. c # <<>> /\ c[1] = "SET" /\ c[2] = k /\ c[3] = s /\ c[4] = "ALWAYS"
      BY <2>2, PlainSetFields
    <2>4. ~c[5]
      BY <2>2, PlainSetExpire
    <2>5. SetCommand(R, k, s, "ALWAYS", c[5]).data = SetKey(R, k, String(s))
      BY <2>4, PlainSet
    <2>6. Like(Put(D, k, String(s)), SetKey(R, k, String(s)))
      BY PutStringReplays
    <2> QED
      BY <2>1, <2>3, <2>5, <2>6 DEF c
  <1>3. \/ r = Unchanged(D)
        \/ \E s : r = RewrittenAs(Changed(Put(D, k, String(s)), {k}), <<"SET", k, s, "ALWAYS", FALSE>>)
    BY DEF IncrbyfloatCommand
  <1> QED
    BY <1>1, <1>2, <1>3

LEMMA MsetReplays ==
    ASSUME NEW D, NEW R, Sound(D), Sound(R), Like(D, R),
           NEW k1 \in Keys, NEW s1, NEW k2 \in Keys, NEW s2, NEW nx
    PROVE Replays(MsetCommand(D, k1, s1, k2, s2, nx), MsetCommand(R, k1, s1, k2, s2, nx), R)
  <1> DEFINE E(C) == SetKey(C, k1, String(s1))
             F(C) == SetKey(E(C), k2, String(s2))
  <1>1. (Has(D, k1) <=> Has(R, k1)) /\ (Has(D, k2) <=> Has(R, k2))
    BY Twins
  <1>2. IsDataset(E(D)) /\ IsDataset(E(R)) /\ Like(E(D), E(R))
    BY SetKeyDataset, LikeSetKey, SameItself DEF Sound
  <1>3. Like(F(D), F(R))
    BY <1>2, LikeSetKey, SameItself
  <1> QED
    BY <1>1, <1>3, ReplaysChanged, ReplaysUnchanged DEF MsetCommand

LEMMA BitopReplays ==
    ASSUME NEW D, NEW R, Sound(D), Sound(R), Like(D, R), NEW dst \in Keys, NEW srcs \in SUBSET Keys
    PROVE Replays(BitopCommand(D, dst, srcs), BitopCommand(R, dst, srcs), R)
  <1> DEFINE lens(C) == {Length(C.val[k].content) : k \in {s \in srcs : Has(C, s)}}
             longest(C) == CHOOSE m \in lens(C) : \A l \in lens(C) : l <= m
             wrong(C) == \E k \in srcs : ~OfType(C, k, "string")
  <1>1. \A k \in srcs : /\ Has(D, k) <=> Has(R, k)
                        /\ D.val[k].type = R.val[k].type
                        /\ Has(D, k) => D.val[k].content = R.val[k].content
    BY Twins
  <1>2. lens(D) = lens(R)
    BY <1>1
  <1>3. wrong(D) <=> wrong(R)
    BY <1>1 DEF OfType
  <1>4. longest(D) = longest(R)
    BY <1>2
  <1>5. \A C : BitopCommand(C, dst, srcs) =
            IF wrong(C) THEN Unchanged(C)
            ELSE IF lens(C) # {} THEN Changed(SetKey(C, dst, String(-longest(C))), {dst})
            ELSE Changed(Delete(C, dst), IF Has(C, dst) THEN {dst} ELSE {})
    BY Zenon DEF BitopCommand
  <1>6. Like(SetKey(D, dst, String(-longest(D))), SetKey(R, dst, String(-longest(D))))
    BY PutStringReplays
  <1>7. Like(Delete(D, dst), Delete(R, dst))
    BY LikeDelete DEF Sound
  <1> HIDE DEF lens, longest, wrong
  <1> QED
    BY <1>2, <1>3, <1>4, <1>5, <1>6, <1>7, ReplaysChanged, ReplaysUnchanged

-----------------------------------------------------------------------------
(* The commands on keys of any type, except SORT *)

LEMMA HeldIsPresent ==
    ASSUME NEW D, Sound(D), NEW k \in Keys, Has(D, k)
    PROVE Present(D.val[k]) /\ D.val[k] # Absent
  BY DEF Sound, Value, Has

LEMMA DelLeaves ==
    ASSUME NEW D, Sound(D), NEW k \in Keys
    PROVE /\ Leaves(D, Changed(Delete(D, k), {k}))
          /\ Leaves(D, DelCommand(D, k))
  <1>1. Sound(Delete(D, k)) /\ \A j \in Keys \ {k} : Delete(D, k).val[j] = D.val[j]
    BY DeleteSound, DeleteVal DEF Sound
  <1>2. Leaves(D, Changed(Delete(D, k), {k}))
    BY <1>1, LeavesChanged
  <1> QED
    BY <1>2, LeavesUnchanged DEF DelCommand

LEMMA DelReplays ==
    ASSUME NEW D, NEW R, Sound(D), Sound(R), Like(D, R), NEW k \in Keys
    PROVE Replays(DelCommand(D, k), DelCommand(R, k), R)
  BY Twins, LikeDelete, ReplaysChanged, ReplaysUnchanged DEF DelCommand, Sound

LEMMA FlushLeaves ==
    ASSUME NEW D, Sound(D), NEW db
    PROVE Leaves(D, FlushdbCommand(D, db)) /\ Leaves(D, FlushallCommand(D))
  <1> DEFINE ks == {k \in Keys : k[1] = db /\ Has(D, k)}
             all == {k \in Keys : Has(D, k)}
  <1>1. \A k \in Keys \ ks : DeleteAll(D, ks).val[k] = D.val[k]
    BY DeleteAllVal
  <1>2. \A k \in Keys \ all : DeleteAll(D, Keys).val[k] = D.val[k]
    BY DeleteAllVal DEF Has
  <1> HIDE DEF ks, all
  <1>3. Leaves(D, Changed(DeleteAll(D, ks), ks)) /\ Leaves(D, Changed(DeleteAll(D, Keys), all))
    BY <1>1, <1>2, DeleteAllSound, LeavesChanged
  <1> QED
    BY <1>3, LeavesUnchanged DEF FlushdbCommand, FlushallCommand, ks, all

LEMMA FlushReplays ==
    ASSUME NEW D, NEW R, Sound(D), Sound(R), Like(D, R), NEW db
    PROVE /\ Replays(FlushdbCommand(D, db), FlushdbCommand(R, db), R)
          /\ Replays(FlushallCommand(D), FlushallCommand(R), R)
  <1> DEFINE ks(C) == {k \in Keys : k[1] = db /\ Has(C, k)}
             all(C) == {k \in Keys : Has(C, k)}
  <1>1. ks(D) = ks(R)
    BY Twins
  <1>2. Like(DeleteAll(D, ks(D)), DeleteAll(R, ks(D))) /\ Like(DeleteAll(D, Keys), DeleteAll(R, Keys))
    BY LikeDeleteAll
  <1>3. \A C : FlushdbCommand(C, db) = IF ks(C) = {} THEN Unchanged(C) ELSE Changed(DeleteAll(C, ks(C)), ks(C))
    BY Zenon DEF FlushdbCommand
  <1>4. \A C : FlushallCommand(C) = Changed(DeleteAll(C, Keys), all(C))
    BY Zenon DEF FlushallCommand
  <1> HIDE DEF ks, all
  <1> QED
    BY <1>1, <1>2, <1>3, <1>4, ReplaysChanged, ReplaysUnchanged

LEMMA RenameLeaves ==
    ASSUME NEW D, Sound(D), NEW src \in Keys, NEW dst \in Keys, src # dst, NEW nx
    PROVE Leaves(D, RenameCommand(D, src, dst, nx))
  <1> DEFINE C == Delete(D, dst)
             E == Put(C, dst, D.val[src])
             F == IF D.ttl[src] THEN SetExpire(E, dst) ELSE E
             G == Delete(F, src)
  <1>1. CASE ~Has(D, src) \/ (nx /\ Has(D, dst))
    BY <1>1, LeavesUnchanged DEF RenameCommand
  <1>2. CASE ~(~Has(D, src) \/ (nx /\ Has(D, dst)))
    <2>1. Present(D.val[src]) /\ D.val[src] # Absent
      BY <1>2, HeldIsPresent
    <2>2. Sound(C) /\ \A j \in Keys \ {dst} : C.val[j] = D.val[j]
      BY DeleteSound, DeleteVal DEF Sound
    <2> HIDE DEF C
    <2>3. Sound(E)
      BY <2>1, <2>2, PutSound
    <2>4. E.val[dst] = D.val[src] /\ \A j \in Keys \ {dst} : E.val[j] = C.val[j]
      BY <2>2, PutVal DEF Sound
    <2> HIDE DEF E
    <2>5. Sound(SetExpire(E, dst)) /\ SetExpire(E, dst).val = E.val
      BY <2>1, <2>3, <2>4, SetExpireSound, SetExpireVal DEF Sound, Has
    <2>6. Sound(F) /\ F.val = E.val
      BY <2>3, <2>5
    <2> HIDE DEF F
    <2>7. Sound(G) /\ \A j \in Keys \ {src} : G.val[j] = F.val[j]
      BY <2>6, DeleteSound, DeleteVal DEF Sound
    <2> HIDE DEF G
    <2>8. Leaves(D, Changed(G, {src, dst}))
      BY <2>2, <2>4, <2>6, <2>7, LeavesChanged
    <2>9. RenameCommand(D, src, dst, nx) = Changed(G, {src, dst})
      BY <1>2 DEF RenameCommand, G, F, E, C
    <2> QED
      BY <2>8, <2>9
  <1> QED
    BY <1>1, <1>2

LEMMA RenameReplays ==
    ASSUME NEW D, NEW R, Sound(D), Sound(R), Like(D, R),
           NEW src \in Keys, NEW dst \in Keys, src # dst, NEW nx
    PROVE Replays(RenameCommand(D, src, dst, nx), RenameCommand(R, src, dst, nx), R)
  <1> DEFINE E(C) == Put(Delete(C, dst), dst, C.val[src])
             F(C) == IF C.ttl[src] THEN SetExpire(E(C), dst) ELSE E(C)
             no(C) == ~Has(C, src) \/ (nx /\ Has(C, dst))
  <1>1. no(D) <=> no(R)
    BY Twins
  <1>2. IsDataset(Delete(D, dst)) /\ IsDataset(Delete(R, dst)) /\ Like(Delete(D, dst), Delete(R, dst))
    BY DeleteSound, LikeDelete DEF Sound
  <1>3. Same(D.val[src], R.val[src]) /\ (R.ttl[src] => D.ttl[src])
    BY DEF Like
  <1>4. IsDataset(E(D)) /\ IsDataset(E(R)) /\ Like(E(D), E(R))
    BY <1>2, <1>3, PutDataset, LikePut
  <1> HIDE DEF E
  <1>5. IsDataset(F(D)) /\ IsDataset(F(R)) /\ Like(F(D), F(R))
    BY <1>3, <1>4, ExpireDataset, LikeSetExpire
  <1> HIDE DEF F
  <1>6. Like(Delete(F(D), src), Delete(F(R), src))
    BY <1>5, LikeDelete
  <1>7. \A C : RenameCommand(C, src, dst, nx) = IF no(C) THEN Unchanged(C) ELSE Changed(Delete(F(C), src), {src, dst})
    BY Zenon DEF RenameCommand, F, E
  <1> HIDE DEF no
  <1> QED
    BY <1>1, <1>6, <1>7, ReplaysChanged, ReplaysUnchanged

(* MOVE leaves a sound dataset, but does not signal. *)
LEMMA MoveSound ==
    ASSUME NEW D, Sound(D), NEW src \in Keys, NEW dst \in Keys
    PROVE Sound(MoveCommand(D, src, dst).data)
  <1>1. CASE ~Has(D, src) \/ Has(D, dst)
    BY <1>1, UnchangedFields DEF MoveCommand
  <1>2. CASE ~(~Has(D, src) \/ Has(D, dst))
    <2>1. Sound(Put(D, dst, D.val[src]))
      BY <1>2, HeldIsPresent, PutSound
    <2>2. Sound(Delete(Put(D, dst, D.val[src]), src))
      BY <2>1, DeleteSound
    <2>3. MoveCommand(D, src, dst) = Changed(Delete(Put(D, dst, D.val[src]), src), {})
      BY <1>2 DEF MoveCommand
    <2> QED
      BY <2>2, <2>3 DEF Changed
  <1> QED
    BY <1>1, <1>2

LEMMA MoveReplays ==
    ASSUME NEW D, NEW R, Sound(D), Sound(R), Like(D, R), NEW src \in Keys, NEW dst \in Keys
    PROVE Replays(MoveCommand(D, src, dst), MoveCommand(R, src, dst), R)
  <1>1. (Has(D, src) <=> Has(R, src)) /\ (Has(D, dst) <=> Has(R, dst))
    BY Twins
  <1>2. IsDataset(Put(D, dst, D.val[src])) /\ IsDataset(Put(R, dst, R.val[src]))
    BY PutDataset DEF Sound
  <1>3. Like(Put(D, dst, D.val[src]), Put(R, dst, R.val[src]))
    <2>1. Same(D.val[src], R.val[src])
      BY DEF Like
    <2> QED
      BY <2>1, LikePut DEF Sound
  <1>4. Like(Delete(Put(D, dst, D.val[src]), src), Delete(Put(R, dst, R.val[src]), src))
    BY <1>2, <1>3, LikeDelete
  <1> QED
    BY <1>1, <1>4, ReplaysChanged, ReplaysUnchanged DEF MoveCommand

LEMMA ExpireLeaves ==
    ASSUME NEW D, Sound(D), NEW k \in Keys, NEW past
    PROVE Leaves(D, ExpireCommand(D, k, past)) /\ Leaves(D, PersistCommand(D, k))
  <1>1. Sound(Delete(D, k)) /\ \A j \in Keys \ {k} : Delete(D, k).val[j] = D.val[j]
    BY DeleteSound, DeleteVal DEF Sound
  <1>2. Leaves(D, RewrittenAs(Changed(Delete(D, k), {k}), <<"DEL", k>>))
    BY <1>1, LeavesChanged
  <1>3. Has(D, k) => Sound(SetExpire(D, k)) /\ SetExpire(D, k).val = D.val
    BY SetExpireSound, SetExpireVal DEF Sound
  <1>4. Has(D, k) => Leaves(D, Changed(SetExpire(D, k), {k}))
    BY <1>3, LeavesChanged
  <1>5. Sound(RemoveExpire(D, k)) /\ RemoveExpire(D, k).val = D.val
    BY RemoveExpireSound, RemoveExpireVal DEF Sound
  <1>6. Leaves(D, Changed(RemoveExpire(D, k), {}))
    BY <1>5, LeavesChanged
  <1> QED
    BY <1>2, <1>4, <1>6, LeavesUnchanged DEF ExpireCommand, PersistCommand

(* EXPIRE with a time in the past is propagated as DEL. *)
LEMMA ExpireReplays ==
    ASSUME NEW D, NEW R, Sound(D), Sound(R), Like(D, R), NEW k \in Keys, NEW past
    PROVE LET r == ExpireCommand(D, k, past)
          IN \/ r.as = <<>> /\ Replays(r, ExpireCommand(R, k, past), R)
             \/ r.as = <<"DEL", k>> /\ Replays(r, DelCommand(R, k), R)
  <1>1. Has(D, k) <=> Has(R, k)
    BY Twins
  <1>2. CASE ~Has(D, k)
    BY <1>2, ReplaysUnchanged, UnchangedFields DEF ExpireCommand
  <1>3. CASE Has(D, k) /\ past
    <2>1. Like(Delete(D, k), Delete(R, k))
      BY LikeDelete DEF Sound
    <2>2. DelCommand(R, k) = Changed(Delete(R, k), {k})
      BY <1>1, <1>3 DEF DelCommand
    <2>3. ExpireCommand(D, k, past) = RewrittenAs(Changed(Delete(D, k), {k}), <<"DEL", k>>)
      BY <1>3 DEF ExpireCommand
    <2>4. RewrittenAs(Changed(Delete(D, k), {k}), <<"DEL", k>>).as = <<"DEL", k>>
      BY DEF RewrittenAs, Changed
    <2> QED
      BY <2>1, <2>2, <2>3, <2>4, ReplaysChanged
  <1>4. CASE Has(D, k) /\ ~past
    <2>1. Like(SetExpire(D, k), SetExpire(R, k))
      BY LikeSetExpire DEF Sound
    <2>2. /\ ExpireCommand(D, k, past) = Changed(SetExpire(D, k), {k})
          /\ ExpireCommand(R, k, past) = Changed(SetExpire(R, k), {k})
      BY <1>1, <1>4 DEF ExpireCommand
    <2>3. Changed(SetExpire(D, k), {k}).as = <<>>
      BY DEF Changed
    <2> QED
      BY <2>1, <2>2, <2>3, ReplaysChanged
  <1> QED
    BY <1>2, <1>3, <1>4

(* The replica may lack the expire that PERSIST removes. *)
LEMMA PersistReplays ==
    ASSUME NEW D, NEW R, Sound(D), Sound(R), Like(D, R), NEW k \in Keys
    PROVE Replays(PersistCommand(D, k), PersistCommand(R, k), R)
  <1>1. Has(D, k) <=> Has(R, k)
    BY Twins
  <1>2. Like(RemoveExpire(D, k), RemoveExpire(R, k))
    BY LikeRemoveExpire DEF Sound
  <1>3. ~R.ttl[k] => Like(RemoveExpire(D, k), R)
    <2>1. RemoveExpire(D, k).val = D.val
      BY RemoveExpireVal DEF Sound
    <2>2. \A j \in Keys \ {k} : RemoveExpire(D, k).ttl[j] = D.ttl[j]
      BY RemoveExpireTtl DEF Sound
    <2> QED
      BY <2>1, <2>2 DEF Like
  <1>4. CASE Has(D, k) /\ D.ttl[k]
    <2>1. PersistCommand(D, k) = Changed(RemoveExpire(D, k), {})
      BY <1>4 DEF PersistCommand
    <2>2. CASE R.ttl[k]
      BY <1>1, <1>2, <1>4, <2>1, <2>2, ReplaysChanged DEF PersistCommand
    <2>3. CASE ~R.ttl[k]
      <3>1. PersistCommand(R, k) = Unchanged(R)
        BY <2>3 DEF PersistCommand
      <3> QED
        BY <1>3, <2>1, <2>3, <3>1 DEF Replays, Changed, Unchanged
    <2> QED
      BY <2>2, <2>3
  <1>5. CASE ~(Has(D, k) /\ D.ttl[k])
    BY <1>5, ReplaysUnchanged DEF PersistCommand
  <1> QED
    BY <1>4, <1>5

-----------------------------------------------------------------------------
(* The commands on hashes *)

(* A value, or an empty hash in its place *)
LEMMA LookupHashIsHash ==
    ASSUME NEW D, Sound(D), NEW k \in Keys, OfType(D, k, "hash")
    PROVE HashValue(LookupHash(D, k))
  <1>1. CASE Has(D, k)
    BY <1>1, ValueTypes DEF Sound, LookupHash, OfType, Has
  <1>2. CASE ~Has(D, k)
    <2> DEFINE h == [f \in {} |-> 0]
    <2>1. DOMAIN h = {} /\ h = [f \in DOMAIN h |-> h[f]]
      OBVIOUS
    <2>2. LookupHash(D, k) = Hash(h, TRUE)
      BY <1>2 DEF LookupHash
    <2> HIDE DEF h
    <2>3. IsFiniteSet(DOMAIN h) /\ Cardinality(DOMAIN h) <= MaxPacked
      BY <2>1, FS_EmptySet, KeyspaceAssumption
    <2> QED
      BY <2>1, <2>2, <2>3 DEF HashValue, Hash
  <1> QED
    BY <1>1, <1>2

LEMMA ConversionIsHash ==
    ASSUME NEW o, HashValue(o), NEW s
    PROVE /\ HashValue(HashTypeTryConversion(o, s))
          /\ HashTypeTryConversion(o, s).type = o.type /\ HashTypeTryConversion(o, s).content = o.content
  BY DEF HashValue, HashTypeTryConversion, Hash

LEMMA SetFieldIsHash ==
    ASSUME NEW o, HashValue(o), NEW f, NEW s
    PROVE /\ HashValue(HashTypeSet(o, f, s))
          /\ Size(HashTypeSet(o, f, s)) # 0
          /\ f \in DOMAIN HashTypeSet(o, f, s).content
  <1> DEFINE F == DOMAIN o.content \cup {f}
             h == [g \in F |-> IF g = f THEN s ELSE o.content[g]]
             p == o.packed /\ Cardinality(F) <= MaxPacked
  <1>1. DOMAIN h = F /\ h = [g \in DOMAIN h |-> h[g]]
    OBVIOUS
  <1>3. f \in F
    OBVIOUS
  <1>2. IsFiniteSet(F) /\ Cardinality(F) \in Nat /\ Cardinality(F) # 0
    <2>1. IsFiniteSet(DOMAIN o.content)
      BY DEF HashValue
    <2>2. IsFiniteSet(F)
      BY <2>1, FS_AddElement
    <2> HIDE DEF F
    <2> QED
      BY <1>3, <2>2, FS_CardinalityType, FS_EmptySet
  <1>4. HashTypeSet(o, f, s) = Hash(h, o.packed /\ Cardinality(DOMAIN h) <= MaxPacked)
    BY DEF HashTypeSet
  <1>5. o.packed \in BOOLEAN
    BY DEF HashValue
  <1> HIDE DEF F, h
  <1> DEFINE q == o.packed /\ Cardinality(DOMAIN h) <= MaxPacked
  <1>6. q \in BOOLEAN /\ (q => Cardinality(DOMAIN h) <= MaxPacked)
    BY <1>5
  <1> HIDE DEF q
  <1>7. HashValue(Hash(h, q))
    BY <1>1, <1>2, <1>6 DEF HashValue, Hash
  <1>8. Size(Hash(h, q)) = Cardinality(F) /\ DOMAIN Hash(h, q).content = F
    BY <1>1 DEF Size, Hash
  <1> QED
    BY <1>2, <1>3, <1>4, <1>7, <1>8 DEF q

LEMMA PutAggregateLeaves ==
    ASSUME NEW D, Sound(D), NEW k \in Keys, NEW o, Aggregate(o), Size(o) # 0, NEW c
    PROVE /\ Leaves(D, Changed(Put(D, k, o), {k}))
          /\ Leaves(D, RewrittenAs(Changed(Put(D, k, o), {k}), c))
  <1>1. Sound(Put(D, k, o)) /\ \A j \in Keys \ {k} : Put(D, k, o).val[j] = D.val[j]
    BY AggregateIsPresent, PutSound, PutVal DEF Sound
  <1> QED
    BY <1>1, LeavesChanged

LEMMA PutOrDeleteLeaves ==
    ASSUME NEW D, Sound(D), NEW k \in Keys, NEW o, Aggregate(o), NEW c
    PROVE /\ Leaves(D, Changed(PutOrDelete(D, k, o), {k}))
          /\ Leaves(D, RewrittenAs(Changed(PutOrDelete(D, k, o), {k}), c))
  <1>1. Sound(PutOrDelete(D, k, o)) /\ \A j \in Keys \ {k} : PutOrDelete(D, k, o).val[j] = D.val[j]
    BY PutOrDeleteSound, PutOrDeleteVal DEF Sound
  <1> QED
    BY <1>1, LeavesChanged

LEMMA HashLeaves ==
    ASSUME NEW D, Sound(D), NEW k \in Keys, NEW f, NEW s
    PROVE /\ Leaves(D, HsetCommand(D, k, f, s))
          /\ Leaves(D, HincrbyCommand(D, k, f, s))
          /\ Leaves(D, HincrbyfloatCommand(D, k, f, s))
          /\ \A g, x : Leaves(D, HmsetCommand(D, k, f, g, x))
  <1> DEFINE o == LookupHash(D, k)
  <1>1. CASE ~OfType(D, k, "hash")
    BY <1>1, LeavesUnchanged DEF HsetCommand, HincrbyCommand, HincrbyfloatCommand, HmsetCommand
  <1>2. CASE OfType(D, k, "hash")
    <2>1. HashValue(o)
      BY <1>2, LookupHashIsHash
    <2>2. \A x : HashValue(HashTypeTryConversion(o, x))
      BY <2>1, ConversionIsHash
    <2> DEFINE set(p, g, x) == HashTypeSet(p, g, x)
    <2>3. \A p, g, x : HashValue(p) => Aggregate(HashTypeSet(p, g, x)) /\ Size(HashTypeSet(p, g, x)) # 0
      BY SetFieldIsHash DEF Aggregate
    <2>4. \A p, g, x, c : HashValue(p) =>
              /\ Leaves(D, Changed(Put(D, k, HashTypeSet(p, g, x)), {k}))
              /\ Leaves(D, RewrittenAs(Changed(Put(D, k, HashTypeSet(p, g, x)), {k}), c))
      BY <2>3, PutAggregateLeaves
    <2> HIDE DEF o
    <2>5. Leaves(D, HsetCommand(D, k, f, s))
      BY <1>2, <2>2, <2>4 DEF HsetCommand, o
    <2>6. Leaves(D, HincrbyCommand(D, k, f, s))
      BY <1>2, <2>1, <2>4, LeavesUnchanged DEF HincrbyCommand, o
    <2>7. Leaves(D, HincrbyfloatCommand(D, k, f, s))
      BY <1>2, <2>1, <2>4, LeavesUnchanged DEF HincrbyfloatCommand, o
    <2>8. ASSUME NEW g, NEW x PROVE Leaves(D, HmsetCommand(D, k, f, g, x))
      <3>1. HashValue(HashTypeSet(HashTypeTryConversion(o, x), f, x))
        BY <2>2, SetFieldIsHash
      <3>2. HmsetCommand(D, k, f, g, x) =
              Changed(Put(D, k, HashTypeSet(HashTypeSet(HashTypeTryConversion(o, x), f, x), g, x)), {k})
        BY <1>2 DEF HmsetCommand, o
      <3> QED
        BY <2>4, <3>1, <3>2
    <2> QED
      BY <2>5, <2>6, <2>7, <2>8
  <1> QED
    BY <1>1, <1>2

LEMMA FieldIsPresent ==
    ASSUME NEW o, HashValue(o), NEW f \in DOMAIN o.content
    PROVE Size(o) # 0
  <1>1. IsFiniteSet(DOMAIN o.content) /\ Size(o) = Cardinality(DOMAIN o.content)
    BY DEF HashValue, Size, Hash
  <1> QED
    BY <1>1, FS_CardinalityType, FS_EmptySet

LEMMA HsetnxLeaves ==
    ASSUME NEW D, Sound(D), NEW k \in Keys, NEW f, NEW s
    PROVE Leaves(D, HsetnxCommand(D, k, f, s))
  <1> DEFINE l == LookupHash(D, k)
             o == HashTypeTryConversion(l, s)
  <1>1. CASE ~OfType(D, k, "hash")
    BY <1>1, LeavesUnchanged DEF HsetnxCommand
  <1>2. CASE OfType(D, k, "hash")
    <2>1. HashValue(o) /\ o.type = l.type /\ o.content = l.content
      BY <1>2, LookupHashIsHash, ConversionIsHash
    <2>2. Has(D, k) => l = D.val[k]
      BY DEF LookupHash
    <2>3. f \in DOMAIN l.content => Has(D, k)
      BY DEF LookupHash, Hash
    <2>4. HsetnxCommand(D, k, f, s) =
            IF f \in DOMAIN o.content THEN Unchanged(Put(D, k, o))
            ELSE Changed(Put(D, k, HashTypeSet(o, f, s)), {k})
      BY <1>2 DEF HsetnxCommand
    <2> HIDE DEF o, l
    <2>5. CASE f \in DOMAIN o.content
      <3>1. Aggregate(o) /\ Size(o) # 0
        BY <2>1, <2>5, FieldIsPresent DEF Aggregate
      <3>2. Sound(Put(D, k, o))
        BY <3>1, AggregateIsPresent, PutSound
      <3>3. Put(D, k, o).val[k] = o /\ \A j \in Keys \ {k} : Put(D, k, o).val[j] = D.val[j]
        BY PutVal DEF Sound
      <3>4. Same(D.val[k], o)
        BY <2>1, <2>2, <2>3, <2>5 DEF Same
      <3>5. Keeps(D, Put(D, k, o), {})
        BY <3>3, <3>4, SameItself DEF Keeps
      <3> QED
        BY <2>4, <2>5, <3>2, <3>5, UnchangedFields DEF Leaves
    <2>6. CASE f \notin DOMAIN o.content
      BY <2>1, <2>4, <2>6, SetFieldIsHash, PutAggregateLeaves DEF Aggregate
    <2> QED
      BY <2>5, <2>6
  <1> QED
    BY <1>1, <1>2

LEMMA RemoveFieldIsHash ==
    ASSUME NEW o, HashValue(o), NEW f
    PROVE HashValue([o EXCEPT !.content = Restrict(@, DOMAIN @ \ {f})])
  <1> DEFINE F == DOMAIN o.content \ {f}
             h == [g \in F |-> o.content[g]]
  <1>1. [o EXCEPT !.content = Restrict(@, DOMAIN @ \ {f})] = Hash(h, o.packed)
    BY DEF HashValue, Hash, Restrict
  <1>2. DOMAIN h = F /\ h = [g \in DOMAIN h |-> h[g]]
    OBVIOUS
  <1>3. IsFiniteSet(DOMAIN o.content) /\ F \subseteq DOMAIN o.content
    BY DEF HashValue
  <1>4. IsFiniteSet(F) /\ Cardinality(F) <= Cardinality(DOMAIN o.content)
    BY <1>3, FS_Subset
  <1>5. Cardinality(F) \in Nat /\ Cardinality(DOMAIN o.content) \in Nat
    BY <1>3, <1>4, FS_CardinalityType
  <1>6. o.packed \in BOOLEAN
    BY DEF HashValue
  <1>7. o.packed => Cardinality(DOMAIN o.content) <= MaxPacked
    BY DEF HashValue
  <1>8. o.packed => Cardinality(F) <= MaxPacked
    BY <1>4, <1>5, <1>7, KeyspaceAssumption
  <1> HIDE DEF h, F
  <1>9. HashValue(Hash(h, o.packed))
    BY <1>2, <1>4, <1>6, <1>8 DEF HashValue, Hash
  <1> QED
    BY <1>1, <1>9

LEMMA HdelLeaves ==
    ASSUME NEW D, Sound(D), NEW k \in Keys, NEW f
    PROVE Leaves(D, HdelCommand(D, k, f))
  <1> DEFINE p == [D.val[k] EXCEPT !.content = Restrict(@, DOMAIN @ \ {f})]
  <1>1. CASE ~Is(D, k, "hash")
    BY <1>1, LeavesUnchanged DEF HdelCommand
  <1>2. CASE Is(D, k, "hash")
    <2>1. HashValue(D.val[k])
      BY <1>2, ValueTypes DEF Is, Sound
    <2>2. Aggregate(p)
      BY <2>1, RemoveFieldIsHash DEF Aggregate
    <2>3. HdelCommand(D, k, f) \in {Unchanged(D), Changed(PutOrDelete(D, k, p), {k})}
      BY <1>2 DEF HdelCommand
    <2> HIDE DEF p
    <2> QED
      BY <2>2, <2>3, PutOrDeleteLeaves, LeavesUnchanged
  <1> QED
    BY <1>1, <1>2

LEMMA LookupHashTwins ==
    ASSUME NEW D, NEW R, Sound(D), Sound(R), Like(D, R), NEW k \in Keys
    PROVE /\ OfType(D, k, "hash") <=> OfType(R, k, "hash")
          /\ LookupHash(D, k).content = LookupHash(R, k).content
  BY Twins DEF OfType, LookupHash

LEMMA SetFieldIsSame ==
    ASSUME NEW o, NEW p, o.content = p.content, NEW f, NEW s
    PROVE /\ Same(HashTypeSet(o, f, s), HashTypeSet(p, f, s))
          /\ HashTypeSet(o, f, s).content = HashTypeSet(p, f, s).content
  BY DEF HashTypeSet, Hash, Same

LEMMA LikePutLeft ==
    ASSUME NEW D, NEW R, IsDataset(D), Like(D, R), NEW k \in Keys, NEW o, Same(o, R.val[k])
    PROVE Like(Put(D, k, o), R)
  BY PutVal, PutTtl DEF Like

LEMMA HashReplays ==
    ASSUME NEW D, NEW R, Sound(D), Sound(R), Like(D, R), NEW k \in Keys, NEW f, NEW s
    PROVE /\ Replays(HsetCommand(D, k, f, s), HsetCommand(R, k, f, s), R)
          /\ Replays(HincrbyCommand(D, k, f, s), HincrbyCommand(R, k, f, s), R)
          /\ \A g, x : Replays(HmsetCommand(D, k, f, g, x), HmsetCommand(R, k, f, g, x), R)
          /\ Replays(HsetnxCommand(D, k, f, s), HsetnxCommand(R, k, f, s), R)
          /\ Replays(HdelCommand(D, k, f), HdelCommand(R, k, f), R)
  <1> DEFINE o == LookupHash(D, k)
             p == LookupHash(R, k)
  <1>1. (OfType(D, k, "hash") <=> OfType(R, k, "hash")) /\ o.content = p.content
    BY LookupHashTwins
  <1>2. CASE ~OfType(D, k, "hash")
    <2>1. ~Is(D, k, "hash")
      BY <1>2 DEF OfType, Is
    <2> QED
      BY <1>2, <2>1, ReplaysUnchanged DEF HsetCommand, HincrbyCommand, HmsetCommand, HsetnxCommand, HdelCommand
  <1>3. CASE OfType(D, k, "hash")
    <2>1. HashValue(o) /\ HashValue(p)
      BY <1>1, <1>3, LookupHashIsHash
    <2>2. \A x : /\ HashTypeTryConversion(o, x).content = HashTypeTryConversion(p, x).content
                 /\ HashTypeTryConversion(o, x).content = o.content
      BY <1>1, <2>1, ConversionIsHash
    <2>3. ASSUME NEW x, NEW y, Same(x, y)
          PROVE Replays(Changed(Put(D, k, x), {k}), Changed(Put(R, k, y), {k}), R)
      BY <2>3, LikePut, ReplaysChanged DEF Sound
    <2>a. OfType(R, k, "hash")
      BY <1>1, <1>3
    <2> HIDE DEF o, p
    <2>4. Replays(HsetCommand(D, k, f, s), HsetCommand(R, k, f, s), R)
      BY <1>3, <2>a, <2>2, <2>3, SetFieldIsSame DEF HsetCommand, o, p
    <2>5. Replays(HincrbyCommand(D, k, f, s), HincrbyCommand(R, k, f, s), R)
      <3>1. FieldNumber(o, f) = FieldNumber(p, f)
        BY <1>1 DEF FieldNumber, o, p
      <3>2. \A v : Same(HashTypeSet(o, f, v), HashTypeSet(p, f, v))
        BY <1>1, SetFieldIsSame DEF o, p
      <3>3. \A v : Replays(Changed(Put(D, k, HashTypeSet(o, f, v)), {k}),
                           Changed(Put(R, k, HashTypeSet(p, f, v)), {k}), R)
        BY <2>3, <3>2
      <3> QED
        BY <1>3, <2>a, <3>1, <3>3, ReplaysUnchanged DEF HincrbyCommand, o, p
    <2>6. ASSUME NEW g, NEW x PROVE Replays(HmsetCommand(D, k, f, g, x), HmsetCommand(R, k, f, g, x), R)
      <3> DEFINE a == HashTypeSet(HashTypeTryConversion(o, x), f, x)
                 b == HashTypeSet(HashTypeTryConversion(p, x), f, x)
      <3>1. a.content = b.content
        BY <2>2, SetFieldIsSame
      <3>2. HmsetCommand(D, k, f, g, x) = Changed(Put(D, k, HashTypeSet(a, g, x)), {k})
        BY <1>3 DEF HmsetCommand, o
      <3>3. HmsetCommand(R, k, f, g, x) = Changed(Put(R, k, HashTypeSet(b, g, x)), {k})
        BY <2>a DEF HmsetCommand, p
      <3> HIDE DEF a, b
      <3>4. Same(HashTypeSet(a, g, x), HashTypeSet(b, g, x))
        BY <3>1, SetFieldIsSame
      <3> QED
        BY <2>3, <3>2, <3>3, <3>4
    <2>7. Replays(HsetnxCommand(D, k, f, s), HsetnxCommand(R, k, f, s), R)
      <3> DEFINE a == HashTypeTryConversion(o, s)
                 b == HashTypeTryConversion(p, s)
      <3>1. a.content = b.content /\ a.content = o.content
        BY <2>2
      <3>2. HsetnxCommand(D, k, f, s) = IF f \in DOMAIN a.content THEN Unchanged(Put(D, k, a))
                                        ELSE Changed(Put(D, k, HashTypeSet(a, f, s)), {k})
        BY <1>3 DEF HsetnxCommand, o
      <3>3. HsetnxCommand(R, k, f, s) = IF f \in DOMAIN b.content THEN Unchanged(Put(R, k, b))
                                        ELSE Changed(Put(R, k, HashTypeSet(b, f, s)), {k})
        BY <2>a DEF HsetnxCommand, p
      <3>4. CASE f \in DOMAIN a.content
        <4>1. Has(D, k)
          BY <3>1, <3>4 DEF o, LookupHash, Hash
        <4>2. o = D.val[k] /\ a.type = o.type
          BY <2>1, <4>1, ConversionIsHash DEF o, LookupHash
        <4>3. Same(a, R.val[k])
          BY <3>1, <4>1, <4>2, Twins DEF Same
        <4> HIDE DEF a
        <4>4. Like(Put(D, k, a), R)
          BY <4>3, LikePutLeft DEF Sound
        <4> QED
          BY <3>2, <3>4, <4>4, UnchangedFields DEF Replays
      <3>5. CASE f \notin DOMAIN a.content
        <4> HIDE DEF a, b
        <4>1. Same(HashTypeSet(a, f, s), HashTypeSet(b, f, s))
          BY <3>1, SetFieldIsSame
        <4> QED
          BY <2>3, <3>1, <3>2, <3>3, <3>5, <4>1
      <3> QED
        BY <3>4, <3>5
    <2>8. Replays(HdelCommand(D, k, f), HdelCommand(R, k, f), R)
      <3> DEFINE a == [D.val[k] EXCEPT !.content = Restrict(@, DOMAIN @ \ {f})]
                 b == [R.val[k] EXCEPT !.content = Restrict(@, DOMAIN @ \ {f})]
      <3>1. CASE ~Is(D, k, "hash") \/ f \notin DOMAIN D.val[k].content
        BY <3>1, ReplaysUnchanged DEF HdelCommand
      <3>2. CASE Is(D, k, "hash") /\ f \in DOMAIN D.val[k].content
        <4>1. Has(D, k)
          BY <3>2, SoundFacts
        <4>2. Is(R, k, "hash") /\ R.val[k].content = D.val[k].content
          BY <3>2, <4>1, Twins DEF Is
        <4>3. HashValue(D.val[k]) /\ HashValue(R.val[k])
          BY <3>2, <4>2, ValueTypes DEF Sound, Is
        <4>4. HdelCommand(D, k, f) = Changed(PutOrDelete(D, k, a), {k})
          BY <3>2 DEF HdelCommand
        <4>5. HdelCommand(R, k, f) = Changed(PutOrDelete(R, k, b), {k})
          BY <3>2, <4>2 DEF HdelCommand
        <4>6. a.type = "hash" /\ b.type = "hash" /\ a.content = b.content
          BY <4>2, <4>3 DEF HashValue, Hash
        <4> HIDE DEF a, b
        <4>7. Same(a, b) /\ a # Absent /\ Size(a) = Size(b)
          BY <4>6 DEF Same, Absent, Size
        <4> QED
          BY <4>4, <4>5, <4>7, LikePutOrDelete, ReplaysChanged DEF Sound
      <3> QED
        BY <3>1, <3>2
    <2> QED
      BY <2>4, <2>5, <2>6, <2>7, <2>8
  <1> QED
    BY <1>2, <1>3

(* HINCRBYFLOAT is propagated as HSET with the value. *)
LEMMA HsetFields ==
    ASSUME NEW k, NEW f, NEW v, NEW c, c = <<"HSET", k, f, v>>
    PROVE c # <<>> /\ c[1] = "HSET" /\ c[2] = k /\ c[3] = f /\ c[4] = v
  OBVIOUS

LEMMA HincrbyfloatReplays ==
    ASSUME NEW D, NEW R, Sound(D), Sound(R), Like(D, R), NEW k \in Keys, NEW f, NEW n
    PROVE LET r == HincrbyfloatCommand(D, k, f, n)
              c == r.as
          IN /\ ~r.dirty => Like(r.data, R)
             /\ r.dirty => /\ c # <<>> /\ c[1] = "HSET" /\ c[2] = k
                           /\ Like(r.data, HsetCommand(R, k, c[3], c[4]).data)
  <1> DEFINE r == HincrbyfloatCommand(D, k, f, n)
             o == LookupHash(D, k)
             p == LookupHash(R, k)
  <1>1. CASE r = Unchanged(D)
    BY <1>1, UnchangedFields
  <1>2. ASSUME OfType(D, k, "hash"), NEW v,
               r = RewrittenAs(Changed(Put(D, k, HashTypeSet(o, f, v)), {k}), <<"HSET", k, f, v>>)
        PROVE /\ r.dirty /\ r.as # <<>> /\ r.as[1] = "HSET" /\ r.as[2] = k
              /\ Like(r.data, HsetCommand(R, k, r.as[3], r.as[4]).data)
    <2> HIDE DEF r
    <2>1. r.dirty /\ r.data = Put(D, k, HashTypeSet(o, f, v))
      BY <1>2 DEF Changed, RewrittenAs
    <2> DEFINE c == r.as
    <2>2. c = <<"HSET", k, f, v>>
      BY <1>2 DEF Changed, RewrittenAs
    <2> HIDE DEF c
    <2>3. c # <<>> /\ c[1] = "HSET" /\ c[2] = k /\ c[3] = f /\ c[4] = v
      BY <2>2, HsetFields
    <2>4. OfType(R, k, "hash") /\ o.content = p.content
      BY <1>2, LookupHashTwins
    <2> DEFINE q == HashTypeTryConversion(p, v)
    <2>5. q.content = p.content
      BY <2>4, LookupHashIsHash, ConversionIsHash
    <2>6. HsetCommand(R, k, f, v).data = Put(R, k, HashTypeSet(q, f, v))
      BY <2>4 DEF HsetCommand, Changed
    <2> HIDE DEF o, p, q
    <2>7. Same(HashTypeSet(o, f, v), HashTypeSet(q, f, v))
      BY <2>4, <2>5, SetFieldIsSame
    <2>8. Like(Put(D, k, HashTypeSet(o, f, v)), Put(R, k, HashTypeSet(q, f, v)))
      BY <2>7, LikePut DEF Sound
    <2> QED
      BY <2>1, <2>3, <2>6, <2>8 DEF c
  <1>3. \/ r = Unchanged(D)
        \/ /\ OfType(D, k, "hash")
           /\ \E v : r = RewrittenAs(Changed(Put(D, k, HashTypeSet(o, f, v)), {k}), <<"HSET", k, f, v>>)
    BY DEF HincrbyfloatCommand
  <1> QED
    BY <1>1, <1>2, <1>3

-----------------------------------------------------------------------------
(* The commands on sets *)

LEMMA SetIsSet ==
    ASSUME NEW S, S \subseteq Int, IsFiniteSet(S), NEW p \in BOOLEAN,
           p => Cardinality(S) <= MaxIntset /\ \A e \in S : IsNumber(e)
    PROVE SetValue(Set(S, p)) /\ Set(S, p).content = S /\ (Size(Set(S, p)) = 0 <=> S = {})
  <1>1. SetValue(Set(S, p))
    BY DEF SetValue, Set
  <1>2. Set(S, p).content = S /\ Size(Set(S, p)) = Cardinality(S)
    BY DEF Set, Size
  <1>3. Cardinality(S) = 0 <=> S = {}
    BY FS_EmptySet
  <1> QED
    BY <1>1, <1>2, <1>3

(* The set of key k, or the one that SADD creates for e *)
LEMMA SetOfKeyIsSet ==
    ASSUME NEW D, Sound(D), NEW k \in Keys, OfType(D, k, "set"), NEW e \in Int
    PROVE SetValue(IF Has(D, k) THEN D.val[k] ELSE SetTypeCreate(e))
  <1>1. CASE Has(D, k)
    BY <1>1, ValueTypes DEF Sound, OfType, Has
  <1>2. CASE ~Has(D, k)
    <2>1. SetValue(SetTypeCreate(e))
      BY FS_EmptySet, KeyspaceAssumption DEF SetTypeCreate, Set, SetValue, IsNumber
    <2> QED
      BY <1>2, <2>1
  <1> QED
    BY <1>1, <1>2

LEMMA AddedIsSet ==
    ASSUME NEW o, SetValue(o), NEW e \in Int
    PROVE /\ SetValue(SetTypeAdd(o, e)) /\ Aggregate(SetTypeAdd(o, e))
          /\ Size(SetTypeAdd(o, e)) # 0
  <1> DEFINE S == o.content \cup {e}
             p == o.packed /\ IsNumber(e) /\ Cardinality(S) <= MaxIntset
  <1>1. S \subseteq Int /\ IsFiniteSet(o.content) /\ S # {}
    BY DEF SetValue
  <1>2. IsFiniteSet(S)
    BY <1>1, FS_AddElement
  <1>3. p \in BOOLEAN /\ (p => Cardinality(S) <= MaxIntset /\ \A x \in S : IsNumber(x))
    BY DEF SetValue
  <1>4. SetTypeAdd(o, e) = Set(S, p)
    BY DEF SetTypeAdd
  <1> HIDE DEF S, p
  <1> QED
    BY <1>1, <1>2, <1>3, <1>4, SetIsSet DEF Aggregate

LEMMA RemovedIsSet ==
    ASSUME NEW o, SetValue(o), NEW e
    PROVE SetValue(SetTypeRemove(o, e)) /\ Aggregate(SetTypeRemove(o, e))
  <1> DEFINE S == o.content \ {e}
  <1>1. S \subseteq Int /\ S \subseteq o.content /\ IsFiniteSet(o.content) /\ o.packed \in BOOLEAN
    BY DEF SetValue
  <1>2. IsFiniteSet(S) /\ Cardinality(S) <= Cardinality(o.content)
    BY <1>1, FS_Subset
  <1>3. Cardinality(S) \in Nat /\ Cardinality(o.content) \in Nat
    BY <1>1, <1>2, FS_CardinalityType
  <1>4. o.packed => Cardinality(o.content) <= MaxIntset /\ \A x \in o.content : IsNumber(x)
    BY DEF SetValue
  <1>5. o.packed => Cardinality(S) <= MaxIntset /\ \A x \in S : IsNumber(x)
    BY <1>1, <1>2, <1>3, <1>4, KeyspaceAssumption
  <1> DEFINE p == o.packed
  <1>6. SetTypeRemove(o, e) = Set(S, p)
    BY DEF SetTypeRemove
  <1>7. p \in BOOLEAN /\ (p => Cardinality(S) <= MaxIntset /\ \A x \in S : IsNumber(x))
    BY <1>1, <1>5
  <1> HIDE DEF S, p
  <1>8. S \subseteq Int /\ IsFiniteSet(S)
    BY <1>1, <1>2
  <1>9. SetValue(Set(S, p))
    BY <1>7, <1>8, SetIsSet
  <1> QED
    BY <1>6, <1>9 DEF Aggregate

LEMMA CollectedIsSet ==
    ASSUME NEW S, S \subseteq Int, IsFiniteSet(S)
    PROVE /\ SetValue(Collected(S)) /\ Collected(S).content = S
          /\ Collected(S).packed => Cardinality(S) <= MaxIntset /\ \A e \in S : IsNumber(e)
          /\ Collected(S).packed \in BOOLEAN
  <1> DEFINE p == Cardinality(S) <= MaxIntset /\ \A e \in S : IsNumber(e)
  <1>1. Collected(S) = Set(S, p)
    BY DEF Collected
  <1>2. p \in BOOLEAN /\ (p => Cardinality(S) <= MaxIntset /\ \A e \in S : IsNumber(e))
    OBVIOUS
  <1>3. SetValue(Set(S, p)) /\ Set(S, p).content = S
    BY <1>2, SetIsSet
  <1>4. Set(S, p).packed = p
    BY DEF Set
  <1> QED
    BY <1>1, <1>2, <1>3, <1>4

LEMMA HeldSetIsSet ==
    ASSUME NEW D, Sound(D), NEW k \in Keys, Is(D, k, "set")
    PROVE SetValue(D.val[k]) /\ Has(D, k) /\ OfType(D, k, "set")
  BY ValueTypes DEF Sound, Is, Has, OfType

LEMMA SaddLeaves ==
    ASSUME NEW D, Sound(D), NEW k \in Keys, NEW e \in Int
    PROVE Leaves(D, SaddCommand(D, k, e))
  <1> DEFINE o == IF Has(D, k) THEN D.val[k] ELSE SetTypeCreate(e)
  <1>1. CASE ~OfType(D, k, "set") \/ e \in o.content
    BY <1>1, LeavesUnchanged DEF SaddCommand
  <1>2. CASE ~(~OfType(D, k, "set") \/ e \in o.content)
    <2>1. SetValue(o)
      BY <1>2, SetOfKeyIsSet
    <2>2. SaddCommand(D, k, e) = Changed(Put(D, k, SetTypeAdd(o, e)), {k})
      BY <1>2 DEF SaddCommand
    <2> HIDE DEF o
    <2> QED
      BY <2>1, <2>2, AddedIsSet, PutAggregateLeaves
  <1> QED
    BY <1>1, <1>2

LEMMA SremLeaves ==
    ASSUME NEW D, Sound(D), NEW k \in Keys, NEW e
    PROVE Leaves(D, SremCommand(D, k, e))
  <1>1. CASE Is(D, k, "set")
    BY <1>1, HeldSetIsSet, RemovedIsSet, PutOrDeleteLeaves, LeavesUnchanged DEF SremCommand
  <1>2. CASE ~Is(D, k, "set")
    BY <1>2, LeavesUnchanged DEF SremCommand
  <1> QED
    BY <1>1, <1>2

LEMMA SpopLeaves ==
    ASSUME NEW D, Sound(D), NEW k \in Keys, NEW r \in SpopCommand(D, k)
    PROVE Leaves(D, r)
  <1>1. CASE Is(D, k, "set")
    BY <1>1, HeldSetIsSet, RemovedIsSet, PutOrDeleteLeaves DEF SpopCommand
  <1>2. CASE ~Is(D, k, "set")
    BY <1>2, LeavesUnchanged DEF SpopCommand
  <1> QED
    BY <1>1, <1>2

LEMMA SmoveLeaves ==
    ASSUME NEW D, Sound(D), NEW src \in Keys, NEW dst \in Keys, NEW e \in Int
    PROVE Leaves(D, SmoveCommand(D, src, dst, e))
  <1> DEFINE o == IF Has(D, dst) THEN D.val[dst] ELSE SetTypeCreate(e)
             s == SetTypeRemove(D.val[src], e)
             E == PutOrDelete(D, src, s)
             F == Put(E, dst, SetTypeAdd(o, e))
             no == ~Is(D, src, "set") \/ ~OfType(D, dst, "set") \/ src = dst \/ e \notin D.val[src].content
  <1>1. CASE no
    BY <1>1, LeavesUnchanged DEF SmoveCommand
  <1>2. CASE ~no
    <2>1. SetValue(o) /\ Aggregate(s)
      BY <1>2, HeldSetIsSet, SetOfKeyIsSet, RemovedIsSet
    <2>2. SmoveCommand(D, src, dst, e) = Changed(F, {src, dst})
      BY <1>2 DEF SmoveCommand
    <2> HIDE DEF o, s
    <2>3. Sound(E) /\ \A j \in Keys \ {src} : E.val[j] = D.val[j]
      BY <2>1, PutOrDeleteSound, PutOrDeleteVal DEF Sound
    <2> HIDE DEF E
    <2>4. Present(SetTypeAdd(o, e)) /\ SetTypeAdd(o, e) # Absent
      BY <2>1, AddedIsSet, AggregateIsPresent
    <2>5. Sound(F) /\ \A j \in Keys \ {dst} : F.val[j] = E.val[j]
      BY <2>3, <2>4, PutSound, PutVal DEF Sound
    <2> HIDE DEF F
    <2> QED
      BY <2>2, <2>3, <2>5, LeavesChanged
  <1> QED
    BY <1>1, <1>2

LEMMA StoreSetLeaves ==
    ASSUME NEW D, Sound(D), NEW dst \in Keys, NEW o, SetValue(o)
    PROVE Leaves(D, StoreSet(D, dst, o))
  <1>1. Sound(Delete(D, dst)) /\ \A j \in Keys \ {dst} : Delete(D, dst).val[j] = D.val[j]
    BY DeleteSound, DeleteVal DEF Sound
  <1>2. CASE o.content = {}
    BY <1>1, <1>2, LeavesChanged DEF StoreSet
  <1>3. CASE o.content # {}
    <2>1. IsFiniteSet(o.content) /\ Size(o) = Cardinality(o.content)
      BY DEF SetValue, Size
    <2>2. Size(o) # 0
      BY <1>3, <2>1, FS_EmptySet
    <2> DEFINE E == Delete(D, dst)
               F == Put(E, dst, o)
    <2>3. StoreSet(D, dst, o) = Changed(F, {dst})
      BY <1>3 DEF StoreSet
    <2> HIDE DEF E
    <2>4. Present(o) /\ o # Absent
      BY <2>2, AggregateIsPresent DEF Aggregate
    <2>5. Sound(F) /\ \A j \in Keys \ {dst} : F.val[j] = E.val[j]
      BY <1>1, <2>4, PutSound, PutVal DEF Sound, E
    <2> HIDE DEF F
    <2> QED
      BY <1>1, <2>3, <2>5, LeavesChanged DEF E
  <1> QED
    BY <1>2, <1>3

LEMMA MembersAreInt ==
    ASSUME NEW D, Sound(D), NEW k \in Keys, OfType(D, k, "set")
    PROVE Members(D, k) \subseteq Int /\ IsFiniteSet(Members(D, k))
  <1>1. CASE Has(D, k)
    BY <1>1, ValueTypes DEF Sound, OfType, Has, Members, SetValue
  <1>2. CASE ~Has(D, k)
    BY <1>2, FS_EmptySet DEF Members
  <1> QED
    BY <1>1, <1>2

LEMMA StoreLeaves ==
    ASSUME NEW D, Sound(D), NEW dst \in Keys, NEW a \in Keys, NEW b \in Keys
    PROVE /\ Leaves(D, SinterstoreCommand(D, dst, a, b))
          /\ Leaves(D, SunionstoreCommand(D, dst, a, b))
          /\ Leaves(D, SdiffstoreCommand(D, dst, a, b))
  <1>1. Leaves(D, SinterstoreCommand(D, dst, a, b))
    <2>1. CASE Is(D, a, "set") /\ Is(D, b, "set")
      <3> DEFINE S == D.val[a].content \cap D.val[b].content
      <3>1. SetValue(D.val[a])
        BY <2>1, HeldSetIsSet
      <3>2. S \subseteq Int /\ IsFiniteSet(S)
        BY <3>1, FS_Subset DEF SetValue
      <3> HIDE DEF S
      <3>3. Leaves(D, StoreSet(D, dst, Collected(S)))
        BY <3>2, CollectedIsSet, StoreSetLeaves
      <3> QED
        BY <2>1, <3>3, DelLeaves, LeavesUnchanged DEF SinterstoreCommand, S
    <2>2. CASE ~(Is(D, a, "set") /\ Is(D, b, "set"))
      BY <2>2, DelLeaves, LeavesUnchanged DEF SinterstoreCommand
    <2> QED
      BY <2>1, <2>2
  <1>2. CASE ~OfType(D, a, "set") \/ ~OfType(D, b, "set")
    BY <1>1, <1>2, LeavesUnchanged DEF SunionstoreCommand, SdiffstoreCommand
  <1>3. CASE OfType(D, a, "set") /\ OfType(D, b, "set")
    <2> DEFINE A == Members(D, a)
               B == Members(D, b)
               diff == IF a = b THEN {} ELSE A \ B
    <2>1. A \subseteq Int /\ IsFiniteSet(A) /\ B \subseteq Int /\ IsFiniteSet(B)
      BY <1>3, MembersAreInt
    <2>2. A \cup B \subseteq Int /\ IsFiniteSet(A \cup B)
      BY <2>1, FS_Union
    <2>3. diff \subseteq A
      OBVIOUS
    <2>4. SunionstoreCommand(D, dst, a, b) = StoreSet(D, dst, Collected(A \cup B))
      BY <1>3 DEF SunionstoreCommand
    <2>5. SdiffstoreCommand(D, dst, a, b) \in
            {StoreSet(D, dst, Collected(diff)), StoreSet(D, dst, Set(diff, Collected(A).packed))}
      BY <1>3 DEF SdiffstoreCommand
    <2> HIDE DEF A, B, diff
    <2>6. diff \subseteq Int /\ IsFiniteSet(diff) /\ Cardinality(diff) <= Cardinality(A)
      BY <2>1, <2>3, FS_Subset
    <2>7. Cardinality(diff) \in Nat /\ Cardinality(A) \in Nat
      BY <2>1, <2>6, FS_CardinalityType
    <2> DEFINE p == Collected(A).packed
    <2>8. p \in BOOLEAN /\ (p => Cardinality(A) <= MaxIntset /\ \A x \in A : IsNumber(x))
      BY <2>1, CollectedIsSet
    <2> HIDE DEF p
    <2>9. p => Cardinality(diff) <= MaxIntset /\ \A x \in diff : IsNumber(x)
      BY <2>3, <2>6, <2>7, <2>8, KeyspaceAssumption
    <2>10. SetValue(Set(diff, p))
      BY <2>6, <2>8, <2>9, SetIsSet
    <2>11. SetValue(Collected(diff)) /\ SetValue(Collected(A \cup B))
      BY <2>2, <2>6, CollectedIsSet
    <2> QED
      BY <1>1, <2>4, <2>5, <2>10, <2>11, StoreSetLeaves DEF p
  <1> QED
    BY <1>2, <1>3

LEMMA SameSets ==
    ASSUME NEW o, NEW p, NEW e, o.content = p.content
    PROVE /\ Same(SetTypeAdd(o, e), SetTypeAdd(p, e))
          /\ Same(SetTypeRemove(o, e), SetTypeRemove(p, e))
          /\ SetTypeRemove(o, e) # Absent /\ Size(SetTypeRemove(o, e)) = Size(SetTypeRemove(p, e))
  BY DEF SetTypeAdd, SetTypeRemove, Set, Same, Absent, Size

LEMMA SetTwins ==
    ASSUME NEW D, NEW R, Sound(D), Sound(R), Like(D, R), NEW k \in Keys
    PROVE /\ Has(D, k) <=> Has(R, k)
          /\ Is(D, k, "set") <=> Is(R, k, "set")
          /\ OfType(D, k, "set") <=> OfType(R, k, "set")
          /\ Is(D, k, "set") => D.val[k].content = R.val[k].content
          /\ Members(D, k) = Members(R, k)
          /\ \A e : (IF Has(D, k) THEN D.val[k] ELSE SetTypeCreate(e)).content
                  = (IF Has(R, k) THEN R.val[k] ELSE SetTypeCreate(e)).content
  <1>1. Is(D, k, "set") => Has(D, k)
    BY SoundFacts
  <1> QED
    BY <1>1, Twins DEF Is, OfType, Members

LEMMA SaddReplays ==
    ASSUME NEW D, NEW R, Sound(D), Sound(R), Like(D, R), NEW k \in Keys, NEW e
    PROVE Replays(SaddCommand(D, k, e), SaddCommand(R, k, e), R)
  <1> DEFINE o(C) == IF Has(C, k) THEN C.val[k] ELSE SetTypeCreate(e)
             no(C) == ~OfType(C, k, "set") \/ e \in o(C).content
  <1>1. o(D).content = o(R).content /\ (no(D) <=> no(R))
    BY SetTwins
  <1>2. \A C : SaddCommand(C, k, e) = IF no(C) THEN Unchanged(C) ELSE Changed(Put(C, k, SetTypeAdd(o(C), e)), {k})
    BY Zenon DEF SaddCommand
  <1> HIDE DEF o, no
  <1>3. Like(Put(D, k, SetTypeAdd(o(D), e)), Put(R, k, SetTypeAdd(o(R), e)))
    BY <1>1, SameSets, LikePut DEF Sound
  <1> QED
    BY <1>1, <1>2, <1>3, ReplaysChanged, ReplaysUnchanged

LEMMA LikeRemoved ==
    ASSUME NEW D, NEW R, Sound(D), Sound(R), Like(D, R), NEW k \in Keys, NEW e, Is(D, k, "set")
    PROVE Like(PutOrDelete(D, k, SetTypeRemove(D.val[k], e)), PutOrDelete(R, k, SetTypeRemove(R.val[k], e)))
  BY SetTwins, SameSets, LikePutOrDelete DEF Sound

LEMMA SremReplays ==
    ASSUME NEW D, NEW R, Sound(D), Sound(R), Like(D, R), NEW k \in Keys, NEW e
    PROVE Replays(SremCommand(D, k, e), SremCommand(R, k, e), R)
  <1>1. CASE Is(D, k, "set")
    BY <1>1, SetTwins, LikeRemoved, ReplaysChanged, ReplaysUnchanged DEF SremCommand
  <1>2. CASE ~Is(D, k, "set")
    BY <1>2, ReplaysUnchanged DEF SremCommand
  <1> QED
    BY <1>1, <1>2

(* SPOP is propagated as SREM of the element that was chosen. *)
LEMMA SremFields ==
    ASSUME NEW k, NEW e, NEW c, c = <<"SREM", k, e>>
    PROVE c # <<>> /\ c[1] = "SREM" /\ c[2] = k /\ c[3] = e
  OBVIOUS

LEMMA SpopReplays ==
    ASSUME NEW D, NEW R, Sound(D), Sound(R), Like(D, R), NEW k \in Keys, NEW r \in SpopCommand(D, k)
    PROVE LET c == r.as
          IN /\ ~r.dirty => Like(r.data, R)
             /\ r.dirty => /\ c # <<>> /\ c[1] = "SREM" /\ c[2] = k
                           /\ Like(r.data, SremCommand(R, k, c[3]).data)
  <1>1. CASE ~Is(D, k, "set")
    BY <1>1, UnchangedFields DEF SpopCommand
  <1>2. CASE Is(D, k, "set")
    <2>1. PICK e \in D.val[k].content :
            r = RewrittenAs(Changed(PutOrDelete(D, k, SetTypeRemove(D.val[k], e)), {k}), <<"SREM", k, e>>)
      BY <1>2 DEF SpopCommand
    <2>2. r.dirty /\ r.data = PutOrDelete(D, k, SetTypeRemove(D.val[k], e))
      BY <2>1 DEF Changed, RewrittenAs
    <2> DEFINE c == r.as
    <2>3. c = <<"SREM", k, e>>
      BY <2>1 DEF Changed, RewrittenAs
    <2> HIDE DEF c
    <2>4. c # <<>> /\ c[1] = "SREM" /\ c[2] = k /\ c[3] = e
      BY <2>3, SremFields
    <2>5. Is(R, k, "set") /\ e \in R.val[k].content
      BY <1>2, SetTwins
    <2>6. SremCommand(R, k, e).data = PutOrDelete(R, k, SetTypeRemove(R.val[k], e))
      BY <2>5 DEF SremCommand, Changed
    <2> QED
      BY <1>2, <2>2, <2>4, <2>6, LikeRemoved DEF c
  <1> QED
    BY <1>1, <1>2

LEMMA SmoveReplays ==
    ASSUME NEW D, NEW R, Sound(D), Sound(R), Like(D, R), NEW src \in Keys, NEW dst \in Keys, NEW e
    PROVE Replays(SmoveCommand(D, src, dst, e), SmoveCommand(R, src, dst, e), R)
  <1> DEFINE o(C) == IF Has(C, dst) THEN C.val[dst] ELSE SetTypeCreate(e)
             E(C) == PutOrDelete(C, src, SetTypeRemove(C.val[src], e))
             no(C) == ~Is(C, src, "set") \/ ~OfType(C, dst, "set") \/ src = dst
             F(C) == Put(E(C), dst, SetTypeAdd(o(C), e))
  <1>1. o(D).content = o(R).content /\ (no(D) <=> no(R))
    BY SetTwins
  <1>2. \A C : SmoveCommand(C, src, dst, e) = IF no(C) THEN Unchanged(C)
                  ELSE IF e \notin C.val[src].content THEN Unchanged(C) ELSE Changed(F(C), {src, dst})
    BY Zenon DEF SmoveCommand
  <1>3. CASE no(D)
    <2> HIDE DEF no, F
    <2> QED
      BY <1>2, <1>3, ReplaysUnchanged
  <1>4. CASE ~no(D)
    <2>1. Is(D, src, "set") /\ Is(R, src, "set") /\ D.val[src].content = R.val[src].content
      BY <1>4, SetTwins
    <2>2. Like(E(D), E(R))
      BY <2>1, LikeRemoved
    <2>3. IsDataset(E(D)) /\ IsDataset(E(R))
      BY <2>1, HeldSetIsSet, RemovedIsSet, PutOrDeleteSound DEF Sound
    <2> HIDE DEF no, E, o
    <2>4. Same(SetTypeAdd(o(D), e), SetTypeAdd(o(R), e))
      BY <1>1, SameSets
    <2>5. Like(F(D), F(R))
      BY <2>2, <2>3, <2>4, LikePut
    <2> HIDE DEF F
    <2> QED
      BY <1>1, <1>2, <1>4, <2>1, <2>5, ReplaysChanged, ReplaysUnchanged
  <1> QED
    BY <1>3, <1>4

LEMMA StoreSetReplays ==
    ASSUME NEW D, NEW R, Sound(D), Sound(R), Like(D, R), NEW dst \in Keys,
           NEW o, NEW p, Same(o, p), o.content = p.content
    PROVE Replays(StoreSet(D, dst, o), StoreSet(R, dst, p), R)
  <1>1. Like(Delete(D, dst), Delete(R, dst)) /\ IsDataset(Delete(D, dst)) /\ IsDataset(Delete(R, dst))
    BY LikeDelete, DeleteSound DEF Sound
  <1>2. Like(Put(Delete(D, dst), dst, o), Put(Delete(R, dst), dst, p))
    BY <1>1, LikePut
  <1> QED
    BY <1>1, <1>2, ReplaysChanged DEF StoreSet

LEMMA PackingIsSame ==
    ASSUME NEW S, NEW p, NEW q
    PROVE Same(Set(S, p), Set(S, q)) /\ Set(S, p).content = Set(S, q).content
  BY DEF Same, Set

LEMMA StoreReplays ==
    ASSUME NEW D, NEW R, Sound(D), Sound(R), Like(D, R), NEW dst \in Keys, NEW a \in Keys, NEW b \in Keys
    PROVE /\ Replays(SinterstoreCommand(D, dst, a, b), SinterstoreCommand(R, dst, a, b), R)
          /\ Replays(SunionstoreCommand(D, dst, a, b), SunionstoreCommand(R, dst, a, b), R)
          /\ Replays(SdiffstoreCommand(D, dst, a, b), SdiffstoreCommand(R, dst, a, b), R)
  <1>1. \A k \in {dst, a, b} :
            /\ Has(D, k) <=> Has(R, k)
            /\ Is(D, k, "set") <=> Is(R, k, "set")
            /\ OfType(D, k, "set") <=> OfType(R, k, "set")
            /\ Is(D, k, "set") => D.val[k].content = R.val[k].content
            /\ Members(D, k) = Members(R, k)
    BY SetTwins
  <1>2. \A S : Replays(StoreSet(D, dst, Collected(S)), StoreSet(R, dst, Collected(S)), R)
    BY StoreSetReplays, SameItself
  <1>3. Replays(Changed(Delete(D, dst), {dst}), Changed(Delete(R, dst), {dst}), R)
    BY LikeDelete, ReplaysChanged DEF Sound
  <1>4. Replays(SinterstoreCommand(D, dst, a, b), SinterstoreCommand(R, dst, a, b), R)
    BY <1>1, <1>2, <1>3, ReplaysUnchanged DEF SinterstoreCommand
  <1>5. Replays(SunionstoreCommand(D, dst, a, b), SunionstoreCommand(R, dst, a, b), R)
    BY <1>1, <1>2, ReplaysUnchanged DEF SunionstoreCommand
  <1>6. FirstAlgorithm(D, a, b) = FirstAlgorithm(R, a, b)
    BY <1>1 DEF FirstAlgorithm
  <1>7. \A S, p, q : Replays(StoreSet(D, dst, Set(S, p)), StoreSet(R, dst, Set(S, q)), R)
    BY StoreSetReplays, PackingIsSame
  <1>8. Replays(SdiffstoreCommand(D, dst, a, b), SdiffstoreCommand(R, dst, a, b), R)
    BY <1>1, <1>2, <1>6, <1>7, ReplaysUnchanged DEF SdiffstoreCommand
  <1> QED
    BY <1>4, <1>5, <1>8

-----------------------------------------------------------------------------
(* Sequences in order *)

LEMMA UpTo ==
    ASSUME NEW n \in Nat
    PROVE IsFiniteSet(1..n) /\ Cardinality(1..n) = n
  BY FS_Interval

(* The positions of I have the ranks from 1 to their number, each one of   *)
(* its own, when the sets below them are ordered by inclusion.             *)
LEMMA RanksCover ==
    ASSUME NEW I, IsFiniteSet(I), NEW B \in [I -> SUBSET I],
           \A i \in I : i \in B[i],
           \A i, j \in I : i # j => (B[i] \subseteq B[j] /\ j \notin B[i]) \/ (B[j] \subseteq B[i] /\ i \notin B[j])
    PROVE /\ \A n \in 1..Cardinality(I) : \E i \in I : Cardinality(B[i]) = n
          /\ \A i, j \in I : Cardinality(B[i]) = Cardinality(B[j]) => i = j
  <1> DEFINE f == [i \in I |-> Cardinality(B[i])]
             N == Cardinality(I)
  <1>1. N \in Nat /\ IsFiniteSet(1..N) /\ Cardinality(1..N) = N
    BY FS_CardinalityType, FS_Interval
  <1>2. \A i \in I : IsFiniteSet(B[i]) /\ Cardinality(B[i]) \in Nat /\ Cardinality(B[i]) <= N /\ Cardinality(B[i]) # 0
    BY FS_Subset, FS_CardinalityType, FS_EmptySet
  <1>3. ASSUME NEW i \in I, NEW j \in I, B[i] \subseteq B[j], j \notin B[i]
        PROVE Cardinality(B[i]) # Cardinality(B[j])
    <2>1. B[i] # B[j]
      BY <1>3
    <2> QED
      BY <1>2, <1>3, <2>1, FS_Subset
  <1>4. \A i, j \in I : Cardinality(B[i]) = Cardinality(B[j]) => i = j
    BY <1>3
  <1>5. f \in [I -> 1..N]
    BY <1>1, <1>2
  <1>6. f \in Injection(I, 1..N)
    BY <1>4, <1>5 DEF Injection, IsInjective
  <1> HIDE DEF f
  <1>7. f \in Surjection(I, 1..N)
    BY <1>1, <1>6, FS_Injection
  <1>8. \A n \in 1..N : \E i \in I : f[i] = n
    BY <1>7 DEF Surjection
  <1> QED
    BY <1>4, <1>8 DEF f

LEMMA WithoutIsSeq ==
    ASSUME NEW q \in Seq(Int), NEW e
    PROVE Without(q, e) \in Seq(Int) /\ Len(Without(q, e)) \in Nat /\ Len(Without(q, e)) <= Len(q)
  <1> DEFINE I == {i \in DOMAIN q : q[i] # e}
             B == [i \in I |-> {j \in I : j <= i}]
             at(n) == CHOOSE i \in I : Cardinality(B[i]) = n
             N == Cardinality(I)
  <1>1. DOMAIN q = 1..Len(q) /\ Len(q) \in Nat /\ I \subseteq 1..Len(q)
    OBVIOUS
  <1>2. IsFiniteSet(1..Len(q)) /\ Cardinality(1..Len(q)) = Len(q)
    BY <1>1, UpTo
  <1>3. IsFiniteSet(I) /\ N <= Len(q) /\ N \in Nat
    BY <1>1, <1>2, FS_Subset, FS_CardinalityType
  <1>4. B \in [I -> SUBSET I] /\ \A i \in I : i \in B[i]
    BY <1>1
  <1>5. \A i, j \in I : i # j => (B[i] \subseteq B[j] /\ j \notin B[i]) \/ (B[j] \subseteq B[i] /\ i \notin B[j])
    BY <1>1
  <1>6. Without(q, e) = [n \in 1..N |-> q[CHOOSE i \in I : Cardinality({j \in I : j <= i}) = n]]
    BY DEF Without, Arranged
  <1>7. \A n : (CHOOSE i \in I : Cardinality({j \in I : j <= i}) = n) = at(n)
    OBVIOUS
  <1>8. Without(q, e) = [n \in 1..N |-> q[at(n)]]
    BY <1>6, <1>7
  <1> HIDE DEF B
  <1>9. \A n \in 1..N : \E i \in I : Cardinality(B[i]) = n
    BY <1>3, <1>4, <1>5, RanksCover
  <1>10. \A n \in 1..N : at(n) \in I
    BY <1>9
  <1>11. \A n \in 1..N : q[at(n)] \in Int
    BY <1>1, <1>10
  <1> HIDE DEF at, N, I
  <1> QED
    BY <1>3, <1>8, <1>11

LEMMA BeforeOrders ==
    ASSUME NEW a \in Int, NEW b \in Int
    PROVE /\ Before(a, a)
          /\ Before(a, b) \/ Before(b, a)
          /\ Before(a, b) /\ Before(b, a) => a = b
          /\ \A c \in Int : Before(a, b) /\ Before(b, c) => Before(a, c)
  BY DEF Before, IsNumber

LEMMA SortedIsSeq ==
    ASSUME NEW q \in Seq(Int)
    PROVE /\ Sorted(q) \in Seq(Int) /\ Len(Sorted(q)) = Len(q)
          /\ Sorted(q) = <<>> <=> q = <<>>
  <1> DEFINE I == DOMAIN q
             InOrder(i, j) == IF q[i] = q[j] THEN i <= j ELSE Before(q[i], q[j])
             B == [i \in I |-> {j \in I : InOrder(j, i)}]
             at(n) == CHOOSE i \in I : Cardinality(B[i]) = n
             N == Cardinality(I)
  <1>1. I = 1..Len(q) /\ Len(q) \in Nat
    OBVIOUS
  <1>2. IsFiniteSet(I) /\ N = Len(q)
    BY <1>1, UpTo
  <1>3. \A i \in I : q[i] \in Int
    OBVIOUS
  <1>4. ASSUME NEW i \in I, NEW j \in I
        PROVE /\ InOrder(i, i) /\ (InOrder(i, j) \/ InOrder(j, i))
              /\ InOrder(i, j) /\ InOrder(j, i) => i = j
              /\ \A l \in I : InOrder(i, j) /\ InOrder(j, l) => InOrder(i, l)
    BY <1>1, <1>3, BeforeOrders
  <1>5. Sorted(q) = [n \in 1..N |-> q[CHOOSE i \in I : Cardinality({j \in I : InOrder(j, i)}) = n]]
    BY Zenon DEF Sorted, Arranged
  <1> HIDE DEF InOrder, I
  <1>6. B \in [I -> SUBSET I] /\ \A i \in I : i \in B[i]
    BY <1>4
  <1>7. \A i, j \in I : i # j => (B[i] \subseteq B[j] /\ j \notin B[i]) \/ (B[j] \subseteq B[i] /\ i \notin B[j])
    BY <1>4
  <1>8. \A n : (CHOOSE i \in I : Cardinality({j \in I : InOrder(j, i)}) = n) = at(n)
    OBVIOUS
  <1>9. Sorted(q) = [n \in 1..N |-> q[at(n)]]
    BY <1>5, <1>8
  <1> HIDE DEF B
  <1>10. \A n \in 1..N : \E i \in I : Cardinality(B[i]) = n
    BY <1>2, <1>6, <1>7, RanksCover
  <1>11. \A n \in 1..N : at(n) \in I
    BY <1>10
  <1>12. \A n \in 1..N : q[at(n)] \in Int
    BY <1>3, <1>11
  <1> HIDE DEF at
  <1> DEFINE s == [n \in 1..N |-> q[at(n)]]
  <1>13. s \in Seq(Int) /\ Len(s) = N
    BY <1>1, <1>2, <1>12
  <1>16. Sorted(q) = s
    BY <1>9
  <1> HIDE DEF s
  <1>14. s = <<>> <=> N = 0
    BY <1>13
  <1>15. q = <<>> <=> Len(q) = 0
    OBVIOUS
  <1> QED
    BY <1>2, <1>13, <1>14, <1>15, <1>16

LEMMA VectorOfSet ==
    ASSUME NEW S, S \subseteq Int, IsFiniteSet(S), NEW q \in SetToSeqs(S)
    PROVE /\ q \in Seq(Int) /\ Len(q) = Cardinality(S) /\ DOMAIN q = 1..Cardinality(S)
          /\ \A i, j \in DOMAIN q : q[i] = q[j] => i = j
          /\ \A i \in DOMAIN q : q[i] \in S
          /\ \A e \in S : \E i \in DOMAIN q : q[i] = e
  <1> DEFINE N == Cardinality(S)
  <1>1. N \in Nat
    BY FS_CardinalityType
  <1>2. q \in [1..N -> S] /\ \A i, j \in 1..N : i # j => q[i] # q[j]
    BY DEF SetToSeqs
  <1>3. q \in Seq(Int) /\ Len(q) = N /\ DOMAIN q = 1..N
    <2>1. q \in [1..N -> Int]
      BY <1>2
    <2> HIDE DEF N
    <2> QED
      BY <1>1, <2>1
  <1>4. q \in Injection(1..N, S)
    BY <1>2 DEF Injection, IsInjective
  <1>5. IsFiniteSet(1..N) /\ Cardinality(1..N) = N
    BY <1>1, UpTo
  <1>6. q \in Surjection(1..N, S)
    BY <1>4, <1>5, FS_Injection
  <1>7. \A e \in S : \E i \in 1..N : q[i] = e
    BY <1>6 DEF Surjection
  <1> QED
    BY <1>2, <1>3, <1>7

(* However the elements of a set come, they are sorted to the same list. *)
LEMMA SortedVector ==
    ASSUME NEW S, S \subseteq Int, IsFiniteSet(S), NEW q \in SetToSeqs(S)
    PROVE Sorted(q) = [n \in 1..Cardinality(S) |-> CHOOSE e \in S : Cardinality({x \in S : Before(x, e)}) = n]
  <1> DEFINE I == DOMAIN q
             InOrder(i, j) == IF q[i] = q[j] THEN i <= j ELSE Before(q[i], q[j])
             B == [i \in I |-> {j \in I : InOrder(j, i)}]
             C == [e \in S |-> {x \in S : Before(x, e)}]
             at(n) == CHOOSE i \in I : Cardinality(B[i]) = n
             N == Cardinality(S)
  <1>1. /\ q \in Seq(Int) /\ I = 1..N
        /\ \A i, j \in I : q[i] = q[j] => i = j
        /\ \A i \in I : q[i] \in S
        /\ \A e \in S : \E i \in I : q[i] = e
    BY VectorOfSet
  <1>2. N \in Nat /\ IsFiniteSet(I) /\ Cardinality(I) = N
    BY <1>1, FS_CardinalityType, UpTo
  <1>3. \A i \in I : q[i] \in Int
    BY <1>1
  <1>4. Sorted(q) = [n \in 1..Cardinality(I) |-> q[CHOOSE i \in I : Cardinality({j \in I : InOrder(j, i)}) = n]]
    BY Zenon DEF Sorted, Arranged
  <1>5. \A i, j \in I : InOrder(i, j) <=> Before(q[i], q[j])
    BY <1>1, <1>2, <1>3, BeforeOrders
  <1>6. \A x, y \in S : /\ Before(x, x)
                        /\ Before(x, y) \/ Before(y, x)
                        /\ Before(x, y) /\ Before(y, x) => x = y
                        /\ \A z \in S : Before(x, y) /\ Before(y, z) => Before(x, z)
    BY BeforeOrders
  <1> HIDE DEF InOrder, I
  <1>7. /\ C \in [S -> SUBSET S] /\ \A e \in S : e \in C[e]
        /\ \A x, y \in S : x # y => (C[x] \subseteq C[y] /\ y \notin C[x]) \/ (C[y] \subseteq C[x] /\ x \notin C[y])
    BY <1>6
  <1>8. /\ B \in [I -> SUBSET I] /\ \A i \in I : i \in B[i]
        /\ \A i, j \in I : i # j => (B[i] \subseteq B[j] /\ j \notin B[i]) \/ (B[j] \subseteq B[i] /\ i \notin B[j])
    <2>1. \A i \in I : InOrder(i, i)
      BY <1>1, <1>5, <1>6
    <2>2. \A i, j \in I : InOrder(i, j) \/ InOrder(j, i)
      BY <1>1, <1>5, <1>6
    <2>3. \A i, j \in I : InOrder(i, j) /\ InOrder(j, i) => i = j
      <3> SUFFICES ASSUME NEW i \in I, NEW j \in I, InOrder(i, j), InOrder(j, i) PROVE i = j
        OBVIOUS
      <3>1. q[i] \in S /\ q[j] \in S /\ Before(q[i], q[j]) /\ Before(q[j], q[i])
        BY <1>1, <1>5
      <3>2. q[i] = q[j]
        BY <3>1, <1>6
      <3> QED
        BY <1>1, <3>2
    <2>4. \A i, j, l \in I : InOrder(i, j) /\ InOrder(j, l) => InOrder(i, l)
      <3> SUFFICES ASSUME NEW i \in I, NEW j \in I, NEW l \in I, InOrder(i, j), InOrder(j, l)
                   PROVE InOrder(i, l)
        OBVIOUS
      <3>1. q[i] \in S /\ q[j] \in S /\ q[l] \in S /\ Before(q[i], q[j]) /\ Before(q[j], q[l])
        BY <1>1, <1>5
      <3>2. Before(q[i], q[l])
        BY <3>1, <1>6
      <3> QED
        BY <1>5, <3>2
    <2> QED
      BY <2>1, <2>2, <2>3, <2>4
  <1>9. ASSUME NEW i \in I PROVE Cardinality(B[i]) = Cardinality(C[q[i]])
    <2> DEFINE g == [j \in B[i] |-> q[j]]
    <2>1. IsFiniteSet(B[i]) /\ B[i] \subseteq I
      BY <1>2, <1>8, FS_Subset
    <2>2. g \in [B[i] -> C[q[i]]]
      BY <1>1, <1>5
    <2>3. \A x, y \in B[i] : g[x] = g[y] => x = y
      BY <1>1, <2>1
    <2>4. \A e \in C[q[i]] : \E j \in B[i] : g[j] = e
      BY <1>1, <1>5
    <2>5. g \in Bijection(B[i], C[q[i]])
      BY <2>2, <2>3, <2>4 DEF Bijection, Injection, Surjection, IsInjective
    <2> QED
      BY <2>1, <2>5, FS_Bijection DEF ExistsBijection
  <1>10. \A n : (CHOOSE i \in I : Cardinality({j \in I : InOrder(j, i)}) = n) = at(n)
    OBVIOUS
  <1>11. Sorted(q) = [n \in 1..N |-> q[at(n)]]
    BY <1>2, <1>4, <1>10
  <1>12. \A n : (CHOOSE e \in S : Cardinality({x \in S : Before(x, e)}) = n) = CHOOSE e \in S : Cardinality(C[e]) = n
    OBVIOUS
  <1> HIDE DEF B, C
  <1>13. \A n \in 1..N : \E i \in I : Cardinality(B[i]) = n
    BY <1>2, <1>8, RanksCover
  <1>14. \A n \in 1..N : at(n) \in I /\ Cardinality(B[at(n)]) = n
    BY <1>13
  <1>15. \A x, y \in S : Cardinality(C[x]) = Cardinality(C[y]) => x = y
    BY <1>7, RanksCover
  <1>16. ASSUME NEW n \in 1..N PROVE (CHOOSE e \in S : Cardinality(C[e]) = n) = q[at(n)]
    <2>1. q[at(n)] \in S /\ Cardinality(C[q[at(n)]]) = n
      BY <1>1, <1>9, <1>14
    <2> QED
      BY <1>15, <2>1
  <1> HIDE DEF at
  <1> QED
    BY <1>11, <1>12, <1>16

-----------------------------------------------------------------------------
(* The commands on lists *)

LEMMA GrownIsList ==
    ASSUME NEW o, o.packed \in BOOLEAN, NEW q \in Seq(Int)
    PROVE /\ ListValue(Grown(o, q)) /\ Aggregate(Grown(o, q))
          /\ q # <<>> => Size(Grown(o, q)) # 0
  <1> DEFINE p == o.packed /\ Len(q) <= MaxPacked
  <1>1. Grown(o, q) = List(q, p) /\ p \in BOOLEAN /\ (p => Len(q) <= MaxPacked)
    BY DEF Grown
  <1> HIDE DEF p
  <1>2. ListValue(List(q, p)) /\ Size(List(q, p)) = Len(q)
    BY <1>1 DEF ListValue, List, Size
  <1>3. Len(q) # 0 <=> q # <<>>
    OBVIOUS
  <1> QED
    BY <1>1, <1>2, <1>3 DEF Aggregate

LEMMA PutGrownLeaves ==
    ASSUME NEW D, Sound(D), NEW k \in Keys, NEW o, o.packed \in BOOLEAN, NEW q \in Seq(Int), q # <<>>
    PROVE Leaves(D, Changed(Put(D, k, Grown(o, q)), {k}))
  <1> DEFINE p == Grown(o, q)
  <1>1. Aggregate(p) /\ Size(p) # 0
    BY GrownIsList
  <1> HIDE DEF p
  <1>2. Leaves(D, Changed(Put(D, k, p), {k}))
    BY <1>1, PutAggregateLeaves
  <1> QED
    BY <1>2 DEF p

LEMMA HeldListIsList ==
    ASSUME NEW D, Sound(D), NEW k \in Keys, Is(D, k, "list")
    PROVE /\ ListValue(D.val[k]) /\ Has(D, k) /\ OfType(D, k, "list") /\ D.val[k].packed \in BOOLEAN
          /\ D.val[k].content \in Seq(Int) /\ D.val[k].content # <<>>
  <1>1. ListValue(D.val[k]) /\ Has(D, k) /\ OfType(D, k, "list") /\ Size(D.val[k]) > 0
    BY ValueTypes DEF Sound, Is, Has, OfType
  <1>2. D.val[k].packed \in BOOLEAN /\ D.val[k].content \in Seq(Int) /\ Size(D.val[k]) = Len(D.val[k].content)
    BY <1>1 DEF ListValue, Size
  <1> QED
    BY <1>1, <1>2

LEMMA ListOfKeyIsList ==
    ASSUME NEW D, Sound(D), NEW k \in Keys, OfType(D, k, "list")
    PROVE LET o == IF Has(D, k) THEN D.val[k] ELSE List(<<>>, TRUE)
          IN o.packed \in BOOLEAN /\ o.content \in Seq(Int)
  <1>1. CASE Has(D, k)
    <2>1. Is(D, k, "list")
      BY <1>1, SoundFacts
    <2> QED
      BY <1>1, <2>1, HeldListIsList
  <1>2. CASE ~Has(D, k)
    BY <1>2 DEF List
  <1> QED
    BY <1>1, <1>2

LEMMA PushedIsSeq ==
    ASSUME NEW q \in Seq(Int), NEW e \in Int, NEW left
    PROVE Pushed(q, e, left) \in Seq(Int) /\ Pushed(q, e, left) # <<>>
  <1>1. <<e>> \o q \in Seq(Int) /\ Len(<<e>> \o q) = 1 + Len(q)
    OBVIOUS
  <1>2. Append(q, e) \in Seq(Int) /\ Len(Append(q, e)) = 1 + Len(q)
    OBVIOUS
  <1>3. Pushed(q, e, left) \in Seq(Int) /\ Len(Pushed(q, e, left)) = 1 + Len(q) /\ Len(q) \in Nat
    BY <1>1, <1>2 DEF Pushed
  <1> QED
    BY <1>3

LEMMA WithContent ==
    ASSUME NEW o, ListValue(o), NEW q \in Seq(Int), Len(q) <= Len(o.content)
    PROVE LET p == [o EXCEPT !.content = q]
          IN ListValue(p) /\ Aggregate(p) /\ Size(p) = Len(q) /\ p.type = "list" /\ p.content = q /\ p.packed = o.packed
  <1> DEFINE p == [o EXCEPT !.content = q]
  <1>1. p.type = "list" /\ p.content = q /\ p.packed = o.packed /\ p \in [type : {"list"}, content : Seq(Int), packed : BOOLEAN]
    BY DEF ListValue
  <1>2. Len(q) \in Nat /\ Len(o.content) \in Nat /\ (o.packed => Len(o.content) <= MaxPacked)
    BY DEF ListValue
  <1> HIDE DEF p
  <1>3. ListValue(p) /\ Size(p) = Len(q)
    BY <1>1, <1>2, KeyspaceAssumption DEF ListValue, Size
  <1> QED
    BY <1>1, <1>3 DEF p, Aggregate

LEMMA PushLeaves ==
    ASSUME NEW D, Sound(D), NEW k \in Keys, NEW e \in Int, NEW left
    PROVE Leaves(D, PushCommand(D, k, e, left)) /\ Leaves(D, PushxCommand(D, k, e, left))
  <1>1. Leaves(D, PushCommand(D, k, e, left))
    <2>1. CASE ~OfType(D, k, "list")
      BY <2>1, LeavesUnchanged DEF PushCommand
    <2>2. CASE OfType(D, k, "list")
      <3> DEFINE o == IF Has(D, k) THEN D.val[k] ELSE List(<<>>, TRUE)
                 q == Pushed(o.content, e, left)
      <3>1. o.packed \in BOOLEAN /\ q \in Seq(Int) /\ q # <<>>
        BY <2>2, ListOfKeyIsList, PushedIsSeq
      <3>2. PushCommand(D, k, e, left) = Changed(Put(D, k, Grown(o, q)), {k})
        BY <2>2 DEF PushCommand
      <3> HIDE DEF o, q
      <3> QED
        BY <3>1, <3>2, PutGrownLeaves
    <2> QED
      BY <2>1, <2>2
  <1>2. Leaves(D, PushxCommand(D, k, e, left))
    <2>1. CASE ~Is(D, k, "list")
      BY <2>1, LeavesUnchanged DEF PushxCommand
    <2>2. CASE Is(D, k, "list")
      <3> DEFINE o == D.val[k]
                 q == Pushed(o.content, e, left)
      <3>1. o.packed \in BOOLEAN /\ q \in Seq(Int) /\ q # <<>>
        BY <2>2, HeldListIsList, PushedIsSeq
      <3>2. PushxCommand(D, k, e, left) = Changed(Put(D, k, Grown(o, q)), {k})
        BY <2>2 DEF PushxCommand
      <3> HIDE DEF o, q
      <3> QED
        BY <3>1, <3>2, PutGrownLeaves
    <2> QED
      BY <2>1, <2>2
  <1> QED
    BY <1>1, <1>2

LEMMA InsertedIsSeq ==
    ASSUME NEW q \in Seq(Int), NEW e \in Int, NEW i \in 1..Len(q) + 1
    PROVE InsertAt(q, i, e) \in Seq(Int) /\ InsertAt(q, i, e) # <<>>
  <1>1. SubSeq(q, 1, i - 1) \in Seq(Int) /\ SubSeq(q, i, Len(q)) \in Seq(Int)
    OBVIOUS
  <1>2. <<e>> \in Seq(Int) /\ Len(<<e>>) = 1
    OBVIOUS
  <1> DEFINE a == SubSeq(q, 1, i - 1)
             b == SubSeq(q, i, Len(q))
             c == <<e>>
  <1>3. InsertAt(q, i, e) = a \o c \o b
    BY DEF InsertAt
  <1>4. a \in Seq(Int) /\ b \in Seq(Int) /\ c \in Seq(Int) /\ Len(c) = 1
    BY <1>1, <1>2
  <1> HIDE DEF a, b, c
  <1>5. a \o c \in Seq(Int) /\ Len(a \o c) = Len(a) + Len(c)
    BY <1>4, ConcatProperties
  <1> DEFINE d == a \o c
  <1> HIDE DEF d
  <1>6. d \o b \in Seq(Int) /\ Len(d \o b) = Len(d) + Len(b)
    BY <1>4, <1>5, ConcatProperties DEF d
  <1>7. Len(a) \in Nat /\ Len(b) \in Nat
    BY <1>4
  <1>8. Len(d \o b) # 0
    BY <1>4, <1>5, <1>6, <1>7 DEF d
  <1>9. d \o b # <<>>
    BY <1>6, <1>8
  <1> QED
    BY <1>3, <1>6, <1>9 DEF d

LEMMA FirstExists ==
    ASSUME NEW T \in SUBSET Nat, T # {}
    PROVE \E i \in T : \A j \in T : i <= j
  <1>1. PICK i \in T : \A j \in T : ~(<<j, i>> \in OpToRel(<, Nat))
    BY NatLessThanWellFounded, WFMin
  <1>2. \A j \in T : ~(j < i)
    BY <1>1 DEF OpToRel
  <1> QED
    BY <1>2

LEMMA LinsertLeaves ==
    ASSUME NEW D, Sound(D), NEW k \in Keys, NEW pivot, NEW e \in Int, NEW after
    PROVE Leaves(D, LinsertCommand(D, k, pivot, e, after))
  <1> DEFINE o == D.val[k]
             at == {i \in DOMAIN o.content : o.content[i] = pivot}
             first == CHOOSE i \in at : \A j \in at : i <= j
             i == IF after THEN first + 1 ELSE first
             q == InsertAt(o.content, i, e)
  <1>1. LinsertCommand(D, k, pivot, e, after) =
          IF ~Is(D, k, "list") THEN Unchanged(D)
          ELSE IF at = {} THEN Unchanged(D)
          ELSE Changed(Put(D, k, Grown(o, q)), {k})
    BY Zenon DEF LinsertCommand
  <1>2. CASE Is(D, k, "list") /\ at # {}
    <2>1. o.packed \in BOOLEAN /\ o.content \in Seq(Int)
      BY <1>2, HeldListIsList
    <2>2. at \subseteq 1..Len(o.content) /\ Len(o.content) \in Nat
      BY <2>1
    <2>b. at \in SUBSET Nat
      BY <2>2
    <2> HIDE DEF at, o
    <2>3. \E x \in at : \A y \in at : x <= y
      BY <1>2, <2>b, FirstExists
    <2>4. first \in at
      BY <2>3
    <2> HIDE DEF first
    <2>5. i \in 1..Len(o.content) + 1
      BY <2>2, <2>4
    <2> HIDE DEF i
    <2>6. q \in Seq(Int) /\ q # <<>>
      BY <2>1, <2>5, InsertedIsSeq
    <2> HIDE DEF q
    <2> QED
      BY <1>1, <1>2, <2>1, <2>6, PutGrownLeaves
  <1> QED
    BY <1>1, <1>2, LeavesUnchanged

(* A list with the elements q in place of those of key k *)
LEMMA PutShorterLeaves ==
    ASSUME NEW D, Sound(D), NEW k \in Keys, Is(D, k, "list"),
           NEW q \in Seq(Int), Len(q) <= Len(D.val[k].content)
    PROVE /\ Leaves(D, Changed(PutOrDelete(D, k, [D.val[k] EXCEPT !.content = q]), {k}))
          /\ Len(q) # 0 => Leaves(D, Changed(Put(D, k, [D.val[k] EXCEPT !.content = q]), {k}))
  <1> DEFINE p == [D.val[k] EXCEPT !.content = q]
  <1>1. ListValue(D.val[k])
    BY HeldListIsList
  <1>2. Aggregate(p) /\ Size(p) = Len(q)
    BY <1>1, WithContent
  <1> HIDE DEF p
  <1>3. Leaves(D, Changed(PutOrDelete(D, k, p), {k}))
    BY <1>2, PutOrDeleteLeaves
  <1>4. Len(q) # 0 => Leaves(D, Changed(Put(D, k, p), {k}))
    BY <1>2, PutAggregateLeaves
  <1> QED
    BY <1>3, <1>4 DEF p

LEMMA LsetLeaves ==
    ASSUME NEW D, Sound(D), NEW k \in Keys, NEW index, NEW e \in Int
    PROVE Leaves(D, LsetCommand(D, k, index, e))
  <1> DEFINE o == D.val[k]
             i == IF index < 0 THEN Len(o.content) + index + 1 ELSE index + 1
             c == o.content
             q == [c EXCEPT ![i] = e]
  <1>1. CASE Is(D, k, "list") /\ i \in DOMAIN o.content
    <2>1. ListValue(o) /\ o.content \in Seq(Int) /\ o.content # <<>>
      BY <1>1, HeldListIsList
    <2>3. [o EXCEPT !.content[i] = e] = [o EXCEPT !.content = q]
      BY <2>1 DEF ListValue
    <2>4. LsetCommand(D, k, index, e) = Changed(Put(D, k, [o EXCEPT !.content[i] = e]), {k})
      BY <1>1, Zenon DEF LsetCommand
    <2>5. c \in Seq(Int) /\ c # <<>> /\ i \in DOMAIN c
      BY <1>1, <2>1
    <2> HIDE DEF c, i
    <2>6. q \in Seq(Int) /\ Len(q) = Len(c) /\ Len(c) # 0 /\ Len(c) \in Nat
      BY <2>5
    <2>7. Len(q) <= Len(D.val[k].content) /\ Len(q) # 0
      BY <2>6 DEF c
    <2> HIDE DEF q
    <2>8. Leaves(D, Changed(Put(D, k, [o EXCEPT !.content = q]), {k}))
      BY <1>1, <2>6, <2>7, PutShorterLeaves
    <2> QED
      BY <2>3, <2>4, <2>8
  <1>2. CASE ~(Is(D, k, "list") /\ i \in DOMAIN o.content)
    <2>1. LsetCommand(D, k, index, e) = Unchanged(D)
      BY <1>2, Zenon DEF LsetCommand
    <2> QED
      BY <2>1, LeavesUnchanged
  <1> QED
    BY <1>1, <1>2

LEMMA PoppedIsSeq ==
    ASSUME NEW q \in Seq(Int), q # <<>>, NEW left
    PROVE Popped(q, left) \in Seq(Int) /\ Len(Popped(q, left)) <= Len(q) /\ Len(Popped(q, left)) = Len(q) - 1
  <1>1. Tail(q) \in Seq(Int) /\ Len(Tail(q)) = Len(q) - 1
    OBVIOUS
  <1>2. Len(q) - 1 \in 0..Len(q) /\ Len(q) \in Nat
    OBVIOUS
  <1>3. SubSeq(q, 1, Len(q) - 1) \in Seq(Int) /\ Len(SubSeq(q, 1, Len(q) - 1)) = Len(q) - 1
    <2> DEFINE n == Len(q) - 1
    <2>1. n \in Nat /\ n < Len(q) /\ Len(q) \in Nat
      BY <1>2
    <2> HIDE DEF n
    <2>2. \A i \in 1..n : q[i] \in Int
      BY <2>1
    <2>3. SubSeq(q, 1, n) \in Seq(Int) /\ Len(SubSeq(q, 1, n)) = IF 1 <= n THEN n - 1 + 1 ELSE 0
      BY <2>1, <2>2, SubSeqProperties
    <2>4. SubSeq(q, 1, n) \in Seq(Int) /\ Len(SubSeq(q, 1, n)) = n
      BY <2>1, <2>3
    <2> QED
      BY <2>4, Zenon DEF n
  <1> QED
    BY <1>1, <1>2, <1>3 DEF Popped, Front

LEMMA PopLeaves ==
    ASSUME NEW D, Sound(D), NEW k \in Keys, NEW left
    PROVE Leaves(D, PopCommand(D, k, left))
  <1>1. CASE Is(D, k, "list")
    <2> DEFINE q == Popped(D.val[k].content, left)
    <2>1. q \in Seq(Int) /\ Len(q) <= Len(D.val[k].content)
      BY <1>1, HeldListIsList, PoppedIsSeq
    <2>2. PopCommand(D, k, left) = Changed(PutOrDelete(D, k, [D.val[k] EXCEPT !.content = q]), {k})
      BY <1>1 DEF PopCommand
    <2> HIDE DEF q
    <2> QED
      BY <1>1, <2>1, <2>2, PutShorterLeaves
  <1>2. CASE ~Is(D, k, "list")
    BY <1>2, LeavesUnchanged DEF PopCommand
  <1> QED
    BY <1>1, <1>2

LEMMA TrimmedIsSeq ==
    ASSUME NEW q \in Seq(Int), NEW s \in Int, 0 <= s, NEW e \in Int, e < Len(q)
    PROVE SubSeq(q, s + 1, e + 1) \in Seq(Int) /\ Len(SubSeq(q, s + 1, e + 1)) <= Len(q)
  <1>1. Len(q) \in Nat /\ s + 1 \in 1..(s + 1) /\ e + 1 <= Len(q)
    OBVIOUS
  <1>2. CASE s > e
    <2>1. SubSeq(q, s + 1, e + 1) = <<>>
      BY <1>2
    <2> QED
      BY <1>1, <2>1
  <1>3. CASE s <= e
    <2>1. s + 1 \in 1..Len(q) /\ e + 1 \in 1..Len(q)
      BY <1>1, <1>3
    <2>2. SubSeq(q, s + 1, e + 1) \in Seq(Int) /\ Len(SubSeq(q, s + 1, e + 1)) = e - s + 1
      BY <1>3, <2>1
    <2> QED
      BY <1>1, <2>2
  <1> QED
    BY <1>2, <1>3

LEMMA LtrimLeaves ==
    ASSUME NEW D, Sound(D), NEW k \in Keys, NEW start \in Int, NEW end \in Int
    PROVE Leaves(D, LtrimCommand(D, k, start, end))
  <1> DEFINE o == D.val[k]
             n == Len(o.content)
             s == IF start >= 0 THEN start ELSE IF n + start > 0 THEN n + start ELSE 0
             e == IF end < 0 THEN n + end ELSE IF end >= n THEN n - 1 ELSE end
             q == SubSeq(o.content, s + 1, e + 1)
  <1>1. CASE Is(D, k, "list")
    <2>1. o.content \in Seq(Int) /\ n \in Nat
      BY <1>1, HeldListIsList
    <2>2. s \in Int /\ 0 <= s /\ e \in Int /\ e < Len(o.content)
      BY <2>1
    <2>3. LtrimCommand(D, k, start, end) = Changed(PutOrDelete(D, k, [o EXCEPT !.content = q]), {k})
      BY <1>1, Zenon DEF LtrimCommand
    <2> HIDE DEF s, e
    <2>4. q \in Seq(Int) /\ Len(q) <= Len(o.content)
      BY <2>1, <2>2, TrimmedIsSeq
    <2> HIDE DEF q, n
    <2> QED
      BY <1>1, <2>3, <2>4, PutShorterLeaves
  <1>2. CASE ~Is(D, k, "list")
    <2>1. LtrimCommand(D, k, start, end) = Unchanged(D)
      BY <1>2, Zenon DEF LtrimCommand
    <2> QED
      BY <2>1, LeavesUnchanged
  <1> QED
    BY <1>1, <1>2

LEMMA LremLeaves ==
    ASSUME NEW D, Sound(D), NEW k \in Keys, NEW e
    PROVE Leaves(D, LremCommand(D, k, e))
  <1> DEFINE q == Without(D.val[k].content, e)
  <1>1. CASE Is(D, k, "list")
    <2>1. q \in Seq(Int) /\ Len(q) <= Len(D.val[k].content)
      BY <1>1, HeldListIsList, WithoutIsSeq
    <2>2. LremCommand(D, k, e) \in {Unchanged(D), Changed(PutOrDelete(D, k, [D.val[k] EXCEPT !.content = q]), {k})}
      BY <1>1 DEF LremCommand
    <2> HIDE DEF q
    <2> QED
      BY <1>1, <2>1, <2>2, PutShorterLeaves, LeavesUnchanged
  <1>2. CASE ~Is(D, k, "list")
    BY <1>2, LeavesUnchanged DEF LremCommand
  <1> QED
    BY <1>1, <1>2

(* Values that replace those of src and dst, an empty one of src removed *)
LEMMA MovedSound ==
    ASSUME NEW D, Sound(D), NEW F, IsDataset(F), NEW src \in Keys, NEW dst \in Keys,
           F.ttl = D.ttl, \A j \in Keys \ {src, dst} : F.val[j] = D.val[j],
           Has(D, src), Aggregate(F.val[src]), Aggregate(F.val[dst]), Size(F.val[dst]) # 0
    PROVE Leaves(D, Changed(PutOrDelete(F, src, F.val[src]), {src, dst}))
  <1> DEFINE G == PutOrDelete(F, src, F.val[src])
  <1>1. Present(F.val[dst]) /\ F.val[dst] # Absent
    BY AggregateIsPresent
  <1>2. /\ \A k \in Keys : Value(D.val[k])
        /\ \A k \in Keys : D.ttl[k] => Has(D, k)
    BY DEF Sound
  <1>3. CASE Size(F.val[src]) = 0
    <2>1. src # dst
      BY <1>3
    <2>2. G = Delete(F, src)
      BY <1>3 DEF PutOrDelete
    <2>3. IsDataset(Delete(F, src))
      BY DeleteIsSetKey, SetKeyDataset
    <2>4. Delete(F, src).val[src] = Absent /\ \A j \in Keys \ {src} : Delete(F, src).val[j] = F.val[j]
      BY DeleteVal
    <2>5. ~Delete(F, src).ttl[src] /\ \A j \in Keys \ {src} : Delete(F, src).ttl[j] = F.ttl[j]
      BY DeleteTtl
    <2> DEFINE E == Delete(F, src)
    <2> HIDE DEF E
    <2>6. \A k \in Keys : Value(E.val[k])
      BY <1>1, <1>2, <2>4 DEF E, Value
    <2>7. \A k \in Keys : E.ttl[k] => Has(E, k)
      BY <1>1, <1>2, <2>1, <2>4, <2>5 DEF E, Has
    <2>8. Sound(E)
      BY <2>3, <2>6, <2>7 DEF Sound, E
    <2>9. \A j \in Keys \ {src, dst} : E.val[j] = D.val[j]
      BY <2>4 DEF E
    <2> QED
      BY <2>2, <2>8, <2>9, LeavesChanged DEF E
  <1>4. CASE Size(F.val[src]) # 0
    <2>1. Present(F.val[src]) /\ F.val[src] # Absent
      BY <1>4, AggregateIsPresent
    <2>2. G = Put(F, src, F.val[src])
      BY <1>4 DEF PutOrDelete
    <2> DEFINE E == Put(F, src, F.val[src])
    <2>3. IsDataset(E)
      BY PutDataset
    <2>4. \A j \in Keys : E.val[j] = F.val[j]
      BY PutVal
    <2>5. E.ttl = F.ttl
      BY PutTtl
    <2> HIDE DEF E
    <2>6. \A k \in Keys : Value(E.val[k])
      BY <1>1, <1>2, <2>1, <2>4 DEF Value
    <2>7. \A k \in Keys : E.ttl[k] => Has(E, k)
      BY <1>1, <1>2, <2>1, <2>4, <2>5 DEF Has
    <2>8. Sound(E)
      BY <2>3, <2>6, <2>7 DEF Sound
    <2>9. \A j \in Keys \ {src, dst} : E.val[j] = D.val[j]
      BY <2>4
    <2> QED
      BY <2>2, <2>8, <2>9, LeavesChanged DEF E
  <1> QED
    BY <1>3, <1>4

LEMMA RpoplpushLeaves ==
    ASSUME NEW D, Sound(D), NEW src \in Keys, NEW dst \in Keys
    PROVE Leaves(D, RpoplpushCommand(D, src, dst))
  <1> DEFINE v == D.val[src]
             E == Put(D, src, [v EXCEPT !.content = Front(@)])
             o == IF Has(E, dst) THEN E.val[dst] ELSE List(<<>>, TRUE)
             q == Pushed(o.content, Last(v.content), TRUE)
             F == Put(E, dst, Grown(o, q))
  <1>1. CASE ~Is(D, src, "list") \/ ~OfType(D, dst, "list")
    BY <1>1, LeavesUnchanged DEF RpoplpushCommand
  <1>2. CASE ~(~Is(D, src, "list") \/ ~OfType(D, dst, "list"))
    <2>1. ListValue(v) /\ Has(D, src) /\ v.content \in Seq(Int) /\ v.content # <<>>
      BY <1>2, HeldListIsList
    <2> DEFINE f == Front(v.content)
               w == [v EXCEPT !.content = f]
    <2>2. f \in Seq(Int) /\ Len(f) <= Len(v.content)
      BY <2>1, PoppedIsSeq DEF Popped
    <2>3. Last(v.content) \in Int
      BY <2>1 DEF Last
    <2> HIDE DEF f
    <2>4. ListValue(w) /\ Aggregate(w) /\ w.content = f /\ w.type = "list"
      BY <2>1, <2>2, WithContent
    <2>5. E = Put(D, src, w)
      BY DEF f
    <2>6. RpoplpushCommand(D, src, dst) = Changed(PutOrDelete(F, src, F.val[src]), {src, dst})
      BY <1>2, Zenon DEF RpoplpushCommand
    <2>7. Put(D, src, w).val[src] = w /\ \A j \in Keys \ {src} : Put(D, src, w).val[j] = D.val[j]
      BY PutVal DEF Sound
    <2>8. Put(D, src, w).ttl = D.ttl /\ IsDataset(Put(D, src, w))
      BY PutTtl, PutDataset DEF Sound
    <2> HIDE DEF E, w
    <2>9. E.val[src] = w /\ E.ttl = D.ttl /\ IsDataset(E) /\ \A j \in Keys \ {src} : E.val[j] = D.val[j]
      BY <2>5, <2>7, <2>8
    <2>10. o.content \in Seq(Int) /\ o.packed \in BOOLEAN
      <3>1. CASE dst = src
        <4>1. w.packed \in BOOLEAN /\ w.content \in Seq(Int)
          BY <2>4 DEF ListValue
        <4>2. w # Absent
          BY <2>4 DEF Absent
        <4> QED
          BY <2>9, <3>1, <4>1, <4>2 DEF Has
      <3>2. CASE dst # src
        <4>1. LET p == IF Has(D, dst) THEN D.val[dst] ELSE List(<<>>, TRUE)
              IN p.packed \in BOOLEAN /\ p.content \in Seq(Int)
          BY <1>2, ListOfKeyIsList
        <4>2. E.val[dst] = D.val[dst]
          BY <2>9, <3>2
        <4> QED
          BY <4>1, <4>2 DEF Has
      <3> QED
        BY <3>1, <3>2
    <2> HIDE DEF o
    <2>11. q \in Seq(Int) /\ q # <<>>
      BY <2>3, <2>10, PushedIsSeq
    <2> HIDE DEF q, v
    <2>12. Aggregate(Grown(o, q)) /\ Size(Grown(o, q)) # 0
      BY <2>10, <2>11, GrownIsList
    <2>13. F.val[dst] = Grown(o, q) /\ \A j \in Keys \ {dst} : F.val[j] = E.val[j]
      BY <2>9, PutVal
    <2>14. F.ttl = D.ttl /\ IsDataset(F)
      BY <2>9, PutTtl, PutDataset
    <2> HIDE DEF F
    <2>15. Aggregate(F.val[src])
      BY <2>4, <2>9, <2>12, <2>13
    <2>16. \A j \in Keys \ {src, dst} : F.val[j] = D.val[j]
      BY <2>9, <2>13
    <2>17. Aggregate(F.val[dst]) /\ Size(F.val[dst]) # 0
      BY <2>12, <2>13
    <2>18. Has(D, src)
      BY <2>1
    <2>19. Leaves(D, Changed(PutOrDelete(F, src, F.val[src]), {src, dst}))
      BY <2>14, <2>15, <2>16, <2>17, <2>18, MovedSound
    <2> QED
      BY <2>6, <2>19
  <1> QED
    BY <1>1, <1>2

LEMMA StoreListLeaves ==
    ASSUME NEW D, Sound(D), NEW dst \in Keys, NEW q \in Seq(Int)
    PROVE Leaves(D, StoreList(D, dst, q))
  <1> DEFINE p == Grown(List(<<>>, TRUE), q)
  <1>1. CASE q = <<>>
    BY <1>1, DelLeaves, LeavesUnchanged DEF StoreList
  <1>2. CASE q # <<>>
    <2> DEFINE e == List(<<>>, TRUE)
    <2>1. StoreList(D, dst, q) = Changed(SetKey(D, dst, p), {dst})
      BY <1>2 DEF StoreList
    <2>2. e.packed \in BOOLEAN /\ p = Grown(e, q)
      BY DEF List
    <2> HIDE DEF e, p
    <2>3. Aggregate(p) /\ Size(p) # 0
      BY <1>2, <2>2, GrownIsList
    <2>4. Sound(SetKey(D, dst, p)) /\ \A j \in Keys \ {dst} : SetKey(D, dst, p).val[j] = D.val[j]
      BY <2>3, AggregateIsPresent, SetKeySound, SetKeyVal DEF Sound
    <2> QED
      BY <2>1, <2>4, LeavesChanged
  <1> QED
    BY <1>1, <1>2

(* What SORT sorts, and whether all of it is numbers *)
LEMMA VectorsAreSeq ==
    ASSUME NEW D, Sound(D), NEW k \in Keys
    PROVE LET o == IF Has(D, k) THEN D.val[k] ELSE List(<<>>, TRUE)
          IN o.type \in {"list", "set"} => \A q \in Vectors(o) : q \in Seq(Int)
  <1> DEFINE o == IF Has(D, k) THEN D.val[k] ELSE List(<<>>, TRUE)
  <1> SUFFICES ASSUME o.type \in {"list", "set"}, NEW q \in Vectors(o) PROVE q \in Seq(Int)
    OBVIOUS
  <1>1. CASE o.type = "set"
    <2>1. Is(D, k, "set") /\ o = D.val[k]
      BY <1>1 DEF List, Is
    <2>2. SetValue(o) /\ q \in SetToSeqs(o.content)
      BY <1>1, <2>1, HeldSetIsSet DEF Vectors
    <2> HIDE DEF o
    <2> QED
      BY <2>2, VectorOfSet DEF SetValue
  <1>2. CASE o.type = "list"
    <2>1. q = o.content
      BY <1>2 DEF Vectors
    <2>2. CASE Has(D, k)
      BY <1>2, <2>1, <2>2, HeldListIsList DEF Is
    <2>3. CASE ~Has(D, k)
      BY <2>1, <2>3 DEF List
    <2> QED
      BY <2>2, <2>3
  <1> QED
    BY <1>1, <1>2

LEMMA SortLeaves ==
    ASSUME NEW D, Sound(D), NEW k \in Keys, NEW dst \in Keys, NEW nosort, NEW r \in SortCommand(D, k, dst, nosort)
    PROVE Leaves(D, r)
  <1> DEFINE o == IF Has(D, k) THEN D.val[k] ELSE List(<<>>, TRUE)
  <1>1. \/ r = Unchanged(D)
        \/ o.type \in {"list", "set"} /\ \E q \in Vectors(o) : r = StoreList(D, dst, Sorted(q))
    BY DEF SortCommand, SortedForStore
  <1>2. o.type \in {"list", "set"} => \A q \in Vectors(o) : Sorted(q) \in Seq(Int)
    BY VectorsAreSeq, SortedIsSeq
  <1> HIDE DEF o
  <1> QED
    BY <1>1, <1>2, StoreListLeaves, LeavesUnchanged

LEMMA ListTwins ==
    ASSUME NEW D, NEW R, Sound(D), Sound(R), Like(D, R), NEW k \in Keys
    PROVE /\ Has(D, k) <=> Has(R, k)
          /\ Is(D, k, "list") <=> Is(R, k, "list")
          /\ OfType(D, k, "list") <=> OfType(R, k, "list")
          /\ Is(D, k, "list") => D.val[k].content = R.val[k].content
          /\ (IF Has(D, k) THEN D.val[k] ELSE List(<<>>, TRUE)).content
                = (IF Has(R, k) THEN R.val[k] ELSE List(<<>>, TRUE)).content
  <1>1. Is(D, k, "list") => Has(D, k)
    BY SoundFacts
  <1> QED
    BY <1>1, Twins DEF Is, OfType

LEMMA GrownIsSame ==
    ASSUME NEW o, NEW p, NEW q
    PROVE Same(Grown(o, q), Grown(p, q))
  BY DEF Grown, List, Same

LEMMA PushReplays ==
    ASSUME NEW D, NEW R, Sound(D), Sound(R), Like(D, R), NEW k \in Keys, NEW e, NEW left
    PROVE /\ Replays(PushCommand(D, k, e, left), PushCommand(R, k, e, left), R)
          /\ Replays(PushxCommand(D, k, e, left), PushxCommand(R, k, e, left), R)
  <1> DEFINE o(C) == IF Has(C, k) THEN C.val[k] ELSE List(<<>>, TRUE)
  <1>1. o(D).content = o(R).content
    BY ListTwins
  <1>2. /\ Is(D, k, "list") <=> Is(R, k, "list")
        /\ OfType(D, k, "list") <=> OfType(R, k, "list")
        /\ Is(D, k, "list") => D.val[k].content = R.val[k].content
    BY ListTwins
  <1>3. \A a, b, q : Replays(Changed(Put(D, k, Grown(a, q)), {k}), Changed(Put(R, k, Grown(b, q)), {k}), R)
    BY GrownIsSame, LikePut, ReplaysChanged DEF Sound
  <1>4. \A C : PushCommand(C, k, e, left) =
                 IF ~OfType(C, k, "list") THEN Unchanged(C)
                 ELSE Changed(Put(C, k, Grown(o(C), Pushed(o(C).content, e, left))), {k})
    BY Zenon DEF PushCommand
  <1> HIDE DEF o
  <1>5. Replays(PushCommand(D, k, e, left), PushCommand(R, k, e, left), R)
    BY <1>1, <1>2, <1>3, <1>4, ReplaysUnchanged
  <1>6. Replays(PushxCommand(D, k, e, left), PushxCommand(R, k, e, left), R)
    BY <1>2, <1>3, ReplaysUnchanged DEF PushxCommand
  <1> QED
    BY <1>5, <1>6

LEMMA LinsertReplays ==
    ASSUME NEW D, NEW R, Sound(D), Sound(R), Like(D, R), NEW k \in Keys, NEW pivot, NEW e, NEW after
    PROVE Replays(LinsertCommand(D, k, pivot, e, after), LinsertCommand(R, k, pivot, e, after), R)
  <1> DEFINE at(c) == {i \in DOMAIN c : c[i] = pivot}
             first(c) == CHOOSE i \in at(c) : \A j \in at(c) : i <= j
             q(c) == InsertAt(c, IF after THEN first(c) + 1 ELSE first(c), e)
  <1>1. (Is(D, k, "list") <=> Is(R, k, "list")) /\ (Is(D, k, "list") => D.val[k].content = R.val[k].content)
    BY ListTwins
  <1>2. \A a, b, c : Replays(Changed(Put(D, k, Grown(a, c)), {k}), Changed(Put(R, k, Grown(b, c)), {k}), R)
    BY GrownIsSame, LikePut, ReplaysChanged DEF Sound
  <1>3. \A C : LinsertCommand(C, k, pivot, e, after) =
                 IF ~Is(C, k, "list") THEN Unchanged(C)
                 ELSE IF at(C.val[k].content) = {} THEN Unchanged(C)
                 ELSE Changed(Put(C, k, Grown(C.val[k], q(C.val[k].content))), {k})
    BY Zenon DEF LinsertCommand
  <1> HIDE DEF at, q
  <1> QED
    BY <1>1, <1>2, <1>3, ReplaysUnchanged

(* The same elements in place of those of key k *)
LEMMA LikeWithContent ==
    ASSUME NEW D, NEW R, Sound(D), Sound(R), Like(D, R), NEW k \in Keys, Is(D, k, "list"), NEW q
    PROVE /\ Like(Put(D, k, [D.val[k] EXCEPT !.content = q]), Put(R, k, [R.val[k] EXCEPT !.content = q]))
          /\ Like(PutOrDelete(D, k, [D.val[k] EXCEPT !.content = q]), PutOrDelete(R, k, [R.val[k] EXCEPT !.content = q]))
  <1> DEFINE o == [D.val[k] EXCEPT !.content = q]
             p == [R.val[k] EXCEPT !.content = q]
  <1>1. ListValue(D.val[k]) /\ ListValue(R.val[k])
    BY ListTwins, HeldListIsList
  <1>2. o.type = "list" /\ p.type = "list" /\ o.content = q /\ p.content = q
    BY <1>1 DEF ListValue
  <1> HIDE DEF o, p
  <1>3. Same(o, p) /\ o # Absent /\ Size(o) = Size(p)
    BY <1>2 DEF Same, Absent, Size
  <1>4. Like(Put(D, k, o), Put(R, k, p)) /\ Like(PutOrDelete(D, k, o), PutOrDelete(R, k, p))
    BY <1>3, LikePut, LikePutOrDelete DEF Sound
  <1> QED
    BY <1>4 DEF o, p

LEMMA LsetReplays ==
    ASSUME NEW D, NEW R, Sound(D), Sound(R), Like(D, R), NEW k \in Keys, NEW index, NEW e
    PROVE Replays(LsetCommand(D, k, index, e), LsetCommand(R, k, index, e), R)
  <1> DEFINE i(c) == IF index < 0 THEN Len(c) + index + 1 ELSE index + 1
             q(c) == [c EXCEPT ![i(c)] = e]
  <1>1. (Is(D, k, "list") <=> Is(R, k, "list")) /\ (Is(D, k, "list") => D.val[k].content = R.val[k].content)
    BY ListTwins
  <1>2. \A C : LsetCommand(C, k, index, e) =
                 IF ~Is(C, k, "list") THEN Unchanged(C)
                 ELSE IF i(C.val[k].content) \notin DOMAIN C.val[k].content THEN Unchanged(C)
                 ELSE Changed(Put(C, k, [C.val[k] EXCEPT !.content[i(C.val[k].content)] = e]), {k})
    BY Zenon DEF LsetCommand
  <1>3. \A o, x : ListValue(o) => [o EXCEPT !.content[x] = e] = [o EXCEPT !.content = [o.content EXCEPT ![x] = e]]
    BY DEF ListValue
  <1> HIDE DEF i
  <1>4. CASE ~Is(D, k, "list") \/ i(D.val[k].content) \notin DOMAIN D.val[k].content
    BY <1>2, <1>4, ReplaysUnchanged
  <1>5. CASE ~(~Is(D, k, "list") \/ i(D.val[k].content) \notin DOMAIN D.val[k].content)
    <2>1. ListValue(D.val[k]) /\ ListValue(R.val[k])
      BY <1>1, <1>5, HeldListIsList
    <2> DEFINE d == q(D.val[k].content)
    <2>2. LsetCommand(D, k, index, e) = Changed(Put(D, k, [D.val[k] EXCEPT !.content = d]), {k})
      BY <1>2, <1>3, <1>5, <2>1
    <2>3. LsetCommand(R, k, index, e) = Changed(Put(R, k, [R.val[k] EXCEPT !.content = d]), {k})
      BY <1>1, <1>2, <1>3, <1>5, <2>1
    <2> HIDE DEF d
    <2>4. Like(Put(D, k, [D.val[k] EXCEPT !.content = d]), Put(R, k, [R.val[k] EXCEPT !.content = d]))
      BY <1>5, LikeWithContent
    <2> QED
      BY <2>2, <2>3, <2>4, ReplaysChanged
  <1> QED
    BY <1>4, <1>5

LEMMA ShrinkReplays ==
    ASSUME NEW D, NEW R, Sound(D), Sound(R), Like(D, R), NEW k \in Keys
    PROVE /\ \A left : Replays(PopCommand(D, k, left), PopCommand(R, k, left), R)
          /\ \A start, end : Replays(LtrimCommand(D, k, start, end), LtrimCommand(R, k, start, end), R)
          /\ \A e : Replays(LremCommand(D, k, e), LremCommand(R, k, e), R)
  <1>1. (Is(D, k, "list") <=> Is(R, k, "list")) /\ (Is(D, k, "list") => D.val[k].content = R.val[k].content)
    BY ListTwins
  <1>2. CASE ~Is(D, k, "list")
    <2>1. /\ \A left : PopCommand(D, k, left) = Unchanged(D)
          /\ \A start, end : LtrimCommand(D, k, start, end) = Unchanged(D)
          /\ \A e : LremCommand(D, k, e) = Unchanged(D)
      BY <1>2, Zenon DEF PopCommand, LtrimCommand, LremCommand
    <2> QED
      BY <2>1, ReplaysUnchanged
  <1>3. CASE Is(D, k, "list")
    <2> DEFINE c == D.val[k].content
               new(C, q) == Changed(PutOrDelete(C, k, [C.val[k] EXCEPT !.content = q]), {k})
    <2>1. \A q : Replays(new(D, q), new(R, q), R)
      BY <1>3, LikeWithContent, ReplaysChanged
    <2>2. \A C : Is(C, k, "list") /\ C.val[k].content = c =>
              /\ \A left : PopCommand(C, k, left) = new(C, Popped(c, left))
              /\ \A e : LremCommand(C, k, e) = IF Contains(c, e) THEN new(C, Without(c, e)) ELSE Unchanged(C)
      BY DEF PopCommand, LremCommand
    <2> DEFINE s(start) == IF start >= 0 THEN start ELSE IF Len(c) + start > 0 THEN Len(c) + start ELSE 0
               e(end) == IF end < 0 THEN Len(c) + end ELSE IF end >= Len(c) THEN Len(c) - 1 ELSE end
    <2>3. \A C : Is(C, k, "list") /\ C.val[k].content = c =>
              \A start, end : LtrimCommand(C, k, start, end) = new(C, SubSeq(c, s(start) + 1, e(end) + 1))
      BY DEF LtrimCommand
    <2> HIDE DEF c, new, s, e
    <2>4. Is(R, k, "list") /\ R.val[k].content = c /\ D.val[k].content = c
      BY <1>1, <1>3 DEF c
    <2> QED
      BY <1>3, <2>1, <2>2, <2>3, <2>4, ReplaysUnchanged
  <1> QED
    BY <1>2, <1>3

LEMMA RpoplpushReplays ==
    ASSUME NEW D, NEW R, Sound(D), Sound(R), Like(D, R), NEW src \in Keys, NEW dst \in Keys
    PROVE Replays(RpoplpushCommand(D, src, dst), RpoplpushCommand(R, src, dst), R)
  <1> DEFINE w(C) == [C.val[src] EXCEPT !.content = Front(@)]
             E(C) == Put(C, src, w(C))
             o(C) == IF Has(E(C), dst) THEN E(C).val[dst] ELSE List(<<>>, TRUE)
             q(C) == Pushed(o(C).content, Last(C.val[src].content), TRUE)
             F(C) == Put(E(C), dst, Grown(o(C), q(C)))
             no(C) == ~Is(C, src, "list") \/ ~OfType(C, dst, "list")
  <1>1. \A C : RpoplpushCommand(C, src, dst) =
                 IF no(C) THEN Unchanged(C) ELSE Changed(PutOrDelete(F(C), src, F(C).val[src]), {src, dst})
    BY Zenon DEF RpoplpushCommand
  <1>2. no(D) <=> no(R)
    BY ListTwins
  <1>3. CASE no(D)
    <2> HIDE DEF no, F
    <2> QED
      BY <1>1, <1>3, ReplaysUnchanged
  <1>4. CASE ~no(D)
    <2>1. Is(D, src, "list") /\ Is(R, src, "list") /\ D.val[src].content = R.val[src].content
      BY <1>2, <1>4, ListTwins
    <2> DEFINE c == D.val[src].content
    <2>2. ListValue(D.val[src]) /\ ListValue(R.val[src])
      BY <2>1, HeldListIsList
    <2>3. /\ w(D).type = "list" /\ w(D).content = Front(c)
          /\ w(R).type = "list" /\ w(R).content = Front(c)
      BY <2>1, <2>2 DEF ListValue
    <2>4. \A C \in {D, R} : IsDataset(C)
      BY DEF Sound
    <2> HIDE DEF w, c
    <2>5. w(D) # Absent /\ w(R) # Absent /\ Same(w(D), w(R))
      BY <2>3 DEF Absent, Same
    <2>6. IsDataset(E(D)) /\ IsDataset(E(R)) /\ Like(E(D), E(R))
      BY <2>4, <2>5, PutDataset, LikePut
    <2>7. \A C \in {D, R} : E(C).val[src] = w(C) /\ \A j \in Keys \ {src} : E(C).val[j] = C.val[j]
      BY <2>4, PutVal
    <2> HIDE DEF E
    <2>8. o(D).content = o(R).content
      <3>1. CASE dst = src
        <4>1. E(D).val[src] = w(D) /\ E(R).val[src] = w(R)
          BY <2>7
        <4>2. o(D) = w(D) /\ o(R) = w(R)
          BY <3>1, <4>1, <2>5 DEF Has
        <4> HIDE DEF o
        <4> QED
          BY <2>3, <4>2
      <3>2. CASE dst # src
        <4>1. E(D).val[dst] = D.val[dst] /\ E(R).val[dst] = R.val[dst]
          BY <2>7, <3>2
        <4>2. /\ o(D) = IF Has(D, dst) THEN D.val[dst] ELSE List(<<>>, TRUE)
              /\ o(R) = IF Has(R, dst) THEN R.val[dst] ELSE List(<<>>, TRUE)
          BY <4>1 DEF Has
        <4>3. (IF Has(D, dst) THEN D.val[dst] ELSE List(<<>>, TRUE)).content
                = (IF Has(R, dst) THEN R.val[dst] ELSE List(<<>>, TRUE)).content
          BY ListTwins
        <4> HIDE DEF o
        <4> QED
          BY <4>2, <4>3, Zenon
      <3> QED
        BY <3>1, <3>2
    <2> HIDE DEF o
    <2>9. q(D) = q(R)
      BY <2>1, <2>8
    <2> DEFINE l == q(D)
    <2>10. F(D) = Put(E(D), dst, Grown(o(D), l)) /\ F(R) = Put(E(R), dst, Grown(o(R), l))
      BY <2>9
    <2> HIDE DEF q, l
    <2>11. Same(Grown(o(D), l), Grown(o(R), l))
      BY GrownIsSame
    <2>12. Like(F(D), F(R)) /\ IsDataset(F(D)) /\ IsDataset(F(R))
      BY <2>6, <2>10, <2>11, LikePut, PutDataset
    <2>13. /\ F(D).val[dst] = Grown(o(D), l) /\ \A j \in Keys \ {dst} : F(D).val[j] = E(D).val[j]
           /\ F(R).val[dst] = Grown(o(R), l) /\ \A j \in Keys \ {dst} : F(R).val[j] = E(R).val[j]
      BY <2>6, <2>10, PutVal
    <2> HIDE DEF F
    <2> DEFINE d == F(D).val[src]
               r == F(R).val[src]
    <2>14. d.type = "list" /\ r.type = "list" /\ d.content = r.content
      <3>1. CASE dst = src
        BY <2>13, <3>1 DEF Grown, List
      <3>2. CASE dst # src
        <4>1. d = w(D) /\ r = w(R)
          BY <2>7, <2>13, <3>2
        <4> HIDE DEF d, r
        <4> QED
          BY <2>3, <4>1
      <3> QED
        BY <3>1, <3>2
    <2> HIDE DEF d, r
    <2>15. Same(d, r) /\ d # Absent /\ Size(d) = Size(r)
      BY <2>14 DEF Same, Absent, Size
    <2>16. Like(PutOrDelete(F(D), src, d), PutOrDelete(F(R), src, r))
      BY <2>12, <2>15, LikePutOrDelete
    <2> HIDE DEF no
    <2> QED
      BY <1>1, <1>2, <1>4, <2>16, ReplaysChanged DEF d, r
  <1> QED
    BY <1>3, <1>4

LEMMA StoreListReplays ==
    ASSUME NEW D, NEW R, Sound(D), Sound(R), Like(D, R), NEW dst \in Keys, NEW q
    PROVE Replays(StoreList(D, dst, q), StoreList(R, dst, q), R)
  <1> DEFINE p == Grown(List(<<>>, TRUE), q)
  <1>1. Has(D, dst) <=> Has(R, dst)
    BY Twins
  <1>2. Like(SetKey(D, dst, p), SetKey(R, dst, p)) /\ Like(Delete(D, dst), Delete(R, dst))
    BY LikeSetKey, LikeDelete, SameItself DEF Sound
  <1>3. \A C : StoreList(C, dst, q) =
                 IF q # <<>> THEN Changed(SetKey(C, dst, p), {dst})
                 ELSE IF Has(C, dst) THEN Changed(Delete(C, dst), {dst}) ELSE Unchanged(C)
    BY Zenon DEF StoreList
  <1> HIDE DEF p
  <1> QED
    BY <1>1, <1>2, <1>3, ReplaysChanged, ReplaysUnchanged

(* SORT sorts what comes in any order to the same list on both sides. *)
LEMMA VectorsOfSame ==
    ASSUME NEW o, NEW p, o.type = p.type, o.content = p.content, o.type \in {"list", "set"},
           o.type = "set" => o.content \subseteq Int /\ IsFiniteSet(o.content),
           NEW q \in Vectors(o), NEW s \in Vectors(p)
    PROVE /\ Sorted(q) = Sorted(s)
          /\ (\E i \in DOMAIN q : ~IsNumber(q[i])) <=> (\E i \in DOMAIN s : ~IsNumber(s[i]))
  <1>1. CASE o.type = "list"
    <2>1. q = s
      BY <1>1 DEF Vectors
    <2> QED
      BY <2>1
  <1>2. CASE o.type = "set"
    <2> DEFINE S == o.content
    <2>1. q \in SetToSeqs(S) /\ s \in SetToSeqs(S)
      BY <1>2 DEF Vectors
    <2>2. S \subseteq Int /\ IsFiniteSet(S)
      BY <1>2
    <2> HIDE DEF S
    <2>3. Sorted(q) = Sorted(s)
      BY <2>1, <2>2, SortedVector
    <2>4. /\ (\A i \in DOMAIN q : q[i] \in S) /\ \A e \in S : \E i \in DOMAIN q : q[i] = e
          /\ (\A i \in DOMAIN s : s[i] \in S) /\ \A e \in S : \E i \in DOMAIN s : s[i] = e
      BY <2>1, <2>2, VectorOfSet
    <2> QED
      BY <2>3, <2>4
  <1> QED
    BY <1>1, <1>2

LEMMA SortReplays ==
    ASSUME NEW D, NEW R, Sound(D), Sound(R), Like(D, R), NEW k \in Keys, NEW dst \in Keys, NEW nosort,
           NEW r \in SortCommand(D, k, dst, nosort), NEW q \in SortCommand(R, k, dst, nosort)
    PROVE Replays(r, q, R)
  <1> DEFINE o(C) == IF Has(C, k) THEN C.val[k] ELSE List(<<>>, TRUE)
             none(s) == ~nosort /\ \E i \in DOMAIN s : ~IsNumber(s[i])
  <1>1. \A C : SortCommand(C, k, dst, nosort) =
                 IF o(C).type \notin {"list", "set"} THEN {Unchanged(C)}
                 ELSE {IF none(s) THEN Unchanged(C) ELSE StoreList(C, dst, Sorted(s)) : s \in Vectors(o(C))}
    BY Zenon DEF SortCommand, SortedForStore
  <1>2. /\ o(D).type = o(R).type
        /\ o(D).type \in {"list", "set"} =>
             \A s \in Vectors(o(D)), t \in Vectors(o(R)) : Sorted(s) = Sorted(t) /\ (none(s) <=> none(t))
    <2> DEFINE a == o(D)
               b == o(R)
    <2>1. a.type = b.type /\ a.content = b.content
      BY Twins DEF List
    <2>2. a.type = "set" => a.content \subseteq Int /\ IsFiniteSet(a.content)
      <3>1. a.type = "set" => a = D.val[k] /\ Is(D, k, "set")
        BY DEF List, Is
      <3> HIDE DEF a
      <3> QED
        BY <3>1, HeldSetIsSet DEF SetValue
    <2> HIDE DEF o, a, b
    <2>3. ASSUME a.type \in {"list", "set"}, NEW s \in Vectors(a), NEW t \in Vectors(b)
          PROVE Sorted(s) = Sorted(t) /\ (none(s) <=> none(t))
      BY <2>1, <2>2, <2>3, VectorsOfSame
    <2> QED
      BY <2>1, <2>3 DEF a, b
  <1> HIDE DEF o, none
  <1>3. \/ r = Unchanged(D)
        \/ /\ o(D).type \in {"list", "set"}
           /\ \E s \in Vectors(o(D)) : ~none(s) /\ r = StoreList(D, dst, Sorted(s))
    BY <1>1
  <1>4. CASE r = Unchanged(D)
    BY <1>4, ReplaysUnchanged
  <1>5. CASE o(D).type \in {"list", "set"} /\ \E s \in Vectors(o(D)) : ~none(s) /\ r = StoreList(D, dst, Sorted(s))
    <2>1. PICK s \in Vectors(o(D)) : ~none(s) /\ r = StoreList(D, dst, Sorted(s))
      BY <1>5
    <2>2. q = StoreList(R, dst, Sorted(s))
      BY <1>1, <1>2, <1>5, <2>1
    <2> QED
      BY <2>1, <2>2, StoreListReplays
  <1> QED
    BY <1>3, <1>4, <1>5

-----------------------------------------------------------------------------
(* redisCommandTable: the function of each command *)

LEMMA StringTable ==
    ASSUME NEW c, NEW D
    PROVE /\ c[1] = "SET" => Outcomes(c, D) = {SetCommand(D, c[2], c[3], c[4], c[5])}
          /\ c[1] = "GETSET" => Outcomes(c, D) = {GetsetCommand(D, c[2], c[3])}
          /\ c[1] = "MSET" => Outcomes(c, D) = {MsetCommand(D, c[2], c[3], c[4], c[5], c[6])}
          /\ c[1] = "INCRBY" => Outcomes(c, D) = {IncrbyCommand(D, c[2], c[3])}
          /\ c[1] = "INCRBYFLOAT" => Outcomes(c, D) = {IncrbyfloatCommand(D, c[2], c[3])}
          /\ c[1] = "APPEND" => Outcomes(c, D) = {AppendCommand(D, c[2], c[3])}
          /\ c[1] = "SETRANGE" => Outcomes(c, D) = {SetrangeCommand(D, c[2], c[3])}
          /\ c[1] = "SETBIT" => Outcomes(c, D) = {SetbitCommand(D, c[2])}
          /\ c[1] = "BITOP" => Outcomes(c, D) = {BitopCommand(D, c[2], c[3])}
  <1>1. c[1] = "SET" => Outcomes(c, D) = {SetCommand(D, c[2], c[3], c[4], c[5])}
    BY DEF Outcomes, StringOutcomes, KeyNames, HashNames, SetNames, ListNames
  <1>2. c[1] = "GETSET" => Outcomes(c, D) = {GetsetCommand(D, c[2], c[3])}
    BY DEF Outcomes, StringOutcomes, KeyNames, HashNames, SetNames, ListNames
  <1>3. c[1] = "MSET" => Outcomes(c, D) = {MsetCommand(D, c[2], c[3], c[4], c[5], c[6])}
    BY DEF Outcomes, StringOutcomes, KeyNames, HashNames, SetNames, ListNames
  <1>4. c[1] = "INCRBY" => Outcomes(c, D) = {IncrbyCommand(D, c[2], c[3])}
    BY DEF Outcomes, StringOutcomes, KeyNames, HashNames, SetNames, ListNames
  <1>5. c[1] = "INCRBYFLOAT" => Outcomes(c, D) = {IncrbyfloatCommand(D, c[2], c[3])}
    BY DEF Outcomes, StringOutcomes, KeyNames, HashNames, SetNames, ListNames
  <1>6. c[1] = "APPEND" => Outcomes(c, D) = {AppendCommand(D, c[2], c[3])}
    BY DEF Outcomes, StringOutcomes, KeyNames, HashNames, SetNames, ListNames
  <1>7. c[1] = "SETRANGE" => Outcomes(c, D) = {SetrangeCommand(D, c[2], c[3])}
    BY DEF Outcomes, StringOutcomes, KeyNames, HashNames, SetNames, ListNames
  <1>8. c[1] = "SETBIT" => Outcomes(c, D) = {SetbitCommand(D, c[2])}
    BY DEF Outcomes, StringOutcomes, KeyNames, HashNames, SetNames, ListNames
  <1>9. c[1] = "BITOP" => Outcomes(c, D) = {BitopCommand(D, c[2], c[3])}
    BY DEF Outcomes, StringOutcomes, KeyNames, HashNames, SetNames, ListNames
  <1> QED
    BY <1>1, <1>2, <1>3, <1>4, <1>5, <1>6, <1>7, <1>8, <1>9

LEMMA KeyTable ==
    ASSUME NEW c, NEW D
    PROVE /\ c[1] = "DEL" => Outcomes(c, D) = {DelCommand(D, c[2])}
          /\ c[1] = "FLUSHDB" => Outcomes(c, D) = {FlushdbCommand(D, c[2])}
          /\ c[1] = "FLUSHALL" => Outcomes(c, D) = {FlushallCommand(D)}
          /\ c[1] = "RENAME" => Outcomes(c, D) = {RenameCommand(D, c[2], c[3], c[4])}
          /\ c[1] = "MOVE" => Outcomes(c, D) = {MoveCommand(D, c[2], c[3])}
          /\ c[1] = "EXPIRE" => Outcomes(c, D) = {ExpireCommand(D, c[2], c[3])}
          /\ c[1] = "PERSIST" => Outcomes(c, D) = {PersistCommand(D, c[2])}
          /\ c[1] = "SORT" => Outcomes(c, D) = SortCommand(D, c[2], c[3], c[4])
  <1>1. c[1] = "DEL" => Outcomes(c, D) = {DelCommand(D, c[2])}
    BY DEF Outcomes, KeyOutcomes, KeyNames, HashNames, SetNames, ListNames
  <1>2. c[1] = "FLUSHDB" => Outcomes(c, D) = {FlushdbCommand(D, c[2])}
    BY DEF Outcomes, KeyOutcomes, KeyNames, HashNames, SetNames, ListNames
  <1>3. c[1] = "FLUSHALL" => Outcomes(c, D) = {FlushallCommand(D)}
    BY DEF Outcomes, KeyOutcomes, KeyNames, HashNames, SetNames, ListNames
  <1>4. c[1] = "RENAME" => Outcomes(c, D) = {RenameCommand(D, c[2], c[3], c[4])}
    BY DEF Outcomes, KeyOutcomes, KeyNames, HashNames, SetNames, ListNames
  <1>5. c[1] = "MOVE" => Outcomes(c, D) = {MoveCommand(D, c[2], c[3])}
    BY DEF Outcomes, KeyOutcomes, KeyNames, HashNames, SetNames, ListNames
  <1>6. c[1] = "EXPIRE" => Outcomes(c, D) = {ExpireCommand(D, c[2], c[3])}
    BY DEF Outcomes, KeyOutcomes, KeyNames, HashNames, SetNames, ListNames
  <1>7. c[1] = "PERSIST" => Outcomes(c, D) = {PersistCommand(D, c[2])}
    BY DEF Outcomes, KeyOutcomes, KeyNames, HashNames, SetNames, ListNames
  <1>8. c[1] = "SORT" => Outcomes(c, D) = SortCommand(D, c[2], c[3], c[4])
    BY DEF Outcomes, KeyOutcomes, KeyNames, HashNames, SetNames, ListNames
  <1> QED
    BY <1>1, <1>2, <1>3, <1>4, <1>5, <1>6, <1>7, <1>8

LEMMA HashTable ==
    ASSUME NEW c, NEW D
    PROVE /\ c[1] = "HSET" => Outcomes(c, D) = {HsetCommand(D, c[2], c[3], c[4])}
          /\ c[1] = "HSETNX" => Outcomes(c, D) = {HsetnxCommand(D, c[2], c[3], c[4])}
          /\ c[1] = "HMSET" => Outcomes(c, D) = {HmsetCommand(D, c[2], c[3], c[4], c[5])}
          /\ c[1] = "HINCRBY" => Outcomes(c, D) = {HincrbyCommand(D, c[2], c[3], c[4])}
          /\ c[1] = "HINCRBYFLOAT" => Outcomes(c, D) = {HincrbyfloatCommand(D, c[2], c[3], c[4])}
          /\ c[1] = "HDEL" => Outcomes(c, D) = {HdelCommand(D, c[2], c[3])}
  <1>1. c[1] = "HSET" => Outcomes(c, D) = {HsetCommand(D, c[2], c[3], c[4])}
    BY DEF Outcomes, HashOutcomes, KeyNames, HashNames, SetNames, ListNames
  <1>2. c[1] = "HSETNX" => Outcomes(c, D) = {HsetnxCommand(D, c[2], c[3], c[4])}
    BY DEF Outcomes, HashOutcomes, KeyNames, HashNames, SetNames, ListNames
  <1>3. c[1] = "HMSET" => Outcomes(c, D) = {HmsetCommand(D, c[2], c[3], c[4], c[5])}
    BY DEF Outcomes, HashOutcomes, KeyNames, HashNames, SetNames, ListNames
  <1>4. c[1] = "HINCRBY" => Outcomes(c, D) = {HincrbyCommand(D, c[2], c[3], c[4])}
    BY DEF Outcomes, HashOutcomes, KeyNames, HashNames, SetNames, ListNames
  <1>5. c[1] = "HINCRBYFLOAT" => Outcomes(c, D) = {HincrbyfloatCommand(D, c[2], c[3], c[4])}
    BY DEF Outcomes, HashOutcomes, KeyNames, HashNames, SetNames, ListNames
  <1>6. c[1] = "HDEL" => Outcomes(c, D) = {HdelCommand(D, c[2], c[3])}
    BY DEF Outcomes, HashOutcomes, KeyNames, HashNames, SetNames, ListNames
  <1> QED
    BY <1>1, <1>2, <1>3, <1>4, <1>5, <1>6

LEMMA SetTable ==
    ASSUME NEW c, NEW D
    PROVE /\ c[1] = "SADD" => Outcomes(c, D) = {SaddCommand(D, c[2], c[3])}
          /\ c[1] = "SREM" => Outcomes(c, D) = {SremCommand(D, c[2], c[3])}
          /\ c[1] = "SMOVE" => Outcomes(c, D) = {SmoveCommand(D, c[2], c[3], c[4])}
          /\ c[1] = "SPOP" => Outcomes(c, D) = SpopCommand(D, c[2])
          /\ c[1] = "SINTERSTORE" => Outcomes(c, D) = {SinterstoreCommand(D, c[2], c[3], c[4])}
          /\ c[1] = "SUNIONSTORE" => Outcomes(c, D) = {SunionstoreCommand(D, c[2], c[3], c[4])}
          /\ c[1] = "SDIFFSTORE" => Outcomes(c, D) = {SdiffstoreCommand(D, c[2], c[3], c[4])}
  <1>1. c[1] = "SADD" => Outcomes(c, D) = {SaddCommand(D, c[2], c[3])}
    BY DEF Outcomes, SetOutcomes, KeyNames, HashNames, SetNames, ListNames
  <1>2. c[1] = "SREM" => Outcomes(c, D) = {SremCommand(D, c[2], c[3])}
    BY DEF Outcomes, SetOutcomes, KeyNames, HashNames, SetNames, ListNames
  <1>3. c[1] = "SMOVE" => Outcomes(c, D) = {SmoveCommand(D, c[2], c[3], c[4])}
    BY DEF Outcomes, SetOutcomes, KeyNames, HashNames, SetNames, ListNames
  <1>4. c[1] = "SPOP" => Outcomes(c, D) = SpopCommand(D, c[2])
    BY DEF Outcomes, SetOutcomes, KeyNames, HashNames, SetNames, ListNames
  <1>5. c[1] = "SINTERSTORE" => Outcomes(c, D) = {SinterstoreCommand(D, c[2], c[3], c[4])}
    BY DEF Outcomes, SetOutcomes, KeyNames, HashNames, SetNames, ListNames
  <1>6. c[1] = "SUNIONSTORE" => Outcomes(c, D) = {SunionstoreCommand(D, c[2], c[3], c[4])}
    BY DEF Outcomes, SetOutcomes, KeyNames, HashNames, SetNames, ListNames
  <1>7. c[1] = "SDIFFSTORE" => Outcomes(c, D) = {SdiffstoreCommand(D, c[2], c[3], c[4])}
    BY DEF Outcomes, SetOutcomes, KeyNames, HashNames, SetNames, ListNames
  <1> QED
    BY <1>1, <1>2, <1>3, <1>4, <1>5, <1>6, <1>7

LEMMA ListTable ==
    ASSUME NEW c, NEW D
    PROVE /\ c[1] = "PUSH" => Outcomes(c, D) = {PushCommand(D, c[2], c[3], c[4])}
          /\ c[1] = "PUSHX" => Outcomes(c, D) = {PushxCommand(D, c[2], c[3], c[4])}
          /\ c[1] = "LINSERT" => Outcomes(c, D) = {LinsertCommand(D, c[2], c[3], c[4], c[5])}
          /\ c[1] = "LSET" => Outcomes(c, D) = {LsetCommand(D, c[2], c[3], c[4])}
          /\ c[1] = "POP" => Outcomes(c, D) = {PopCommand(D, c[2], c[3])}
          /\ c[1] = "LTRIM" => Outcomes(c, D) = {LtrimCommand(D, c[2], c[3], c[4])}
          /\ c[1] = "LREM" => Outcomes(c, D) = {LremCommand(D, c[2], c[3])}
          /\ c[1] = "RPOPLPUSH" => Outcomes(c, D) = {RpoplpushCommand(D, c[2], c[3])}
  <1>1. c[1] = "PUSH" => Outcomes(c, D) = {PushCommand(D, c[2], c[3], c[4])}
    BY DEF Outcomes, ListOutcomes, KeyNames, HashNames, SetNames, ListNames
  <1>2. c[1] = "PUSHX" => Outcomes(c, D) = {PushxCommand(D, c[2], c[3], c[4])}
    BY DEF Outcomes, ListOutcomes, KeyNames, HashNames, SetNames, ListNames
  <1>3. c[1] = "LINSERT" => Outcomes(c, D) = {LinsertCommand(D, c[2], c[3], c[4], c[5])}
    BY DEF Outcomes, ListOutcomes, KeyNames, HashNames, SetNames, ListNames
  <1>4. c[1] = "LSET" => Outcomes(c, D) = {LsetCommand(D, c[2], c[3], c[4])}
    BY DEF Outcomes, ListOutcomes, KeyNames, HashNames, SetNames, ListNames
  <1>5. c[1] = "POP" => Outcomes(c, D) = {PopCommand(D, c[2], c[3])}
    BY DEF Outcomes, ListOutcomes, KeyNames, HashNames, SetNames, ListNames
  <1>6. c[1] = "LTRIM" => Outcomes(c, D) = {LtrimCommand(D, c[2], c[3], c[4])}
    BY DEF Outcomes, ListOutcomes, KeyNames, HashNames, SetNames, ListNames
  <1>7. c[1] = "LREM" => Outcomes(c, D) = {LremCommand(D, c[2], c[3])}
    BY DEF Outcomes, ListOutcomes, KeyNames, HashNames, SetNames, ListNames
  <1>8. c[1] = "RPOPLPUSH" => Outcomes(c, D) = {RpoplpushCommand(D, c[2], c[3])}
    BY DEF Outcomes, ListOutcomes, KeyNames, HashNames, SetNames, ListNames
  <1> QED
    BY <1>1, <1>2, <1>3, <1>4, <1>5, <1>6, <1>7, <1>8

-----------------------------------------------------------------------------
(* What call() does with a command *)

(* The replica R executes the command c with result r, or what it was      *)
(* rewritten as, if it is propagated at all; it is like the master then.   *)
Propagated(c, r, R) ==
    IF r.dirty
    THEN \A q \in Outcomes(IF r.as = <<>> THEN c ELSE r.as, R) : Sound(q.data) /\ Like(r.data, q.data)
    ELSE Like(r.data, R)

(* Command c on a master with dataset D and a replica with dataset R *)
Obeys(c, D, R) == \A r \in Outcomes(c, D) :
    /\ Sound(r.data)
    /\ c[1] # "MOVE" => Keeps(D, r.data, r.signalled)
    /\ Propagated(c, r, R)

LEMMA OneResult ==
    ASSUME NEW c, NEW D, NEW R, NEW x, NEW y, Outcomes(c, D) = {x}, Outcomes(c, R) = {y},
           x.as = <<>>, Leaves(D, x), Leaves(R, y), Replays(x, y, R)
    PROVE Obeys(c, D, R)
  BY DEF Obeys, Propagated, Leaves, Replays

LEMMA RewrittenResult ==
    ASSUME NEW c, NEW D, NEW R, NEW x, NEW y, Outcomes(c, D) = {x}, Leaves(D, x),
           x.dirty => x.as # <<>> /\ Outcomes(x.as, R) = {y} /\ Leaves(R, y) /\ Like(x.data, y.data),
           ~x.dirty => Like(x.data, R)
    PROVE Obeys(c, D, R)
  BY DEF Obeys, Propagated, Leaves

(* The commands that are propagated as they are *)
(* A command that was not rewritten *)
Plain(r) == \E E : r = Unchanged(E) \/ \E ks : r = Changed(E, ks)

LEMMA PlainAsGiven == ASSUME NEW r, Plain(r) PROVE r.as = <<>>
  BY ChangedFields, UnchangedFields DEF Plain

LEMMA StringsAsGiven ==
    ASSUME NEW D, NEW k, NEW s, NEW x, NEW y, NEW z
    PROVE /\ SetCommand(D, k, s, x, y).as = <<>>
          /\ GetsetCommand(D, k, s).as = <<>>
          /\ MsetCommand(D, k, s, x, y, z).as = <<>>
          /\ IncrbyCommand(D, k, s).as = <<>>
          /\ AppendCommand(D, k, s).as = <<>>
          /\ SetrangeCommand(D, k, s).as = <<>>
          /\ SetbitCommand(D, k).as = <<>>
          /\ BitopCommand(D, k, s).as = <<>>
  <1>1. Plain(SetCommand(D, k, s, x, y))
    BY Zenon DEF SetCommand, Plain
  <1>2. Plain(GetsetCommand(D, k, s))
    BY Zenon DEF GetsetCommand, Plain
  <1>3. Plain(MsetCommand(D, k, s, x, y, z))
    BY Zenon DEF MsetCommand, Plain
  <1>4. Plain(IncrbyCommand(D, k, s))
    BY Zenon DEF IncrbyCommand, Plain
  <1>5. Plain(AppendCommand(D, k, s))
    BY Zenon DEF AppendCommand, Plain
  <1>6. Plain(SetrangeCommand(D, k, s))
    BY Zenon DEF SetrangeCommand, Plain
  <1>7. Plain(SetbitCommand(D, k))
    BY Zenon DEF SetbitCommand, Plain
  <1>8. Plain(BitopCommand(D, k, s))
    BY Zenon DEF BitopCommand, Plain
  <1> QED
    BY <1>1, <1>2, <1>3, <1>4, <1>5, <1>6, <1>7, <1>8, PlainAsGiven

LEMMA KeysAsGiven ==
    ASSUME NEW D, NEW k, NEW s, NEW x, NEW y, NEW z
    PROVE /\ DelCommand(D, k).as = <<>>
          /\ FlushdbCommand(D, k).as = <<>>
          /\ FlushallCommand(D).as = <<>>
          /\ RenameCommand(D, k, s, x).as = <<>>
          /\ MoveCommand(D, k, s).as = <<>>
          /\ PersistCommand(D, k).as = <<>>
  <1>1. Plain(DelCommand(D, k))
    BY Zenon DEF DelCommand, Plain
  <1>2. Plain(FlushdbCommand(D, k))
    BY Zenon DEF FlushdbCommand, Plain
  <1>3. Plain(FlushallCommand(D))
    BY Zenon DEF FlushallCommand, Plain
  <1>4. Plain(RenameCommand(D, k, s, x))
    BY Zenon DEF RenameCommand, Plain
  <1>5. Plain(MoveCommand(D, k, s))
    BY Zenon DEF MoveCommand, Plain
  <1>6. Plain(PersistCommand(D, k))
    BY Zenon DEF PersistCommand, Plain
  <1> QED
    BY <1>1, <1>2, <1>3, <1>4, <1>5, <1>6, PlainAsGiven

LEMMA HashsAsGiven ==
    ASSUME NEW D, NEW k, NEW s, NEW x, NEW y, NEW z
    PROVE /\ HsetCommand(D, k, s, x).as = <<>>
          /\ HsetnxCommand(D, k, s, x).as = <<>>
          /\ HmsetCommand(D, k, s, x, y).as = <<>>
          /\ HincrbyCommand(D, k, s, x).as = <<>>
          /\ HdelCommand(D, k, s).as = <<>>
  <1>1. Plain(HsetCommand(D, k, s, x))
    BY Zenon DEF HsetCommand, Plain
  <1>2. Plain(HsetnxCommand(D, k, s, x))
    BY Zenon DEF HsetnxCommand, Plain
  <1>3. Plain(HmsetCommand(D, k, s, x, y))
    BY Zenon DEF HmsetCommand, Plain
  <1>4. Plain(HincrbyCommand(D, k, s, x))
    BY Zenon DEF HincrbyCommand, Plain
  <1>5. Plain(HdelCommand(D, k, s))
    BY Zenon DEF HdelCommand, Plain
  <1> QED
    BY <1>1, <1>2, <1>3, <1>4, <1>5, PlainAsGiven

LEMMA SetsAsGiven ==
    ASSUME NEW D, NEW k, NEW s, NEW x, NEW y, NEW z
    PROVE /\ SaddCommand(D, k, s).as = <<>>
          /\ SremCommand(D, k, s).as = <<>>
          /\ SmoveCommand(D, k, s, x).as = <<>>
          /\ SinterstoreCommand(D, k, s, x).as = <<>>
          /\ SunionstoreCommand(D, k, s, x).as = <<>>
          /\ SdiffstoreCommand(D, k, s, x).as = <<>>
  <1>0. \A o : Plain(StoreSet(D, k, o))
    BY Zenon DEF StoreSet, Plain
  <1>1. Plain(SaddCommand(D, k, s))
    BY Zenon DEF SaddCommand, Plain
  <1>2. Plain(SremCommand(D, k, s))
    BY Zenon DEF SremCommand, Plain
  <1>3. Plain(SmoveCommand(D, k, s, x))
    BY Zenon DEF SmoveCommand, Plain
  <1>4. Plain(SinterstoreCommand(D, k, s, x))
    BY <1>0, Zenon DEF SinterstoreCommand, Plain
  <1>5. Plain(SunionstoreCommand(D, k, s, x))
    BY <1>0, Zenon DEF SunionstoreCommand, Plain
  <1>6. Plain(SdiffstoreCommand(D, k, s, x))
    <2>1. (\E o : SdiffstoreCommand(D, k, s, x) = StoreSet(D, k, o)) \/ SdiffstoreCommand(D, k, s, x) = Unchanged(D)
      BY Zenon DEF SdiffstoreCommand
    <2> QED
      BY <1>0, <2>1, Zenon DEF Plain
  <1> QED
    BY <1>1, <1>2, <1>3, <1>4, <1>5, <1>6, PlainAsGiven

LEMMA ListsAsGiven ==
    ASSUME NEW D, NEW k, NEW s, NEW x, NEW y, NEW z
    PROVE /\ PushCommand(D, k, s, x).as = <<>>
          /\ PushxCommand(D, k, s, x).as = <<>>
          /\ LinsertCommand(D, k, s, x, y).as = <<>>
          /\ LsetCommand(D, k, s, x).as = <<>>
          /\ PopCommand(D, k, s).as = <<>>
          /\ LtrimCommand(D, k, s, x).as = <<>>
          /\ LremCommand(D, k, s).as = <<>>
          /\ RpoplpushCommand(D, k, s).as = <<>>
  <1>1. Plain(PushCommand(D, k, s, x))
    BY Zenon DEF PushCommand, Plain
  <1>2. Plain(PushxCommand(D, k, s, x))
    BY Zenon DEF PushxCommand, Plain
  <1>3. Plain(LinsertCommand(D, k, s, x, y))
    BY Zenon DEF LinsertCommand, Plain
  <1>4. Plain(LsetCommand(D, k, s, x))
    BY Zenon DEF LsetCommand, Plain
  <1>5. Plain(PopCommand(D, k, s))
    BY Zenon DEF PopCommand, Plain
  <1>6. Plain(LtrimCommand(D, k, s, x))
    BY Zenon DEF LtrimCommand, Plain
  <1>7. Plain(LremCommand(D, k, s))
    BY Zenon DEF LremCommand, Plain
  <1>8. Plain(RpoplpushCommand(D, k, s))
    BY Zenon DEF RpoplpushCommand, Plain
  <1> QED
    BY <1>1, <1>2, <1>3, <1>4, <1>5, <1>6, <1>7, <1>8, PlainAsGiven

LEMMA SortAsGiven ==
    ASSUME NEW D, NEW k, NEW dst, NEW nosort, NEW r \in SortCommand(D, k, dst, nosort)
    PROVE r.as = <<>> /\ (~r.dirty => r.data = D)
  <1>1. \A q : StoreList(D, dst, q) = Unchanged(D) \/ \E E, ks : StoreList(D, dst, q) = Changed(E, ks)
    BY Zenon DEF StoreList
  <1>2. r = Unchanged(D) \/ \E q : r = StoreList(D, dst, q)
    BY DEF SortCommand
  <1>3. r = Unchanged(D) \/ \E E, ks : r = Changed(E, ks)
    BY <1>1, <1>2, Zenon
  <1> QED
    BY <1>3, ChangedFields, UnchangedFields

(* What a command does on the master, and on the replica, by families *)
LEMMA StringObeys ==
    ASSUME NEW D, NEW R, Sound(D), Sound(R), Like(D, R),
           NEW c, c[1] \in {"SET", "GETSET", "MSET", "INCRBY", "APPEND", "SETRANGE", "SETBIT", "BITOP", "INCRBYFLOAT"},
           c[2] \in Keys,
           c[1] = "MSET" => c[4] \in Keys, c[1] = "BITOP" => c[3] \in SUBSET Keys
    PROVE Obeys(c, D, R)
  <1>1. CASE c[1] = "SET"
    <2> DEFINE x == SetCommand(D, c[2], c[3], c[4], c[5])
               y == SetCommand(R, c[2], c[3], c[4], c[5])
    <2>1. Outcomes(c, D) = {x} /\ Outcomes(c, R) = {y}
      BY <1>1, StringTable
    <2>2. x.as = <<>>
      BY StringsAsGiven
    <2>3. Leaves(D, x) /\ Leaves(R, y)
      BY <1>1, SetLeaves
    <2>4. Replays(x, y, R)
      BY <1>1, SetReplays
    <2> HIDE DEF x, y
    <2> QED
      BY <2>1, <2>2, <2>3, <2>4, OneResult
  <1>2. CASE c[1] = "GETSET"
    <2> DEFINE x == GetsetCommand(D, c[2], c[3])
               y == GetsetCommand(R, c[2], c[3])
    <2>1. Outcomes(c, D) = {x} /\ Outcomes(c, R) = {y}
      BY <1>2, StringTable
    <2>2. x.as = <<>>
      BY StringsAsGiven
    <2>3. Leaves(D, x) /\ Leaves(R, y)
      BY <1>2, StringLeaves
    <2>4. Replays(x, y, R)
      BY <1>2, StringReplays
    <2> HIDE DEF x, y
    <2> QED
      BY <2>1, <2>2, <2>3, <2>4, OneResult
  <1>3. CASE c[1] = "MSET"
    <2> DEFINE x == MsetCommand(D, c[2], c[3], c[4], c[5], c[6])
               y == MsetCommand(R, c[2], c[3], c[4], c[5], c[6])
    <2>1. Outcomes(c, D) = {x} /\ Outcomes(c, R) = {y}
      BY <1>3, StringTable
    <2>2. x.as = <<>>
      BY StringsAsGiven
    <2>3. Leaves(D, x) /\ Leaves(R, y)
      BY <1>3, MsetLeaves
    <2>4. Replays(x, y, R)
      BY <1>3, MsetReplays
    <2> HIDE DEF x, y
    <2> QED
      BY <2>1, <2>2, <2>3, <2>4, OneResult
  <1>4. CASE c[1] = "INCRBY"
    <2> DEFINE x == IncrbyCommand(D, c[2], c[3])
               y == IncrbyCommand(R, c[2], c[3])
    <2>1. Outcomes(c, D) = {x} /\ Outcomes(c, R) = {y}
      BY <1>4, StringTable
    <2>2. x.as = <<>>
      BY StringsAsGiven
    <2>3. Leaves(D, x) /\ Leaves(R, y)
      BY <1>4, StringLeaves
    <2>4. Replays(x, y, R)
      BY <1>4, StringReplays
    <2> HIDE DEF x, y
    <2> QED
      BY <2>1, <2>2, <2>3, <2>4, OneResult
  <1>5. CASE c[1] = "APPEND"
    <2> DEFINE x == AppendCommand(D, c[2], c[3])
               y == AppendCommand(R, c[2], c[3])
    <2>1. Outcomes(c, D) = {x} /\ Outcomes(c, R) = {y}
      BY <1>5, StringTable
    <2>2. x.as = <<>>
      BY StringsAsGiven
    <2>3. Leaves(D, x) /\ Leaves(R, y)
      BY <1>5, StringLeaves
    <2>4. Replays(x, y, R)
      BY <1>5, StringReplays
    <2> HIDE DEF x, y
    <2> QED
      BY <2>1, <2>2, <2>3, <2>4, OneResult
  <1>6. CASE c[1] = "SETRANGE"
    <2> DEFINE x == SetrangeCommand(D, c[2], c[3])
               y == SetrangeCommand(R, c[2], c[3])
    <2>1. Outcomes(c, D) = {x} /\ Outcomes(c, R) = {y}
      BY <1>6, StringTable
    <2>2. x.as = <<>>
      BY StringsAsGiven
    <2>3. Leaves(D, x) /\ Leaves(R, y)
      BY <1>6, StringLeaves
    <2>4. Replays(x, y, R)
      BY <1>6, StringReplays
    <2> HIDE DEF x, y
    <2> QED
      BY <2>1, <2>2, <2>3, <2>4, OneResult
  <1>7. CASE c[1] = "SETBIT"
    <2> DEFINE x == SetbitCommand(D, c[2])
               y == SetbitCommand(R, c[2])
    <2>1. Outcomes(c, D) = {x} /\ Outcomes(c, R) = {y}
      BY <1>7, StringTable
    <2>2. x.as = <<>>
      BY StringsAsGiven
    <2>3. Leaves(D, x) /\ Leaves(R, y)
      BY <1>7, StringLeaves
    <2>4. Replays(x, y, R)
      BY <1>7, StringReplays
    <2> HIDE DEF x, y
    <2> QED
      BY <2>1, <2>2, <2>3, <2>4, OneResult
  <1>8. CASE c[1] = "BITOP"
    <2> DEFINE x == BitopCommand(D, c[2], c[3])
               y == BitopCommand(R, c[2], c[3])
    <2>1. Outcomes(c, D) = {x} /\ Outcomes(c, R) = {y}
      BY <1>8, StringTable
    <2>2. x.as = <<>>
      BY StringsAsGiven
    <2>3. Leaves(D, x) /\ Leaves(R, y)
      BY <1>8, BitopLeaves
    <2>4. Replays(x, y, R)
      BY <1>8, BitopReplays
    <2> HIDE DEF x, y
    <2> QED
      BY <2>1, <2>2, <2>3, <2>4, OneResult
  <1>9. CASE c[1] = "INCRBYFLOAT"
    <2> DEFINE x == IncrbyfloatCommand(D, c[2], c[3])
               a == x.as
               y == SetCommand(R, c[2], a[3], a[4], a[5])
    <2>1. Outcomes(c, D) = {x}
      BY <1>9, StringTable
    <2>2. Leaves(D, x) /\ Leaves(R, y)
      BY StringLeaves, SetLeaves
    <2>3. ~x.dirty => Like(x.data, R)
      BY IncrbyfloatReplays
    <2>4. x.dirty => a # <<>> /\ a[1] = "SET" /\ a[2] = c[2] /\ Like(x.data, y.data)
      BY IncrbyfloatReplays
    <2>5. x.dirty => Outcomes(a, R) = {y}
      <3>1. a[1] = "SET" => Outcomes(a, R) = {SetCommand(R, a[2], a[3], a[4], a[5])}
        BY StringTable
      <3> QED
        BY <2>4, <3>1
    <2> HIDE DEF x, y
    <2> QED
      BY <2>1, <2>2, <2>3, <2>4, <2>5, RewrittenResult
  <1> QED
    BY <1>1, <1>2, <1>3, <1>4, <1>5, <1>6, <1>7, <1>8, <1>9

LEMMA KeyObeys ==
    ASSUME NEW D, NEW R, Sound(D), Sound(R), Like(D, R),
           NEW c, c[1] \in {"DEL", "FLUSHDB", "FLUSHALL", "RENAME", "PERSIST", "MOVE", "EXPIRE", "SORT"},
           c[1] \notin {"FLUSHDB", "FLUSHALL"} => c[2] \in Keys,
           c[1] \in {"RENAME", "MOVE", "SORT"} => c[3] \in Keys, c[1] = "RENAME" => c[2] # c[3]
    PROVE Obeys(c, D, R)
  <1>1. CASE c[1] = "DEL"
    <2> DEFINE x == DelCommand(D, c[2])
               y == DelCommand(R, c[2])
    <2>1. Outcomes(c, D) = {x} /\ Outcomes(c, R) = {y}
      BY <1>1, KeyTable
    <2>2. x.as = <<>>
      BY KeysAsGiven
    <2>3. Leaves(D, x) /\ Leaves(R, y)
      BY <1>1, DelLeaves
    <2>4. Replays(x, y, R)
      BY <1>1, DelReplays
    <2> HIDE DEF x, y
    <2> QED
      BY <2>1, <2>2, <2>3, <2>4, OneResult
  <1>2. CASE c[1] = "FLUSHDB"
    <2> DEFINE x == FlushdbCommand(D, c[2])
               y == FlushdbCommand(R, c[2])
    <2>1. Outcomes(c, D) = {x} /\ Outcomes(c, R) = {y}
      BY <1>2, KeyTable
    <2>2. x.as = <<>>
      BY KeysAsGiven
    <2>3. Leaves(D, x) /\ Leaves(R, y)
      BY <1>2, FlushLeaves
    <2>4. Replays(x, y, R)
      BY <1>2, FlushReplays
    <2> HIDE DEF x, y
    <2> QED
      BY <2>1, <2>2, <2>3, <2>4, OneResult
  <1>3. CASE c[1] = "FLUSHALL"
    <2> DEFINE x == FlushallCommand(D)
               y == FlushallCommand(R)
    <2>1. Outcomes(c, D) = {x} /\ Outcomes(c, R) = {y}
      BY <1>3, KeyTable
    <2>2. x.as = <<>>
      BY KeysAsGiven
    <2>3. Leaves(D, x) /\ Leaves(R, y)
      BY <1>3, FlushLeaves
    <2>4. Replays(x, y, R)
      BY <1>3, FlushReplays
    <2> HIDE DEF x, y
    <2> QED
      BY <2>1, <2>2, <2>3, <2>4, OneResult
  <1>4. CASE c[1] = "RENAME"
    <2> DEFINE x == RenameCommand(D, c[2], c[3], c[4])
               y == RenameCommand(R, c[2], c[3], c[4])
    <2>1. Outcomes(c, D) = {x} /\ Outcomes(c, R) = {y}
      BY <1>4, KeyTable
    <2>2. x.as = <<>>
      BY KeysAsGiven
    <2>3. Leaves(D, x) /\ Leaves(R, y)
      BY <1>4, RenameLeaves
    <2>4. Replays(x, y, R)
      BY <1>4, RenameReplays
    <2> HIDE DEF x, y
    <2> QED
      BY <2>1, <2>2, <2>3, <2>4, OneResult
  <1>5. CASE c[1] = "PERSIST"
    <2> DEFINE x == PersistCommand(D, c[2])
               y == PersistCommand(R, c[2])
    <2>1. Outcomes(c, D) = {x} /\ Outcomes(c, R) = {y}
      BY <1>5, KeyTable
    <2>2. x.as = <<>>
      BY KeysAsGiven
    <2>3. Leaves(D, x) /\ Leaves(R, y)
      BY <1>5, ExpireLeaves
    <2>4. Replays(x, y, R)
      BY <1>5, PersistReplays
    <2> HIDE DEF x, y
    <2> QED
      BY <2>1, <2>2, <2>3, <2>4, OneResult
  <1>6. CASE c[1] = "MOVE"
    <2> DEFINE x == MoveCommand(D, c[2], c[3])
               y == MoveCommand(R, c[2], c[3])
    <2>1. Outcomes(c, D) = {x} /\ Outcomes(c, R) = {y}
      BY <1>6, KeyTable
    <2>2. x.as = <<>>
      BY KeysAsGiven
    <2>3. Sound(x.data) /\ Sound(y.data)
      BY <1>6, MoveSound
    <2>4. Replays(x, y, R)
      BY <1>6, MoveReplays
    <2> HIDE DEF x, y
    <2> QED
      BY <1>6, <2>1, <2>2, <2>3, <2>4 DEF Obeys, Propagated, Replays
  <1>7. CASE c[1] = "EXPIRE"
    <2> DEFINE x == ExpireCommand(D, c[2], c[3])
               y == ExpireCommand(R, c[2], c[3])
               z == DelCommand(R, c[2])
    <2>1. Outcomes(c, D) = {x} /\ Outcomes(c, R) = {y}
      BY <1>7, KeyTable
    <2>2. Leaves(D, x) /\ Leaves(R, y) /\ Leaves(R, z)
      BY <1>7, ExpireLeaves, DelLeaves
    <2>3. \/ x.as = <<>> /\ Replays(x, y, R)
          \/ x.as = <<"DEL", c[2]>> /\ Replays(x, z, R)
      BY <1>7, ExpireReplays
    <2>4. Outcomes(<<"DEL", c[2]>>, R) = {z} /\ <<"DEL", c[2]>> # <<>>
      <3> DEFINE d == <<"DEL", c[2]>>
      <3>1. d[1] = "DEL" /\ d[2] = c[2] /\ d # <<>>
        OBVIOUS
      <3>2. d[1] = "DEL" => Outcomes(d, R) = {DelCommand(R, d[2])}
        BY KeyTable
      <3> QED
        BY <3>1, <3>2
    <2> HIDE DEF x, y, z
    <2>5. CASE x.as = <<>> /\ Replays(x, y, R)
      BY <2>1, <2>2, <2>5, OneResult
    <2>6. CASE x.as = <<"DEL", c[2]>> /\ Replays(x, z, R)
      <3>1. x.dirty => x.as # <<>> /\ Outcomes(x.as, R) = {z} /\ Leaves(R, z) /\ Like(x.data, z.data)
        BY <2>2, <2>4, <2>6 DEF Replays
      <3>2. ~x.dirty => Like(x.data, R)
        BY <2>6 DEF Replays
      <3> QED
        BY <2>1, <2>2, <3>1, <3>2, RewrittenResult
    <2> QED
      BY <2>3, <2>5, <2>6
  <1>8. CASE c[1] = "SORT"
    <2>1. Outcomes(c, D) = SortCommand(D, c[2], c[3], c[4]) /\ Outcomes(c, R) = SortCommand(R, c[2], c[3], c[4])
      BY <1>8, KeyTable
    <2>2. \A r \in SortCommand(D, c[2], c[3], c[4]) : r.as = <<>> /\ (~r.dirty => r.data = D) /\ Leaves(D, r)
      BY <1>8, SortAsGiven, SortLeaves
    <2>3. \A q \in SortCommand(R, c[2], c[3], c[4]) : Leaves(R, q)
      BY <1>8, SortLeaves
    <2>4. \A r \in SortCommand(D, c[2], c[3], c[4]), q \in SortCommand(R, c[2], c[3], c[4]) : Replays(r, q, R)
      BY <1>8, SortReplays
    <2> QED
      BY <2>1, <2>2, <2>3, <2>4 DEF Obeys, Propagated, Leaves, Replays
  <1> QED
    BY <1>1, <1>2, <1>3, <1>4, <1>5, <1>6, <1>7, <1>8

LEMMA HashObeys ==
    ASSUME NEW D, NEW R, Sound(D), Sound(R), Like(D, R),
           NEW c, c[1] \in {"HSET", "HSETNX", "HMSET", "HINCRBY", "HDEL", "HINCRBYFLOAT"},
           c[2] \in Keys
    PROVE Obeys(c, D, R)
  <1>1. CASE c[1] = "HSET"
    <2> DEFINE x == HsetCommand(D, c[2], c[3], c[4])
               y == HsetCommand(R, c[2], c[3], c[4])
    <2>1. Outcomes(c, D) = {x} /\ Outcomes(c, R) = {y}
      BY <1>1, HashTable
    <2>2. x.as = <<>>
      BY HashsAsGiven
    <2>3. Leaves(D, x) /\ Leaves(R, y)
      BY <1>1, HashLeaves
    <2>4. Replays(x, y, R)
      BY <1>1, HashReplays
    <2> HIDE DEF x, y
    <2> QED
      BY <2>1, <2>2, <2>3, <2>4, OneResult
  <1>2. CASE c[1] = "HSETNX"
    <2> DEFINE x == HsetnxCommand(D, c[2], c[3], c[4])
               y == HsetnxCommand(R, c[2], c[3], c[4])
    <2>1. Outcomes(c, D) = {x} /\ Outcomes(c, R) = {y}
      BY <1>2, HashTable
    <2>2. x.as = <<>>
      BY HashsAsGiven
    <2>3. Leaves(D, x) /\ Leaves(R, y)
      BY <1>2, HsetnxLeaves
    <2>4. Replays(x, y, R)
      BY <1>2, HashReplays
    <2> HIDE DEF x, y
    <2> QED
      BY <2>1, <2>2, <2>3, <2>4, OneResult
  <1>3. CASE c[1] = "HMSET"
    <2> DEFINE x == HmsetCommand(D, c[2], c[3], c[4], c[5])
               y == HmsetCommand(R, c[2], c[3], c[4], c[5])
    <2>1. Outcomes(c, D) = {x} /\ Outcomes(c, R) = {y}
      BY <1>3, HashTable
    <2>2. x.as = <<>>
      BY HashsAsGiven
    <2>3. Leaves(D, x) /\ Leaves(R, y)
      BY <1>3, HashLeaves
    <2>4. Replays(x, y, R)
      BY <1>3, HashReplays
    <2> HIDE DEF x, y
    <2> QED
      BY <2>1, <2>2, <2>3, <2>4, OneResult
  <1>4. CASE c[1] = "HINCRBY"
    <2> DEFINE x == HincrbyCommand(D, c[2], c[3], c[4])
               y == HincrbyCommand(R, c[2], c[3], c[4])
    <2>1. Outcomes(c, D) = {x} /\ Outcomes(c, R) = {y}
      BY <1>4, HashTable
    <2>2. x.as = <<>>
      BY HashsAsGiven
    <2>3. Leaves(D, x) /\ Leaves(R, y)
      BY <1>4, HashLeaves
    <2>4. Replays(x, y, R)
      BY <1>4, HashReplays
    <2> HIDE DEF x, y
    <2> QED
      BY <2>1, <2>2, <2>3, <2>4, OneResult
  <1>5. CASE c[1] = "HDEL"
    <2> DEFINE x == HdelCommand(D, c[2], c[3])
               y == HdelCommand(R, c[2], c[3])
    <2>1. Outcomes(c, D) = {x} /\ Outcomes(c, R) = {y}
      BY <1>5, HashTable
    <2>2. x.as = <<>>
      BY HashsAsGiven
    <2>3. Leaves(D, x) /\ Leaves(R, y)
      BY <1>5, HdelLeaves
    <2>4. Replays(x, y, R)
      BY <1>5, HashReplays
    <2> HIDE DEF x, y
    <2> QED
      BY <2>1, <2>2, <2>3, <2>4, OneResult
  <1>6. CASE c[1] = "HINCRBYFLOAT"
    <2> DEFINE x == HincrbyfloatCommand(D, c[2], c[3], c[4])
               a == x.as
               y == HsetCommand(R, c[2], a[3], a[4])
    <2>1. Outcomes(c, D) = {x}
      BY <1>6, HashTable
    <2>2. Leaves(D, x) /\ Leaves(R, y)
      BY HashLeaves
    <2>3. ~x.dirty => Like(x.data, R)
      BY HincrbyfloatReplays
    <2>4. x.dirty => a # <<>> /\ a[1] = "HSET" /\ a[2] = c[2] /\ Like(x.data, y.data)
      BY HincrbyfloatReplays
    <2>5. x.dirty => Outcomes(a, R) = {y}
      <3>1. a[1] = "HSET" => Outcomes(a, R) = {HsetCommand(R, a[2], a[3], a[4])}
        BY HashTable
      <3> QED
        BY <2>4, <3>1
    <2> HIDE DEF x, y
    <2> QED
      BY <2>1, <2>2, <2>3, <2>4, <2>5, RewrittenResult
  <1> QED
    BY <1>1, <1>2, <1>3, <1>4, <1>5, <1>6

LEMMA SetObeys ==
    ASSUME NEW D, NEW R, Sound(D), Sound(R), Like(D, R),
           NEW c, c[1] \in {"SADD", "SREM", "SMOVE", "SINTERSTORE", "SUNIONSTORE", "SDIFFSTORE", "SPOP"},
           c[2] \in Keys, c[1] = "SADD" => c[3] \in Int,
           c[1] \in {"SMOVE", "SINTERSTORE", "SUNIONSTORE", "SDIFFSTORE"} => c[3] \in Keys,
           c[1] = "SMOVE" => c[4] \in Int,
           c[1] \in {"SINTERSTORE", "SUNIONSTORE", "SDIFFSTORE"} => c[4] \in Keys
    PROVE Obeys(c, D, R)
  <1>1. CASE c[1] = "SADD"
    <2> DEFINE x == SaddCommand(D, c[2], c[3])
               y == SaddCommand(R, c[2], c[3])
    <2>1. Outcomes(c, D) = {x} /\ Outcomes(c, R) = {y}
      BY <1>1, SetTable
    <2>2. x.as = <<>>
      BY SetsAsGiven
    <2>3. Leaves(D, x) /\ Leaves(R, y)
      BY <1>1, SaddLeaves
    <2>4. Replays(x, y, R)
      BY <1>1, SaddReplays
    <2> HIDE DEF x, y
    <2> QED
      BY <2>1, <2>2, <2>3, <2>4, OneResult
  <1>2. CASE c[1] = "SREM"
    <2> DEFINE x == SremCommand(D, c[2], c[3])
               y == SremCommand(R, c[2], c[3])
    <2>1. Outcomes(c, D) = {x} /\ Outcomes(c, R) = {y}
      BY <1>2, SetTable
    <2>2. x.as = <<>>
      BY SetsAsGiven
    <2>3. Leaves(D, x) /\ Leaves(R, y)
      BY <1>2, SremLeaves
    <2>4. Replays(x, y, R)
      BY <1>2, SremReplays
    <2> HIDE DEF x, y
    <2> QED
      BY <2>1, <2>2, <2>3, <2>4, OneResult
  <1>3. CASE c[1] = "SMOVE"
    <2> DEFINE x == SmoveCommand(D, c[2], c[3], c[4])
               y == SmoveCommand(R, c[2], c[3], c[4])
    <2>1. Outcomes(c, D) = {x} /\ Outcomes(c, R) = {y}
      BY <1>3, SetTable
    <2>2. x.as = <<>>
      BY SetsAsGiven
    <2>3. Leaves(D, x) /\ Leaves(R, y)
      BY <1>3, SmoveLeaves
    <2>4. Replays(x, y, R)
      BY <1>3, SmoveReplays
    <2> HIDE DEF x, y
    <2> QED
      BY <2>1, <2>2, <2>3, <2>4, OneResult
  <1>4. CASE c[1] = "SINTERSTORE"
    <2> DEFINE x == SinterstoreCommand(D, c[2], c[3], c[4])
               y == SinterstoreCommand(R, c[2], c[3], c[4])
    <2>1. Outcomes(c, D) = {x} /\ Outcomes(c, R) = {y}
      BY <1>4, SetTable
    <2>2. x.as = <<>>
      BY SetsAsGiven
    <2>3. Leaves(D, x) /\ Leaves(R, y)
      BY <1>4, StoreLeaves
    <2>4. Replays(x, y, R)
      BY <1>4, StoreReplays
    <2> HIDE DEF x, y
    <2> QED
      BY <2>1, <2>2, <2>3, <2>4, OneResult
  <1>5. CASE c[1] = "SUNIONSTORE"
    <2> DEFINE x == SunionstoreCommand(D, c[2], c[3], c[4])
               y == SunionstoreCommand(R, c[2], c[3], c[4])
    <2>1. Outcomes(c, D) = {x} /\ Outcomes(c, R) = {y}
      BY <1>5, SetTable
    <2>2. x.as = <<>>
      BY SetsAsGiven
    <2>3. Leaves(D, x) /\ Leaves(R, y)
      BY <1>5, StoreLeaves
    <2>4. Replays(x, y, R)
      BY <1>5, StoreReplays
    <2> HIDE DEF x, y
    <2> QED
      BY <2>1, <2>2, <2>3, <2>4, OneResult
  <1>6. CASE c[1] = "SDIFFSTORE"
    <2> DEFINE x == SdiffstoreCommand(D, c[2], c[3], c[4])
               y == SdiffstoreCommand(R, c[2], c[3], c[4])
    <2>1. Outcomes(c, D) = {x} /\ Outcomes(c, R) = {y}
      BY <1>6, SetTable
    <2>2. x.as = <<>>
      BY SetsAsGiven
    <2>3. Leaves(D, x) /\ Leaves(R, y)
      BY <1>6, StoreLeaves
    <2>4. Replays(x, y, R)
      BY <1>6, StoreReplays
    <2> HIDE DEF x, y
    <2> QED
      BY <2>1, <2>2, <2>3, <2>4, OneResult
  <1>7. CASE c[1] = "SPOP"
    <2>1. Outcomes(c, D) = SpopCommand(D, c[2])
      BY <1>7, SetTable
    <2>2. ASSUME NEW r \in SpopCommand(D, c[2])
          PROVE Leaves(D, r) /\ Propagated(c, r, R)
      <3> DEFINE a == r.as
                 y == SremCommand(R, c[2], a[3])
      <3>1. Leaves(D, r) /\ Leaves(R, y)
        BY SpopLeaves, SremLeaves
      <3>2. ~r.dirty => Like(r.data, R)
        BY SpopReplays
      <3>3. r.dirty => a # <<>> /\ a[1] = "SREM" /\ a[2] = c[2] /\ Like(r.data, y.data)
        BY SpopReplays
      <3>4. r.dirty => Outcomes(a, R) = {y}
        <4>1. a[1] = "SREM" => Outcomes(a, R) = {SremCommand(R, a[2], a[3])}
          BY SetTable
        <4> QED
          BY <3>3, <4>1
      <3> HIDE DEF y
      <3> QED
        BY <3>1, <3>2, <3>3, <3>4 DEF Propagated, Leaves
    <2> QED
      BY <2>1, <2>2 DEF Obeys, Leaves
  <1> QED
    BY <1>1, <1>2, <1>3, <1>4, <1>5, <1>6, <1>7

LEMMA ListObeys ==
    ASSUME NEW D, NEW R, Sound(D), Sound(R), Like(D, R),
           NEW c, c[1] \in {"PUSH", "PUSHX", "LINSERT", "LSET", "POP", "LTRIM", "LREM", "RPOPLPUSH"},
           c[2] \in Keys, c[1] \in {"PUSH", "PUSHX"} => c[3] \in Int,
           c[1] \in {"LINSERT", "LSET"} => c[4] \in Int, c[1] = "LTRIM" => c[3] \in Int /\ c[4] \in Int,
           c[1] = "RPOPLPUSH" => c[3] \in Keys
    PROVE Obeys(c, D, R)
  <1>1. CASE c[1] = "PUSH"
    <2> DEFINE x == PushCommand(D, c[2], c[3], c[4])
               y == PushCommand(R, c[2], c[3], c[4])
    <2>1. Outcomes(c, D) = {x} /\ Outcomes(c, R) = {y}
      BY <1>1, ListTable
    <2>2. x.as = <<>>
      BY ListsAsGiven
    <2>3. Leaves(D, x) /\ Leaves(R, y)
      BY <1>1, PushLeaves
    <2>4. Replays(x, y, R)
      BY <1>1, PushReplays
    <2> HIDE DEF x, y
    <2> QED
      BY <2>1, <2>2, <2>3, <2>4, OneResult
  <1>2. CASE c[1] = "PUSHX"
    <2> DEFINE x == PushxCommand(D, c[2], c[3], c[4])
               y == PushxCommand(R, c[2], c[3], c[4])
    <2>1. Outcomes(c, D) = {x} /\ Outcomes(c, R) = {y}
      BY <1>2, ListTable
    <2>2. x.as = <<>>
      BY ListsAsGiven
    <2>3. Leaves(D, x) /\ Leaves(R, y)
      BY <1>2, PushLeaves
    <2>4. Replays(x, y, R)
      BY <1>2, PushReplays
    <2> HIDE DEF x, y
    <2> QED
      BY <2>1, <2>2, <2>3, <2>4, OneResult
  <1>3. CASE c[1] = "LINSERT"
    <2> DEFINE x == LinsertCommand(D, c[2], c[3], c[4], c[5])
               y == LinsertCommand(R, c[2], c[3], c[4], c[5])
    <2>1. Outcomes(c, D) = {x} /\ Outcomes(c, R) = {y}
      BY <1>3, ListTable
    <2>2. x.as = <<>>
      BY ListsAsGiven
    <2>3. Leaves(D, x) /\ Leaves(R, y)
      BY <1>3, LinsertLeaves
    <2>4. Replays(x, y, R)
      BY <1>3, LinsertReplays
    <2> HIDE DEF x, y
    <2> QED
      BY <2>1, <2>2, <2>3, <2>4, OneResult
  <1>4. CASE c[1] = "LSET"
    <2> DEFINE x == LsetCommand(D, c[2], c[3], c[4])
               y == LsetCommand(R, c[2], c[3], c[4])
    <2>1. Outcomes(c, D) = {x} /\ Outcomes(c, R) = {y}
      BY <1>4, ListTable
    <2>2. x.as = <<>>
      BY ListsAsGiven
    <2>3. Leaves(D, x) /\ Leaves(R, y)
      BY <1>4, LsetLeaves
    <2>4. Replays(x, y, R)
      BY <1>4, LsetReplays
    <2> HIDE DEF x, y
    <2> QED
      BY <2>1, <2>2, <2>3, <2>4, OneResult
  <1>5. CASE c[1] = "POP"
    <2> DEFINE x == PopCommand(D, c[2], c[3])
               y == PopCommand(R, c[2], c[3])
    <2>1. Outcomes(c, D) = {x} /\ Outcomes(c, R) = {y}
      BY <1>5, ListTable
    <2>2. x.as = <<>>
      BY ListsAsGiven
    <2>3. Leaves(D, x) /\ Leaves(R, y)
      BY <1>5, PopLeaves
    <2>4. Replays(x, y, R)
      BY <1>5, ShrinkReplays
    <2> HIDE DEF x, y
    <2> QED
      BY <2>1, <2>2, <2>3, <2>4, OneResult
  <1>6. CASE c[1] = "LTRIM"
    <2> DEFINE x == LtrimCommand(D, c[2], c[3], c[4])
               y == LtrimCommand(R, c[2], c[3], c[4])
    <2>1. Outcomes(c, D) = {x} /\ Outcomes(c, R) = {y}
      BY <1>6, ListTable
    <2>2. x.as = <<>>
      BY ListsAsGiven
    <2>3. Leaves(D, x) /\ Leaves(R, y)
      BY <1>6, LtrimLeaves
    <2>4. Replays(x, y, R)
      BY <1>6, ShrinkReplays
    <2> HIDE DEF x, y
    <2> QED
      BY <2>1, <2>2, <2>3, <2>4, OneResult
  <1>7. CASE c[1] = "LREM"
    <2> DEFINE x == LremCommand(D, c[2], c[3])
               y == LremCommand(R, c[2], c[3])
    <2>1. Outcomes(c, D) = {x} /\ Outcomes(c, R) = {y}
      BY <1>7, ListTable
    <2>2. x.as = <<>>
      BY ListsAsGiven
    <2>3. Leaves(D, x) /\ Leaves(R, y)
      BY <1>7, LremLeaves
    <2>4. Replays(x, y, R)
      BY <1>7, ShrinkReplays
    <2> HIDE DEF x, y
    <2> QED
      BY <2>1, <2>2, <2>3, <2>4, OneResult
  <1>8. CASE c[1] = "RPOPLPUSH"
    <2> DEFINE x == RpoplpushCommand(D, c[2], c[3])
               y == RpoplpushCommand(R, c[2], c[3])
    <2>1. Outcomes(c, D) = {x} /\ Outcomes(c, R) = {y}
      BY <1>8, ListTable
    <2>2. x.as = <<>>
      BY ListsAsGiven
    <2>3. Leaves(D, x) /\ Leaves(R, y)
      BY <1>8, RpoplpushLeaves
    <2>4. Replays(x, y, R)
      BY <1>8, RpoplpushReplays
    <2> HIDE DEF x, y
    <2> QED
      BY <2>1, <2>2, <2>3, <2>4, OneResult
  <1> QED
    BY <1>1, <1>2, <1>3, <1>4, <1>5, <1>6, <1>7, <1>8

-----------------------------------------------------------------------------
(* The arguments of the commands *)

StringTyped(c) ==
    /\ c[1] \in {"SET", "GETSET", "MSET", "INCRBY", "APPEND", "SETRANGE", "SETBIT", "BITOP", "INCRBYFLOAT"}
    /\ c[2] \in Keys
    /\ c[1] = "MSET" => c[4] \in Keys
    /\ c[1] = "BITOP" => c[3] \in SUBSET Keys

LEMMA StringArguments == ASSUME NEW c \in StringCalls PROVE StringTyped(c)
  <1>1. ASSUME c \in {<<"SET", k, s, cond, ex>> : k \in Local, s \in {1, -1}, cond \in {"ALWAYS", "NX",
                             "XX"}, ex \in BOOLEAN}
        PROVE StringTyped(c)
    BY <1>1 DEF Local, StringTyped
  <1>2. ASSUME c \in {<<"GETSET", k, 0>> : k \in Local}
        PROVE StringTyped(c)
    BY <1>2 DEF Local, StringTyped
  <1>3. ASSUME c \in {<<"MSET", p[1], 1, p[2], -1, nx>> : p \in Pairs, nx \in BOOLEAN}
        PROVE StringTyped(c)
    BY <1>3 DEF Local, Pairs, StringTyped
  <1>4. ASSUME c \in {<<n, k, m>> : n \in {"INCRBY", "INCRBYFLOAT"}, k \in Local, m \in {1, -1}}
        PROVE StringTyped(c)
    BY <1>4 DEF Local, StringTyped
  <1>5. ASSUME c \in {<<"APPEND", k, s>> : k \in Local, s \in {1, -1}}
        PROVE StringTyped(c)
    BY <1>5 DEF Local, StringTyped
  <1>6. ASSUME c \in {<<"SETRANGE", k, m>> : k \in Local, m \in 0..MaxLength}
        PROVE StringTyped(c)
    BY <1>6 DEF Local, StringTyped
  <1>7. ASSUME c \in {<<"SETBIT", k>> : k \in Local}
        PROVE StringTyped(c)
    BY <1>7 DEF Local, StringTyped
  <1>8. ASSUME c \in {<<"BITOP", dst, srcs>> : dst \in Local, srcs \in SUBSET Local \ {{}}}
        PROVE StringTyped(c)
    BY <1>8 DEF Local, StringTyped
  <1> QED
    BY <1>1, <1>2, <1>3, <1>4, <1>5, <1>6, <1>7, <1>8 DEF StringCalls

KeyTyped(c) ==
    /\ c[1] \in {"DEL", "FLUSHDB", "FLUSHALL", "RENAME", "PERSIST", "MOVE", "EXPIRE", "SORT", "SET"}
    /\ c[1] \notin {"FLUSHDB", "FLUSHALL"} => c[2] \in Keys
    /\ c[1] \in {"RENAME", "MOVE", "SORT"} => c[3] \in Keys
    /\ c[1] = "RENAME" => c[2] # c[3]

LEMMA KeyArguments == ASSUME NEW c \in KeyCalls PROVE KeyTyped(c)
  <1>1. ASSUME c \in {<<"SET", k, -1, "ALWAYS", ex>> : k \in Local, ex \in BOOLEAN}
        PROVE KeyTyped(c)
    BY <1>1 DEF Local, KeyTyped
  <1>2. ASSUME c \in {<<"DEL", k>> : k \in Local}
        PROVE KeyTyped(c)
    BY <1>2 DEF Local, KeyTyped
  <1>3. ASSUME c \in {<<"FLUSHDB", 0>>, <<"FLUSHALL">>}
        PROVE KeyTyped(c)
    BY <1>3 DEF Local, KeyTyped
  <1>4. ASSUME c \in {<<"RENAME", p[1], p[2], nx>> : p \in Pairs, nx \in BOOLEAN}
        PROVE KeyTyped(c)
    BY <1>4 DEF Local, Pairs, KeyTyped
  <1>5. ASSUME c \in {<<"MOVE", k, <<1, k[2]>>>> : k \in {l \in Local : <<1, l[2]>> \in Keys}}
        PROVE KeyTyped(c)
    <2>1. PICK k \in Local, j \in Keys : c = <<"MOVE", k, j>>
      BY <1>5
    <2> QED
      BY <2>1 DEF Local, KeyTyped
  <1>6. ASSUME c \in {<<"EXPIRE", k, past>> : k \in Local, past \in BOOLEAN}
        PROVE KeyTyped(c)
    BY <1>6 DEF Local, KeyTyped
  <1>7. ASSUME c \in {<<"PERSIST", k>> : k \in Local}
        PROVE KeyTyped(c)
    BY <1>7 DEF Local, KeyTyped
  <1>8. ASSUME c \in {<<"SORT", p[1], p[2], nosort>> : p \in Local \X Local, nosort \in BOOLEAN}
        PROVE KeyTyped(c)
    BY <1>8 DEF Local, KeyTyped
  <1> QED
    BY <1>1, <1>2, <1>3, <1>4, <1>5, <1>6, <1>7, <1>8 DEF KeyCalls

HashTyped(c) ==
    /\ c[1] \in {"HSET", "HSETNX", "HMSET", "HINCRBY", "HDEL", "HINCRBYFLOAT"}
    /\ c[2] \in Keys

LEMMA HashArguments == ASSUME NEW c \in HashCalls PROVE HashTyped(c)
  <1>1. ASSUME c \in {<<n, k, f, s>> : n \in {"HSET", "HSETNX"}, k \in Local, f \in Fields, s \in {0, -2}}
        PROVE HashTyped(c)
    BY <1>1 DEF Local, HashTyped
  <1>2. ASSUME c \in {<<"HMSET", k, f, g, 0>> : k \in Local, f \in Fields, g \in Fields}
        PROVE HashTyped(c)
    BY <1>2 DEF Local, HashTyped
  <1>3. ASSUME c \in {<<n, k, f, 1>> : n \in {"HINCRBY", "HINCRBYFLOAT"}, k \in Local, f \in Fields}
        PROVE HashTyped(c)
    BY <1>3 DEF Local, HashTyped
  <1>4. ASSUME c \in {<<"HDEL", k, f>> : k \in Local, f \in Fields}
        PROVE HashTyped(c)
    BY <1>4 DEF Local, HashTyped
  <1> QED
    BY <1>1, <1>2, <1>3, <1>4 DEF HashCalls

SetTyped(c) ==
    /\ c[1] \in {"SADD", "SREM", "SMOVE", "SINTERSTORE", "SUNIONSTORE", "SDIFFSTORE", "SPOP"}
    /\ c[2] \in Keys
    /\ c[1] = "SADD" => c[3] \in Int
    /\ c[1] \in {"SMOVE", "SINTERSTORE", "SUNIONSTORE", "SDIFFSTORE"} => c[3] \in Keys
    /\ c[1] = "SMOVE" => c[4] \in Int
    /\ c[1] \in {"SINTERSTORE", "SUNIONSTORE", "SDIFFSTORE"} => c[4] \in Keys

LEMMA SetArguments == ASSUME NEW c \in SetCalls PROVE SetTyped(c)
  <1>1. ASSUME c \in {<<n, k, e>> : n \in {"SADD", "SREM"}, k \in Local, e \in SetElements}
        PROVE SetTyped(c)
    BY <1>1, KeyspaceAssumption DEF Local, SetTyped
  <1>2. ASSUME c \in {<<"SMOVE", p[1], p[2], e>> : p \in Pairs, e \in SetElements}
        PROVE SetTyped(c)
    BY <1>2, KeyspaceAssumption DEF Local, Pairs, SetTyped
  <1>3. ASSUME c \in {<<"SPOP", k>> : k \in Local}
        PROVE SetTyped(c)
    BY <1>3 DEF Local, SetTyped
  <1>4. ASSUME c \in {<<n, d, p[1], p[2]>> : n \in {"SINTERSTORE", "SUNIONSTORE", "SDIFFSTORE"},
                             d \in Local, p \in Local \X Local}
        PROVE SetTyped(c)
    BY <1>4 DEF Local, SetTyped
  <1> QED
    BY <1>1, <1>2, <1>3, <1>4 DEF SetCalls

ListTyped(c) ==
    /\ c[1] \in {"PUSH", "PUSHX", "LINSERT", "LSET", "POP", "LTRIM", "LREM", "RPOPLPUSH"}
    /\ c[2] \in Keys
    /\ c[1] \in {"PUSH", "PUSHX"} => c[3] \in Int
    /\ c[1] \in {"LINSERT", "LSET"} => c[4] \in Int
    /\ c[1] = "LTRIM" => c[3] \in Int /\ c[4] \in Int
    /\ c[1] = "RPOPLPUSH" => c[3] \in Keys

LEMMA ListArguments == ASSUME NEW c \in ListCalls PROVE ListTyped(c)
  <1>1. ASSUME c \in {<<n, k, e, left>> : n \in {"PUSH", "PUSHX"}, k \in Local, e \in Elements,
                             left \in BOOLEAN}
        PROVE ListTyped(c)
    BY <1>1, KeyspaceAssumption DEF Local, ListTyped
  <1>2. ASSUME c \in {<<"LINSERT", k, p, e, after>> : k \in Local, p \in Elements, e \in Elements,
                             after \in BOOLEAN}
        PROVE ListTyped(c)
    BY <1>2, KeyspaceAssumption DEF Local, ListTyped
  <1>3. ASSUME c \in {<<"LSET", k, i, e>> : k \in Local, i \in -1..1, e \in Elements}
        PROVE ListTyped(c)
    BY <1>3, KeyspaceAssumption DEF Local, ListTyped
  <1>4. ASSUME c \in {<<"POP", k, left>> : k \in Local, left \in BOOLEAN}
        PROVE ListTyped(c)
    BY <1>4 DEF Local, ListTyped
  <1>5. ASSUME c \in {<<"LTRIM", k, i, j>> : k \in Local, i \in -1..1, j \in -2..1}
        PROVE ListTyped(c)
    BY <1>5 DEF Local, ListTyped
  <1>6. ASSUME c \in {<<"LREM", k, e>> : k \in Local, e \in Elements}
        PROVE ListTyped(c)
    BY <1>6, KeyspaceAssumption DEF Local, ListTyped
  <1>7. ASSUME c \in {<<"RPOPLPUSH", p[1], p[2]>> : p \in Local \X Local}
        PROVE ListTyped(c)
    BY <1>7 DEF Local, ListTyped
  <1> QED
    BY <1>1, <1>2, <1>3, <1>4, <1>5, <1>6, <1>7 DEF ListCalls

LEMMA CommandsObey ==
    ASSUME NEW D, NEW R, Sound(D), Sound(R), Like(D, R), NEW c \in Commands
    PROVE Obeys(c, D, R)
  <1>1. \/ c \in KeyCalls \/ c \in StringCalls \/ c \in HashCalls
        \/ c \in SetCalls \/ c \in ListCalls
    BY Zenon DEF Commands
  <1>2. CASE c \in StringCalls
    BY <1>2, StringArguments, StringObeys DEF StringTyped
  <1>3. CASE c \in HashCalls
    BY <1>3, HashArguments, HashObeys DEF HashTyped
  <1>4. CASE c \in SetCalls
    BY <1>4, SetArguments, SetObeys DEF SetTyped
  <1>5. CASE c \in ListCalls
    BY <1>5, ListArguments, ListObeys DEF ListTyped
  <1>6. CASE c \in KeyCalls
    <2>1. CASE c[1] = "SET"
      BY <1>6, <2>1, KeyArguments, StringObeys DEF KeyTyped
    <2>2. CASE c[1] # "SET"
      BY <1>6, <2>2, KeyArguments, KeyObeys DEF KeyTyped
    <2> QED
      BY <2>1, <2>2
  <1> QED
    BY <1>1, <1>2, <1>3, <1>4, <1>5, <1>6

-----------------------------------------------------------------------------
(* The specification *)

(* The inductive invariant: both sides are sound and the replica is like   *)
(* the master, so that a command finds the same on both.                   *)
InStep ==
    /\ Sound(master) /\ Sound(replica)
    /\ Like(master, replica)
    /\ dead \subseteq Keys

LEMMA EmptyInStep == Init => InStep
  <1>1. Sound(Empty)
    BY DEF Sound, IsDataset, Empty, Value, Has
  <1>2. Like(Empty, Empty)
    BY SameItself DEF Like
  <1> QED
    BY <1>1, <1>2 DEF Init, InStep

(* A key is deleted on both sides. *)
LEMMA DeleteInStep ==
    ASSUME InStep, NEW k \in Keys, master' = Delete(master, k), replica' = Delete(replica, k),
           dead' \subseteq dead
    PROVE InStep'
  <1>1. Sound(Delete(master, k)) /\ Sound(Delete(replica, k))
    BY DeleteSound DEF InStep
  <1>2. Like(Delete(master, k), Delete(replica, k))
    BY LikeDelete DEF InStep, Sound
  <1>3. Sound(master') /\ Sound(replica') /\ Like(master', replica')
    BY <1>1, <1>2
  <1> QED
    BY <1>3 DEF InStep

LEMMA CallInStep ==
    ASSUME InStep, NEW c \in Commands, Call(c)
    PROVE InStep'
  <1> DEFINE expired == {k \in dead : k \in LookedUp(c, master, dead)}
             D == DeleteAll(master, expired)
             R == DeleteAll(replica, expired)
  <1>1. Sound(D) /\ Sound(R) /\ Like(D, R)
    BY DeleteAllSound, LikeDeleteAll DEF InStep
  <1>2. PICK r \in Outcomes(c, D) :
          /\ master' = r.data
          /\ dead' = {k \in dead \ expired : r.data.ttl[k]}
          /\ IF ~r.dirty THEN replica' = R
             ELSE \E q \in Outcomes(IF r.as = <<>> THEN c ELSE r.as, R) : replica' = q.data
    BY DEF Call
  <1>3. dead' \subseteq Keys
    BY <1>2 DEF InStep
  <1> HIDE DEF D, R
  <1>4. Obeys(c, D, R)
    BY <1>1, CommandsObey
  <1>5. Sound(r.data) /\ Propagated(c, r, R)
    BY <1>2, <1>4 DEF Obeys
  <1>6. Sound(replica') /\ Like(r.data, replica')
    BY <1>1, <1>2, <1>5 DEF Propagated
  <1>7. Sound(master') /\ Sound(replica') /\ Like(master', replica')
    BY <1>2, <1>5, <1>6
  <1> QED
    BY <1>3, <1>7 DEF InStep

LEMMA StepsInStep == InStep /\ [Next]_vars => InStep'
  <1> SUFFICES ASSUME InStep, [Next]_vars PROVE InStep'
    OBVIOUS
  <1>1. ASSUME NEW c \in Commands, Call(c) PROVE InStep'
    BY <1>1, CallInStep
  <1>2. ASSUME NEW k \in Keys, Read(k) PROVE InStep'
    BY <1>2, DeleteInStep DEF Read
  <1>3. ASSUME NEW k \in Keys, TimePasses(k) PROVE InStep'
    BY <1>3 DEF InStep, TimePasses
  <1>4. CASE ActiveExpireCycle
    <2>1. PICK k \in dead : master' = Delete(master, k) /\ replica' = Delete(replica, k) /\ dead' = dead \ {k}
      BY <1>4 DEF ActiveExpireCycle
    <2> QED
      BY <2>1, DeleteInStep DEF InStep
  <1>5. CASE FreeMemoryIfNeeded
    BY <1>5, DeleteInStep DEF FreeMemoryIfNeeded
  <1>6. CASE UNCHANGED vars
    BY <1>6 DEF InStep, vars
  <1> QED
    BY <1>1, <1>2, <1>3, <1>4, <1>5, <1>6 DEF Next

LEMMA AlwaysInStep == Spec => []InStep
  BY EmptyInStep, StepsInStep, PTL DEF Spec

(* The replica holds the same values as the master, and expires only where *)
(* the master has them: what call() propagates to it, or rewrote for it    *)
(* (SPOP, INCRBYFLOAT, HINCRBYFLOAT, EXPIRE), replays to the same data.    *)
THEOREM ReplicaHoldsTheSame == Spec => []KeyspaceAgrees
  <1>1. InStep => KeyspaceAgrees
    BY DEF InStep, KeyspaceAgrees, Like, Same, Has
  <1> QED
    BY <1>1, AlwaysInStep, PTL

(* An aggregate has elements and a packed one is within its limits, and no *)
(* expire stays behind, whichever commands of t_list.c, t_set.c, t_hash.c  *)
(* and db.c built it.                                                      *)
THEOREM ValuesAreSound == Spec => []ValuesSound
  <1>1. ASSUME NEW D, Sound(D), NEW k \in Keys
        PROVE /\ D.val[k].type \in {"list", "set", "hash"} => Size(D.val[k]) > 0
              /\ D.ttl[k] => Has(D, k)
              /\ D.val[k].type \in {"list", "set", "hash"} /\ D.val[k].packed =>
                    IF Is(D, k, "set")
                    THEN Size(D.val[k]) <= MaxIntset /\ \A e \in D.val[k].content : IsNumber(e)
                    ELSE Size(D.val[k]) <= MaxPacked
    <2>1. Value(D.val[k])
      BY <1>1 DEF Sound
    <2>2. CASE D.val[k].type = "list"
      BY <1>1, <2>1, <2>2, ValueTypes DEF Sound, ListValue, Size, Is
    <2>3. CASE D.val[k].type = "set"
      BY <1>1, <2>1, <2>3, ValueTypes DEF Sound, SetValue, Size, Is
    <2>4. CASE D.val[k].type = "hash"
      BY <1>1, <2>1, <2>4, ValueTypes DEF Sound, HashValue, Size, Is
    <2> QED
      BY <1>1, <2>2, <2>3, <2>4 DEF Sound
  <1>2. InStep => ValuesSound
    BY <1>1 DEF InStep, ValuesSound, NoEmptyAggregate, PackedWithinLimits
  <1> QED
    BY <1>2, AlwaysInStep, PTL

(* A command that changes the value of a key signals the key to the        *)
(* clients that watch it (signalModifiedKey), but for MOVE.                *)
THEOREM ChangesAreSignalled == Spec => []EveryChangeSignalled
  <1>1. ASSUME InStep, NEW c \in Commands, c[1] # "MOVE", NEW r \in Outcomes(c, master),
               NEW k \in Keys, Differs(master, r.data, k)
        PROVE k \in r.signalled
    <2>1. Keeps(master, r.data, r.signalled)
      BY <1>1, CommandsObey DEF InStep, Obeys
    <2> QED
      BY <1>1, <2>1 DEF Keeps, Same, Differs, Has
  <1>2. InStep => EveryChangeSignalled
    BY <1>1 DEF EveryChangeSignalled, ChangesOf
  <1> QED
    BY <1>2, AlwaysInStep, PTL

-----------------------------------------------------------------------------
(* HyperLogLog.  The inductive invariant: what is stored has the fields of *)
(* a value, and a cardinality that is cached is that of the registers.     *)
FreshValue(h) == h.card # H!Invalid /\ h.enc # "none" => h.card = H!Histogram(H!RegistersOf(h))
HllValue(h) == h = [enc |-> h.enc, ops |-> h.ops, regs |-> h.regs, card |-> h.card]
HllInv ==
    /\ hll = [k \in HllKeys |-> hll[k]]
    /\ \A k \in HllKeys : HllValue(hll[k]) /\ FreshValue(hll[k])

(* hllDenseAdd and hllSparseAdd return a value, whichever encoding they    *)
(* end with.                                                               *)
LEMMA AddedHllValue ==
    ASSUME NEW h, HllValue(h), NEW index, NEW count
    PROVE  /\ HllValue(H!DenseAdd(h, index, count))
           /\ HllValue(H!SparseAdd(h, index, count))
  <1>1. ASSUME NEW g, HllValue(g) PROVE HllValue(H!DenseAdd(g, index, count))
    <2>1. g = [enc |-> g.enc, ops |-> g.ops, regs |-> g.regs, card |-> g.card]
      BY <1>1 DEF HllValue
    <2>2. CASE count > g.regs[index]
      <3>1. H!DenseAdd(g, index, count)
              = [enc |-> g.enc, ops |-> g.ops, regs |-> [g.regs EXCEPT ![index] = count],
                 card |-> g.card]
        BY <2>1, <2>2 DEF H!DenseAdd
      <3>2. QED BY <3>1 DEF HllValue
    <2>3. CASE ~(count > g.regs[index])
      BY <1>1, <2>3 DEF H!DenseAdd
    <2>4. QED BY <2>2, <2>3
  <1>2. ASSUME NEW regs PROVE HllValue(H!Dense(regs, h.card))
    BY DEF HllValue, H!Dense
  <1>3. ASSUME NEW ops PROVE HllValue([h EXCEPT !.ops = ops, !.card = H!Invalid])
    <2> DEFINE g == [h EXCEPT !.ops = ops]
    <2>1. [h EXCEPT !.ops = ops, !.card = H!Invalid] = [g EXCEPT !.card = H!Invalid]
      BY DEF HllValue
    <2>2. g = [enc |-> h.enc, ops |-> ops, regs |-> h.regs, card |-> h.card]
      BY DEF HllValue
    <2>3. HllValue(g)
      BY <2>2 DEF HllValue
    <2> HIDE DEF g
    <2>4. [g EXCEPT !.card = H!Invalid]
            = [enc |-> g.enc, ops |-> g.ops, regs |-> g.regs, card |-> H!Invalid]
      BY <2>3 DEF HllValue
    <2>5. QED BY <2>1, <2>4 DEF HllValue
  <1>4. HllValue(H!SparseAdd(h, index, count))
    BY <1>1, <1>2, <1>3 DEF H!SparseAdd
  <1>5. QED BY <1>1, <1>4

(* PFADD leaves the cached cardinality as it was, or invalid.              *)
LEMMA UpdatedIsFresh ==
    ASSUME NEW old, NEW new, HllValue(new), FreshValue(old)
    PROVE  HllValue(H!Updated(old, new)) /\ FreshValue(H!Updated(old, new))
  <1>1. CASE new = old BY <1>1 DEF H!Updated
  <1>2. CASE new # old
    <2>1. H!Updated(old, new)
            = [enc |-> new.enc, ops |-> new.ops, regs |-> new.regs, card |-> H!Invalid]
      BY <1>2 DEF H!Updated, HllValue
    <2>2. QED BY <2>1 DEF HllValue, FreshValue
  <1>3. QED BY <1>1, <1>2

(* The empty keys satisfy the invariant.                                   *)
LEMMA HllInit == H!Init => HllInv
  BY DEF H!Init, HllInv, HllValue, FreshValue, H!NoValue, H!Invalid

(* PFADD, PFCOUNT and PFMERGE keep it.                                     *)
LEMMA HllNext == HllInv /\ [H!Next]_(H!hllVars) => HllInv'
  <1> SUFFICES ASSUME HllInv, [H!Next]_(H!hllVars) PROVE HllInv'
    OBVIOUS
  <1>1. ASSUME UNCHANGED hll PROVE HllInv'
    BY <1>1 DEF HllInv
  <1>2. ASSUME NEW k \in HllKeys, NEW v, HllValue(v), FreshValue(v), hll' = [hll EXCEPT ![k] = v]
        PROVE  HllInv'
    <2>1. hll' = [j \in HllKeys |-> IF j = k THEN v ELSE hll[j]]
      BY <1>2 DEF HllInv
    <2>2. \A j \in HllKeys : hll'[j] = v \/ hll'[j] = hll[j]
      BY <2>1
    <2>3. \A j \in HllKeys : HllValue(hll'[j]) /\ FreshValue(hll'[j])
      BY <1>2, <2>2 DEF HllInv
    <2>4. QED BY <2>1, <2>3 DEF HllInv
  <1>3. ASSUME NEW k \in HllKeys, NEW index \in H!Index, NEW count \in Counts,
               H!PfAdd(k, index, count)
        PROVE  HllInv'
    <2> DEFINE old == H!Existing(k)
               new == IF old.enc = "dense" THEN H!DenseAdd(old, index, count)
                      ELSE H!SparseAdd(old, index, count)
    <2>1. hll' = [hll EXCEPT ![k] = H!Updated(hll[k], new)]
      BY <1>3 DEF H!PfAdd
    <2>2. HllValue(old)
      BY DEF HllInv, H!Existing, H!NewHll, HllValue
    <2>3. HllValue(new)
      <3> HIDE DEF old
      <3>1. QED BY <2>2, AddedHllValue
    <2>4. HllValue(H!Updated(hll[k], new)) /\ FreshValue(H!Updated(hll[k], new))
      <3> HIDE DEF new
      <3>1. QED BY <2>3, UpdatedIsFresh DEF HllInv
    <2> HIDE DEF new
    <2>5. QED BY <2>1, <2>4, <1>2
  <1>4. ASSUME NEW k \in HllKeys, H!PfCount(k) PROVE HllInv'
    <2> DEFINE h == hll[k]
               card == H!Histogram(H!RegistersOf(h))
               new == [enc |-> h.enc, ops |-> h.ops, regs |-> h.regs, card |-> card]
    <2>1. HllValue(h)
      BY DEF HllInv
    <2>2. hll' = [hll EXCEPT ![k] = [hll[k] EXCEPT !.card = card]]
      BY <1>4 DEF H!PfCount
    <2>3. [hll[k] EXCEPT !.card = card] = new
      <3> HIDE DEF card
      <3>1. QED BY <2>1 DEF HllValue
    <2>4. HllValue(new)
      <3> HIDE DEF card
      <3>1. QED BY DEF HllValue
    <2>5. H!RegistersOf(new) = H!RegistersOf(h)
      <3> HIDE DEF card
      <3>1. QED BY DEF H!RegistersOf
    <2>6. FreshValue(new)
      BY <2>5 DEF FreshValue
    <2> HIDE DEF new, card
    <2>7. QED BY <2>2, <2>3, <2>4, <2>6, <1>2
  <1>5. ASSUME NEW k \in HllKeys, NEW from \in HllKeys, H!PfMerge(k, from) PROVE HllInv'
    <2> DEFINE new == H!Dense(H!MaxRegisters({k, from}), H!Invalid)
    <2>1. hll' = [hll EXCEPT ![k] = new]
      BY <1>5 DEF H!PfMerge
    <2>2. HllValue(new) /\ FreshValue(new)
      BY DEF H!Dense, HllValue, FreshValue
    <2> HIDE DEF new
    <2>3. QED BY <2>1, <2>2, <1>2
  <1>6. CASE H!Next
    BY <1>3, <1>4, <1>5, <1>6 DEF H!Next
  <1>7. CASE UNCHANGED hll
    BY <1>1, <1>7
  <1>8. QED
    BY <1>6, <1>7 DEF H!hllVars

(* A cached cardinality that is marked valid is the one PFCOUNT would      *)
(* compute from the registers now, though hllDenseAdd leaves it to its     *)
(* caller to invalidate it, for any number of registers, and any limits of *)
(* the sparse encoding.                                                    *)
THEOREM CachedCardinalitiesAreFresh == H!Spec => []CardinalityFresh
  <1>1. HllInv => CardinalityFresh
    BY DEF HllInv, FreshValue, CardinalityFresh, H!CardinalityFresh
  <1>2. QED
    BY HllInit, HllNext, <1>1, PTL DEF H!Spec
=============================================================================
