-------------------------- MODULE DurabilityProofs --------------------------
(***************************************************************************)
(* The files and copies of the data: the append only file for any          *)
(* databases and any number of writes, rewrites, errors and switches, the  *)
(* snapshots for any number of changes, faults and rewrites, both          *)
(* together, and the slaves of a master for any backlog and any number of  *)
(* writes, faults and commands.                                            *)
(***************************************************************************)
EXTENDS MCDurability, SequenceTheorems, TLAPS

-----------------------------------------------------------------------------
(* The append only file *)

(* items load to the data set n, growing all the way: what a part of them  *)
(* loads to is known too, for a short write may leave any part.            *)
Grows(items) ==
    \A i, j \in 1..Len(items) :
        i < j /\ items[i].kind # "select" /\ items[j].kind # "select" => items[i].n <= items[j].n
Whole(items, n) ==
    /\ items \in Seq(Item)
    /\ Loads(items)
    /\ DataAt(items, Len(items), n)
    /\ Grows(items)
    /\ \A i \in 1..Len(items) : items[i].kind # "select" => items[i].n <= n
    /\ \A i \in 0..Len(items) : \E m \in 0..n : DataAt(items, i, m)

(* ... and leave the database the server takes for selected. *)
WholeSelected(items, n, d) == Whole(items, n) /\ (d # -1 => DbAt(items, Len(items), d))

(* The file with the buffer, and the new file with the difference, hold    *)
(* the whole data set; the handler of a rewrite merges the latter first    *)
(* and gives it the name next.                                             *)
FileInv ==
    state = "on" /\ handler # "switch" => WholeSelected(file.items \o buf, Len(hist), selected)
RewriteInv ==
    state # "off" /\ child # "none" =>
        /\ handler = "none" => WholeSelected(tmp.items \o rwbuf, Len(hist), selected)
        /\ handler = "rename" => Whole(tmp.items, Len(hist))
        /\ handler = "switch" => Whole(file.items, Len(hist))

(* With "always" everything written is synced before replies are sent, and *)
(* while no-appendfsync-on-rewrite leaves that out, what was synced stays. *)
SyncInv ==
    policy = "always" /\ state = "on" /\ handler # "switch" =>
        /\ alive /\ ~skipped => file.synced = Len(file.items)
        /\ \E n \in acked..Len(hist) : DataAt(file.items, file.synced, n)

AofInv ==
    /\ TypeOK
    /\ handler # "none" => child = "exited"
    /\ FileInv
    /\ RewriteInv
    /\ SyncInv

-----------------------------------------------------------------------------
(* Items and what they load to *)

LEMMA ItemFacts ==
    ASSUME MaxWrites \in Nat, NEW n \in 0..MaxWrites, NEW d \in Dbs
    PROVE /\ Base(n) \in Item /\ Base(n).kind = "base" /\ Base(n).n = n
          /\ Select(d) \in Item /\ Select(d).kind = "select" /\ Select(d).db = d
          /\ Write(n, d) \in Item /\ Write(n, d).kind = "write" /\ Write(n, d).n = n /\ Write(n, d).db = d
  <1>1. 0 \in 0..MaxWrites
    OBVIOUS
  <1> QED
    BY <1>1 DEF Base, Select, Write, Item

LEMMA ItemType ==
    ASSUME MaxWrites \in Nat, NEW s \in Seq(Item), NEW i \in 1..Len(s)
    PROVE s[i] \in Item /\ s[i].n \in Nat /\ s[i].kind \in {"base", "select", "write"}
  <1>1. s[i] \in Item
    BY ElementOfSeq
  <1> QED
    BY <1>1 DEF Item

LEMMA Regroup ==
    ASSUME NEW s \in Seq(Item), NEW t \in Seq(Item), NEW u \in Seq(Item)
    PROVE s \o (t \o u) = (s \o t) \o u
  BY ConcatAssociative

(* What the first items load to depends on them only. *)
LEMMA SameData ==
    ASSUME NEW s, NEW t, NEW i \in Int, \A j \in 1..i : s[j] = t[j], NEW n
    PROVE /\ DataAt(s, i, n) <=> DataAt(t, i, n)
          /\ DbAt(s, i, n) <=> DbAt(t, i, n)
  <1>1. \A j \in 1..i : \A k \in j + 1..i : k \in 1..i
    OBVIOUS
  <1>2. DataAt(s, i, n) <=> DataAt(t, i, n)
    BY <1>1, Zenon DEF DataAt
  <1>3. DbAt(s, i, n) <=> DbAt(t, i, n)
    BY <1>1, Zenon DEF DbAt
  <1> QED
    BY <1>2, <1>3

(* A part of what loads loads. *)
LEMMA PartLoads ==
    ASSUME NEW s \in Seq(Item), NEW t \in Seq(Item), Len(s) <= Len(t),
           \A i \in 1..Len(s) : s[i] = t[i], Loads(t)
    PROVE Loads(s)
  <1> SUFFICES ASSUME NEW i \in 1..Len(s)
               PROVE /\ s[i].kind = "base" => i = 1
                     /\ s[i].kind = "write" => DataAt(s, i - 1, s[i].n - 1) /\ DbAt(s, i - 1, s[i].db)
    BY DEF Loads
  <1>1. i \in 1..Len(t) /\ s[i] = t[i] /\ i - 1 \in Int
    OBVIOUS
  <1>2. \A j \in 1..i - 1 : s[j] = t[j]
    OBVIOUS
  <1>3. /\ t[i].kind = "base" => i = 1
        /\ t[i].kind = "write" => DataAt(t, i - 1, t[i].n - 1) /\ DbAt(t, i - 1, t[i].db)
    BY <1>1 DEF Loads
  <1> QED
    BY <1>1, <1>2, <1>3, SameData

(* The data set at the end of more items is no smaller. *)
LEMMA DataGrows ==
    ASSUME MaxWrites \in Nat, NEW w, NEW n \in Nat, Whole(w, n), NEW i \in 0..Len(w), NEW k \in i..Len(w),
           NEW a, DataAt(w, i, a), NEW b, DataAt(w, k, b)
    PROVE a <= b
  <1>1. w \in Seq(Item) /\ Len(w) \in Nat
    BY DEF Whole
  <1>2. \A j \in 1..Len(w) : w[j].n \in Nat
    BY <1>1, ItemType
  <1>3. b \in Nat
    BY <1>1, <1>2 DEF DataAt
  <1>4. CASE a = 0
    BY <1>3, <1>4
  <1>5. CASE a # 0
    <2>1. PICK j \in 1..i : w[j].kind # "select" /\ w[j].n = a
      BY <1>5 DEF DataAt
    <2>2. j \in 1..k /\ j \in 1..Len(w)
      BY <1>1
    <2>3. PICK l \in 1..k : /\ w[l].kind # "select" /\ w[l].n = b
                            /\ \A m \in l + 1..k : w[m].kind = "select"
      BY <2>1, <2>2 DEF DataAt
    <2>4. l \in 1..Len(w) /\ j <= l
      BY <1>1, <2>1, <2>2, <2>3
    <2>5. CASE j = l
      BY <2>1, <2>3, <2>5, <1>2, <2>2
    <2>6. CASE j < l
      BY <2>1, <2>2, <2>3, <2>4, <2>6 DEF Whole, Grows
    <2> QED
      BY <2>4, <2>5, <2>6, <2>2
  <1> QED
    BY <1>4, <1>5

-----------------------------------------------------------------------------
(* Longer and longer files *)

(* The file with one more item, e: what the items before it load to stays. *)
LEMMA AppendFacts ==
    ASSUME NEW s \in Seq(Item), NEW e \in Item
    PROVE /\ Append(s, e) \in Seq(Item)
          /\ Len(Append(s, e)) = Len(s) + 1 /\ Len(s) \in Nat
          /\ \A i \in 1..Len(s) : Append(s, e)[i] = s[i]
          /\ Append(s, e)[Len(s) + 1] = e
          /\ \A i \in 0..Len(s) : \A n : /\ DataAt(Append(s, e), i, n) <=> DataAt(s, i, n)
                                         /\ DbAt(Append(s, e), i, n) <=> DbAt(s, i, n)
  <1>1. /\ Append(s, e) \in Seq(Item)
        /\ Len(Append(s, e)) = Len(s) + 1 /\ Len(s) \in Nat
        /\ \A i \in 1..Len(s) : Append(s, e)[i] = s[i]
        /\ Append(s, e)[Len(s) + 1] = e
    BY AppendProperties, LenProperties
  <1>2. ASSUME NEW i \in 0..Len(s), NEW n
        PROVE /\ DataAt(Append(s, e), i, n) <=> DataAt(s, i, n)
              /\ DbAt(Append(s, e), i, n) <=> DbAt(s, i, n)
    <2>1. i \in Int /\ \A j \in 1..i : Append(s, e)[j] = s[j]
      BY <1>1
    <2> QED
      BY <2>1, SameData
  <1> QED
    BY <1>1, <1>2

(* SELECT changes the database only. *)
LEMMA AppendSelect ==
    ASSUME AofAssumption, NEW n \in 0..MaxWrites, NEW s, Whole(s, n), NEW d \in Dbs
    PROVE /\ Whole(Append(s, Select(d)), n)
          /\ DbAt(Append(s, Select(d)), Len(Append(s, Select(d))), d)
  <1> DEFINE e == Select(d)
             t == Append(s, e)
  <1>0. e \in Item /\ e.kind = "select" /\ e.db = d
    BY ItemFacts DEF AofAssumption
  <1> HIDE DEF e
  <1>1. s \in Seq(Item)
    BY DEF Whole
  <1>2. /\ t \in Seq(Item) /\ Len(t) = Len(s) + 1 /\ Len(s) \in Nat /\ t[Len(t)] = e
        /\ \A i \in 1..Len(s) : t[i] = s[i]
        /\ \A i \in 0..Len(s) : \A m : /\ DataAt(t, i, m) <=> DataAt(s, i, m)
                                       /\ DbAt(t, i, m) <=> DbAt(s, i, m)
    BY <1>0, <1>1, AppendFacts
  <1> HIDE DEF t
  <1>3. \A i \in 1..Len(t) : i \in 1..Len(s) \/ i = Len(t)
    BY <1>2
  <1>4. \A m : DataAt(s, Len(s), m) => DataAt(t, Len(t), m)
    <2> SUFFICES ASSUME NEW m, DataAt(t, Len(s), m) PROVE DataAt(t, Len(t), m)
      BY <1>2
    <2>1. \A j \in 1..Len(t) : j \in 1..Len(s) \/ t[j].kind = "select"
      BY <1>0, <1>2, <1>3
    <2>2. CASE m = 0 /\ \A j \in 1..Len(s) : t[j].kind = "select"
      BY <2>1, <2>2 DEF DataAt
    <2>3. CASE \E j \in 1..Len(s) : /\ t[j].kind # "select" /\ t[j].n = m
                                    /\ \A k \in j + 1..Len(s) : t[k].kind = "select"
      <3>1. PICK j \in 1..Len(s) : /\ t[j].kind # "select" /\ t[j].n = m
                                   /\ \A k \in j + 1..Len(s) : t[k].kind = "select"
        BY <2>3
      <3>2. j \in 1..Len(t) /\ \A k \in j + 1..Len(t) : k \in j + 1..Len(s) \/ k = Len(t)
        BY <1>2
      <3>3. \A k \in j + 1..Len(t) : t[k].kind = "select"
        BY <3>1, <3>2, <1>0, <1>2
      <3> QED
        BY <3>1, <3>2, <3>3 DEF DataAt
    <2> QED
      BY <2>2, <2>3 DEF DataAt
  <1>5. Loads(t)
    <2> SUFFICES ASSUME NEW i \in 1..Len(t)
                 PROVE /\ t[i].kind = "base" => i = 1
                       /\ t[i].kind = "write" => DataAt(t, i - 1, t[i].n - 1) /\ DbAt(t, i - 1, t[i].db)
      BY DEF Loads
    <2>1. CASE i = Len(t)
      BY <1>0, <1>2, <2>1
    <2>2. CASE i \in 1..Len(s)
      <3>1. t[i] = s[i] /\ i - 1 \in 0..Len(s)
        BY <1>2, <2>2
      <3> QED
        BY <1>2, <2>2, <3>1 DEF Whole, Loads
    <2> QED
      BY <1>3, <2>1, <2>2
  <1>6. Grows(t)
    BY <1>0, <1>2, <1>3 DEF Whole, Grows
  <1>7. \A i \in 1..Len(t) : t[i].kind # "select" => t[i].n <= n
    BY <1>0, <1>2, <1>3 DEF Whole
  <1>8. \A i \in 0..Len(t) : \E m \in 0..n : DataAt(t, i, m)
    <2> SUFFICES ASSUME NEW i \in 0..Len(t) PROVE \E m \in 0..n : DataAt(t, i, m)
      OBVIOUS
    <2>1. CASE i \in 0..Len(s)
      BY <1>2, <2>1 DEF Whole
    <2>2. CASE i = Len(t)
      BY <1>4, <2>2 DEF Whole
    <2> QED
      BY <1>2, <2>1, <2>2
  <1>9. DataAt(t, Len(t), n)
    BY <1>4 DEF Whole
  <1>10. DbAt(t, Len(t), d)
    <2>1. Len(t) \in 1..Len(t) /\ \A k \in Len(t) + 1..Len(t) : FALSE
      BY <1>2
    <2> QED
      BY <1>0, <1>2, <2>1 DEF DbAt
  <1> QED
    BY <1>2, <1>5, <1>6, <1>7, <1>8, <1>9, <1>10 DEF Whole, t, e

(* The next write, in the database that is selected *)
LEMMA AppendWrite ==
    ASSUME AofAssumption, NEW n \in 0..MaxWrites, n < MaxWrites, NEW s, Whole(s, n),
           NEW d \in Dbs, DbAt(s, Len(s), d)
    PROVE /\ Whole(Append(s, Write(n + 1, d)), n + 1)
          /\ DbAt(Append(s, Write(n + 1, d)), Len(Append(s, Write(n + 1, d))), d)
  <1> DEFINE e == Write(n + 1, d)
             t == Append(s, e)
  <1>0. e \in Item /\ e.kind = "write" /\ e.n = n + 1 /\ e.db = d
    <2>1. n + 1 \in 0..MaxWrites
      BY DEF AofAssumption
    <2> QED
      BY <2>1, ItemFacts DEF AofAssumption
  <1> HIDE DEF e
  <1>1. s \in Seq(Item)
    BY DEF Whole
  <1>2. /\ t \in Seq(Item) /\ Len(t) = Len(s) + 1 /\ Len(s) \in Nat /\ t[Len(t)] = e
        /\ \A i \in 1..Len(s) : t[i] = s[i]
        /\ \A i \in 0..Len(s) : \A m : /\ DataAt(t, i, m) <=> DataAt(s, i, m)
                                       /\ DbAt(t, i, m) <=> DbAt(s, i, m)
    BY <1>0, <1>1, AppendFacts
  <1> HIDE DEF t
  <1>3. \A i \in 1..Len(t) : i \in 1..Len(s) \/ i = Len(t)
    BY <1>2
  <1>4. DataAt(t, Len(s), n) /\ DbAt(t, Len(s), d)
    BY <1>2 DEF Whole
  <1>5. Loads(t)
    <2> SUFFICES ASSUME NEW i \in 1..Len(t)
                 PROVE /\ t[i].kind = "base" => i = 1
                       /\ t[i].kind = "write" => DataAt(t, i - 1, t[i].n - 1) /\ DbAt(t, i - 1, t[i].db)
      BY DEF Loads
    <2>1. CASE i = Len(t)
      <3>1. i - 1 = Len(s) /\ t[i].n - 1 = n /\ t[i].db = d /\ t[i].kind = "write"
        BY <1>0, <1>2, <2>1
      <3> QED
        BY <1>4, <3>1
    <2>2. CASE i \in 1..Len(s)
      <3>1. t[i] = s[i] /\ i - 1 \in 0..Len(s)
        BY <1>2, <2>2
      <3> QED
        BY <1>2, <2>2, <3>1 DEF Whole, Loads
    <2> QED
      BY <1>3, <2>1, <2>2
  <1>6. \A i \in 1..Len(s) : s[i].n \in Nat
    BY <1>1, ItemType DEF AofAssumption
  <1>7. \A i \in 1..Len(t) : t[i].kind # "select" => t[i].n <= n + 1
    BY <1>0, <1>2, <1>3, <1>6 DEF Whole
  <1>8. Grows(t)
    <2> SUFFICES ASSUME NEW i \in 1..Len(t), NEW j \in 1..Len(t), i < j,
                        t[i].kind # "select", t[j].kind # "select"
                 PROVE t[i].n <= t[j].n
      BY DEF Grows
    <2>1. i \in 1..Len(s)
      BY <1>2
    <2>2. CASE j \in 1..Len(s)
      BY <1>2, <2>1, <2>2 DEF Whole, Grows
    <2>3. CASE j = Len(t)
      BY <1>0, <1>2, <1>7, <2>3
    <2> QED
      BY <1>3, <2>2, <2>3
  <1>9. DataAt(t, Len(t), n + 1)
    <2>1. Len(t) \in 1..Len(t) /\ \A k \in Len(t) + 1..Len(t) : FALSE
      BY <1>2
    <2> QED
      BY <1>0, <1>2, <2>1 DEF DataAt
  <1>10. \A i \in 0..Len(t) : \E m \in 0..n + 1 : DataAt(t, i, m)
    <2> SUFFICES ASSUME NEW i \in 0..Len(t) PROVE \E m \in 0..n + 1 : DataAt(t, i, m)
      OBVIOUS
    <2>1. CASE i \in 0..Len(s)
      <3>1. PICK m \in 0..n : DataAt(s, i, m)
        BY <2>1 DEF Whole
      <3> QED
        BY <1>2, <2>1, <3>1
    <2>2. CASE i = Len(t)
      BY <1>9, <2>2
    <2> QED
      BY <1>2, <2>1, <2>2
  <1>11. DbAt(t, Len(t), d)
    <2>1. \A j \in 1..Len(t) : j \in 1..Len(s) \/ t[j].kind = "write"
      BY <1>0, <1>2, <1>3
    <2>2. CASE d = 0 /\ \A j \in 1..Len(s) : t[j].kind = "write"
      BY <2>1, <2>2 DEF DbAt
    <2>3. CASE \E j \in 1..Len(s) : /\ t[j].kind # "write" /\ t[j].db = d
                                    /\ \A k \in j + 1..Len(s) : t[k].kind = "write"
      <3>1. PICK j \in 1..Len(s) : /\ t[j].kind # "write" /\ t[j].db = d
                                   /\ \A k \in j + 1..Len(s) : t[k].kind = "write"
        BY <2>3
      <3>2. j \in 1..Len(t) /\ \A k \in j + 1..Len(t) : k \in j + 1..Len(s) \/ k = Len(t)
        BY <1>2
      <3>3. \A k \in j + 1..Len(t) : t[k].kind = "write"
        BY <3>1, <3>2, <1>0, <1>2
      <3> QED
        BY <3>1, <3>2, <3>3 DEF DbAt
    <2> QED
      BY <1>4, <2>2, <2>3 DEF DbAt
  <1> QED
    BY <1>2, <1>5, <1>7, <1>8, <1>9, <1>10, <1>11 DEF Whole, t, e

(* What a write command is fed as: SELECT, if need be, and the command. *)
Fed(d, sel, n) == (IF d # sel THEN <<Select(d)>> ELSE << >>) \o <<Write(n, d)>>

LEMMA FedWhole ==
    ASSUME AofAssumption, NEW n \in 0..MaxWrites, n < MaxWrites, NEW s, NEW d \in Dbs, NEW sel,
           WholeSelected(s, n, sel)
    PROVE /\ Fed(d, sel, n + 1) \in Seq(Item)
          /\ WholeSelected(s \o Fed(d, sel, n + 1), n + 1, d)
  <1> DEFINE a == Select(d)
             b == Write(n + 1, d)
  <1>1. s \in Seq(Item) /\ Whole(s, n)
    BY DEF WholeSelected, Whole
  <1>2. a \in Item /\ b \in Item
    <2>1. n + 1 \in 0..MaxWrites
      BY DEF AofAssumption
    <2> QED
      BY <2>1, ItemFacts DEF AofAssumption
  <1>3. CASE d # sel
    <2>1. Fed(d, sel, n + 1) = <<a>> \o <<b>>
      BY <1>3 DEF Fed
    <2>2. Whole(Append(s, a), n) /\ DbAt(Append(s, a), Len(Append(s, a)), d)
      BY <1>1, AppendSelect
    <2>3. Whole(Append(Append(s, a), b), n + 1) /\ DbAt(Append(Append(s, a), b), Len(Append(Append(s, a), b)), d)
      BY <2>2, AppendWrite
    <2> HIDE DEF a, b
    <2>4. <<a>> \in Seq(Item) /\ <<b>> \in Seq(Item)
      BY <1>2
    <2>5. s \o (<<a>> \o <<b>>) = (s \o <<a>>) \o <<b>>
      BY <1>1, <2>4, ConcatAssociative
    <2>6. s \o <<a>> = Append(s, a) /\ Append(s, a) \in Seq(Item)
      BY <1>1, <1>2, AppendIsConcat, AppendProperties
    <2>7. (s \o <<a>>) \o <<b>> = Append(Append(s, a), b)
      BY <1>2, <2>6, AppendIsConcat
    <2>8. <<a>> \o <<b>> \in Seq(Item)
      BY <2>4, ConcatProperties
    <2> QED
      BY <2>1, <2>3, <2>5, <2>7, <2>8 DEF WholeSelected
  <1>4. CASE d = sel
    <2>1. Fed(d, sel, n + 1) = << >> \o <<b>>
      BY <1>4 DEF Fed
    <2>2. DbAt(s, Len(s), d)
      BY <1>4 DEF WholeSelected, AofAssumption
    <2>3. Whole(Append(s, b), n + 1) /\ DbAt(Append(s, b), Len(Append(s, b)), d)
      BY <1>1, <2>2, AppendWrite
    <2> HIDE DEF a, b
    <2>4. <<b>> \in Seq(Item)
      BY <1>2
    <2>5. << >> \o <<b>> = <<b>>
      BY <2>4, ConcatEmptySeq
    <2>6. s \o <<b>> = Append(s, b)
      BY <1>1, <1>2, AppendIsConcat
    <2> QED
      BY <2>1, <2>3, <2>4, <2>5, <2>6 DEF WholeSelected
  <1> QED
    BY <1>3, <1>4

(* The empty file holds the empty data set, a new file what it was given. *)
LEMMA EmptyWhole == WholeSelected(<< >>, 0, -1)
  <1>1. << >> \in Seq(Item) /\ Len(<< >>) = 0
    BY EmptySeq
  <1>2. \A i \in 1..0 : FALSE
    OBVIOUS
  <1>3. DataAt(<< >>, 0, 0)
    BY <1>2 DEF DataAt
  <1> QED
    BY <1>1, <1>2, <1>3 DEF WholeSelected, Whole, Loads, Grows

LEMMA BaseWhole ==
    ASSUME AofAssumption, NEW n \in 0..MaxWrites
    PROVE WholeSelected(<<Base(n)>>, n, -1)
  <1> DEFINE e == Base(n)
             s == <<e>>
  <1>1. e \in Item /\ e.kind = "base" /\ e.n = n
    BY ItemFacts DEF AofAssumption
  <1> HIDE DEF e
  <1>2. s \in Seq(Item) /\ Len(s) = 1 /\ s[1] = e
    BY <1>1
  <1> HIDE DEF s
  <1>3. \A i \in 1..1 : i = 1
    OBVIOUS
  <1>4. DataAt(s, 1, n) /\ DataAt(s, 0, 0)
    BY <1>1, <1>2, <1>3 DEF DataAt
  <1>5. \A i \in 0..1 : i = 0 \/ i = 1
    OBVIOUS
  <1>6. \A i \in 0..1 : \E m \in 0..n : DataAt(s, i, m)
    BY <1>4, <1>5
  <1>7. Loads(s) /\ Grows(s)
    BY <1>1, <1>2, <1>3 DEF Loads, Grows
  <1>8. \A i \in 1..1 : s[i].n <= n
    BY <1>1, <1>2, <1>3
  <1> QED
    BY <1>2, <1>4, <1>6, <1>7, <1>8 DEF WholeSelected, Whole, s, e

(* The file is a part of the file with the buffer: it loads, to no more. *)
LEMMA FilePart ==
    ASSUME MaxWrites \in Nat, NEW s \in Seq(Item), NEW t \in Seq(Item), NEW n \in Nat, Whole(s \o t, n)
    PROVE /\ Loads(s)
          /\ \A i \in 0..Len(s) : \E m \in 0..n : DataAt(s, i, m)
          /\ \A i \in 0..Len(s) : \A m : DataAt(s \o t, i, m) <=> DataAt(s, i, m)
  <1> DEFINE w == s \o t
  <1>1. /\ w \in Seq(Item) /\ Len(w) = Len(s) + Len(t) /\ Len(s) \in Nat /\ Len(t) \in Nat
        /\ \A i \in 1..Len(s) : w[i] = s[i]
    BY ConcatProperties, LenProperties
  <1>2. Loads(w) /\ \A i \in 0..Len(w) : \E m \in 0..n : DataAt(w, i, m)
    BY DEF Whole
  <1> HIDE DEF w
  <1>3. Loads(s)
    <2>1. Len(s) <= Len(w)
      BY <1>1
    <2> QED
      BY <1>1, <1>2, <2>1, PartLoads
  <1>4. ASSUME NEW i \in 0..Len(s), NEW m PROVE DataAt(w, i, m) <=> DataAt(s, i, m)
    <2>1. i \in Int /\ \A j \in 1..i : w[j] = s[j]
      BY <1>1
    <2> QED
      BY <2>1, SameData
  <1>5. \A i \in 0..Len(s) : \E m \in 0..n : DataAt(s, i, m)
    BY <1>1, <1>2, <1>4
  <1> QED
    BY <1>3, <1>4, <1>5 DEF w

-----------------------------------------------------------------------------
(* The steps *)

(* The types, in the form the steps use *)
LEMMA TypeFacts ==
    ASSUME AofAssumption, TypeOK
    PROVE /\ MaxWrites \in Nat /\ Len(hist) \in Nat /\ Len(hist) \in 0..MaxWrites
          /\ file.items \in Seq(Item) /\ file.synced \in Nat /\ file.synced <= Len(file.items)
          /\ tmp.items \in Seq(Item) /\ Len(file.items) \in Nat
          /\ file.items \o buf \in Seq(Item) /\ tmp.items \o rwbuf \in Seq(Item)
          /\ acked \in Nat /\ acked <= Len(hist)
  <1>1. MaxWrites \in Nat /\ Len(hist) \in Nat /\ Len(hist) <= MaxWrites
    BY LenProperties DEF AofAssumption, TypeOK
  <1>2. file \in Inode /\ tmp \in Inode /\ buf \in Seq(Item) /\ rwbuf \in Seq(Item)
    BY DEF TypeOK
  <1>3. file.items \in Seq(Item) /\ file.synced \in Nat /\ tmp.items \in Seq(Item)
    BY <1>2 DEF Inode
  <1>4. file.items \o buf \in Seq(Item) /\ tmp.items \o rwbuf \in Seq(Item)
    BY <1>2, <1>3, ConcatProperties
  <1>5. Len(file.items) \in Nat
    BY <1>3, LenProperties
  <1>6. file.synced <= Len(file.items) /\ acked \in 0..Len(hist)
    BY DEF TypeOK
  <1> QED
    BY <1>1, <1>3, <1>4, <1>5, <1>6

(* A write command *)
LEMMA WriteStep ==
    ASSUME AofAssumption, AofInv, NEW d \in Dbs, WriteCommand(d)
    PROVE AofInv'
  <1> DEFINE n == Len(hist)
             fed == Fed(d, selected, n + 1)
  <1>0. TypeOK /\ child \in {"none", "running", "exited"} /\ handler = "none" /\ n < MaxWrites
    BY DEF AofInv, TypeOK, WriteCommand, Idle
  <1>1. /\ n \in Nat /\ n \in 0..MaxWrites /\ MaxWrites \in Nat
        /\ file.items \in Seq(Item) /\ tmp.items \in Seq(Item) /\ buf \in Seq(Item) /\ rwbuf \in Seq(Item)
        /\ acked \in 0..n
    BY <1>0, TypeFacts DEF TypeOK
  <1>2. hist' = Append(hist, d) /\ hist' \in Seq(Dbs) /\ Len(hist') = n + 1
    BY <1>0, AppendProperties DEF WriteCommand, TypeOK
  <1>3. /\ selected' = IF state = "off" THEN selected ELSE d
        /\ buf' = IF state = "on" THEN buf \o fed ELSE buf
        /\ rwbuf' = IF child # "none" /\ state # "off" THEN rwbuf \o fed
                    ELSE IF child # "none" THEN rwbuf \o << >> ELSE rwbuf
    BY <1>0 DEF WriteCommand, Fed
  <1>4. UNCHANGED <<policy, nofsync, state, file, child, tmp, handler, status, scheduled, alive, skipped, acked, spent>>
    BY DEF WriteCommand
  <1>5. fed \in Seq(Item)
    <2>1. n + 1 \in 0..MaxWrites
      BY <1>0, <1>1
    <2>2. Select(d) \in Item /\ Write(n + 1, d) \in Item
      BY <1>1, <2>1, ItemFacts
    <2>3. <<Select(d)>> \in Seq(Item) /\ <<Write(n + 1, d)>> \in Seq(Item) /\ << >> \in Seq(Item)
      BY <2>2, EmptySeq
    <2> QED
      BY <2>3, ConcatProperties DEF Fed
  <1>6. rwbuf \o << >> = rwbuf
    BY <1>1, ConcatEmptySeq
  <1>7. buf \o fed \in Seq(Item) /\ rwbuf \o fed \in Seq(Item)
    BY <1>1, <1>5, ConcatProperties
  <1>8. /\ file.items \o (buf \o fed) = (file.items \o buf) \o fed
        /\ tmp.items \o (rwbuf \o fed) = (tmp.items \o rwbuf) \o fed
    <2> HIDE DEF fed
    <2>1. file.items \o (buf \o fed) = (file.items \o buf) \o fed
      BY <1>1, <1>5, Regroup
    <2>2. tmp.items \o (rwbuf \o fed) = (tmp.items \o rwbuf) \o fed
      BY <1>1, <1>5, Regroup
    <2> QED
      BY <2>1, <2>2
  <1>9. ASSUME NEW s, WholeSelected(s, n, selected) PROVE WholeSelected(s \o fed, n + 1, d)
    BY <1>0, <1>1, <1>9, FedWhole
  <1> HIDE DEF fed
  <1>10. TypeOK'
    <2>1. buf' \in Seq(Item) /\ rwbuf' \in Seq(Item)
      BY <1>1, <1>3, <1>6, <1>7
    <2>2. selected' \in Dbs \cup {-1}
      BY <1>0, <1>3 DEF TypeOK
    <2>3. child' = "none" => rwbuf' = << >>
      BY <1>0, <1>3, <1>4 DEF TypeOK
    <2>4. acked' \in 0..Len(hist') /\ Len(hist') <= MaxWrites
      BY <1>0, <1>1, <1>2, <1>4
    <2> QED
      BY <1>0, <1>2, <1>4, <2>1, <2>2, <2>3, <2>4 DEF TypeOK
  <1>11. FileInv'
    <2> SUFFICES ASSUME state = "on" PROVE WholeSelected(file.items \o buf', n + 1, selected')
      BY <1>2, <1>4 DEF FileInv
    <2>1. WholeSelected(file.items \o buf, n, selected)
      BY <1>0 DEF AofInv, FileInv
    <2> QED
      BY <1>3, <1>8, <1>9, <2>1
  <1>12. RewriteInv'
    <2> SUFFICES ASSUME state # "off", child # "none" PROVE WholeSelected(tmp.items \o rwbuf', n + 1, selected')
      BY <1>0, <1>2, <1>4 DEF RewriteInv
    <2>1. WholeSelected(tmp.items \o rwbuf, n, selected)
      BY <1>0 DEF AofInv, RewriteInv
    <2> QED
      BY <1>3, <1>8, <1>9, <2>1
  <1>13. SyncInv'
    <2>1. SyncInv /\ \A m \in acked..n : m \in acked..n + 1
      BY <1>1 DEF AofInv
    <2> QED
      BY <1>2, <1>4, <2>1 DEF SyncInv
  <1>14. (handler # "none" => child = "exited")'
    BY <1>0, <1>4
  <1> QED
    BY <1>10, <1>11, <1>12, <1>13, <1>14 DEF AofInv

(* beforeSleep writes the buffer out. *)
LEMMA FlushStep ==
    ASSUME AofAssumption, AofInv, NEW saving \in BOOLEAN, Flush(saving)
    PROVE AofInv'
  <1> DEFINE items == file.items \o buf
  <1>0. TypeOK /\ handler = "none" /\ alive /\ file \in Inode /\ buf \in Seq(Item)
    BY DEF AofInv, TypeOK, Flush, Idle
  <1>1. /\ Len(hist) \in Nat /\ file.items \in Seq(Item) /\ items \in Seq(Item) /\ MaxWrites \in Nat
        /\ file.synced \in Nat /\ file.synced <= Len(file.items) /\ Len(file.items) \in Nat
        /\ acked \in 0..Len(hist)
    BY <1>0, TypeFacts
  <1>2. /\ buf' = << >> /\ acked' = (IF skipped' THEN acked ELSE Len(hist))
        /\ status' = (IF buf = << >> THEN status ELSE "ok")
        /\ UNCHANGED <<policy, nofsync, state, hist, selected, rwbuf, child, tmp, handler, scheduled, alive,
                       spent>>
    BY DEF Flush
  <1>3. file' = IF buf = << >> THEN file ELSE Written(saving)
    BY DEF Flush
  <1>4. Len(items) \in Nat /\ Len(items) = Len(file.items) + Len(buf) /\ Len(buf) \in Nat
    BY <1>0, <1>1, ConcatProperties, LenProperties
  <1>5. file' \in Inode /\ file'.items = items /\ file'.synced <= Len(items)
    <2>1. CASE buf = << >>
      <3>1. items = file.items
        BY <1>1, <2>1, ConcatEmptySeq
      <3> QED
        BY <1>0, <1>1, <1>3, <2>1, <3>1
    <2>2. CASE buf # << >>
      BY <1>1, <1>3, <1>4, <2>2 DEF Written, Inode
    <2> QED
      BY <2>1, <2>2
  <1>6. /\ skipped' \in BOOLEAN /\ acked' \in 0..Len(hist)
        /\ policy = "always" /\ state = "on" =>
             \/ file'.synced = Len(items)
             \/ skipped' /\ file'.synced = file.synced /\ acked' = acked
    <2>1. skipped' \in BOOLEAN
      BY <1>0, Zenon DEF Flush, TypeOK
    <2>2. acked' \in 0..Len(hist)
      BY <1>1, <1>2
    <2>3. ASSUME policy = "always", state = "on", ~skipped' PROVE file'.synced = Len(items)
      <3>1. CASE buf = << >>
        <4>1. items = file.items /\ ~skipped
          BY <1>1, <2>3, <3>1, ConcatEmptySeq DEF Flush
        <4> QED
          BY <1>0, <1>3, <2>3, <3>1, <4>1 DEF AofInv, SyncInv
      <3>2. CASE buf # << >>
        <4>1. ~SkipsFsync(saving)
          BY <2>3, <3>2, Zenon DEF Flush
        <4> QED
          BY <1>3, <2>3, <3>2, <4>1 DEF Written
      <3> QED
        BY <3>1, <3>2
    <2>4. ASSUME policy = "always", state = "on", skipped'
          PROVE file'.synced = file.synced \/ file'.synced = Len(items)
      BY <1>3, <1>4, <1>5, <2>4 DEF Written
    <2> QED
      BY <1>2, <2>1, <2>2, <2>3, <2>4
  <1>7. file'.items \o buf' = items
    BY <1>1, <1>2, <1>5, ConcatEmptySeq
  <1> HIDE DEF items
  <1>8. TypeOK'
    <2>1. buf' \in Seq(Item)
      BY <1>2, EmptySeq
    <2>2. acked' \in 0..Len(hist') /\ skipped' \in BOOLEAN /\ status' \in {"ok", "err"}
      BY <1>0, <1>1, <1>2, <1>6 DEF TypeOK
    <2> QED
      BY <1>0, <1>2, <1>5, <2>1, <2>2 DEF TypeOK
  <1>9. FileInv'
    BY <1>0, <1>2, <1>7 DEF AofInv, FileInv, items
  <1>10. RewriteInv'
    BY <1>0, <1>2 DEF AofInv, RewriteInv
  <1>11. SyncInv'
    <2> SUFFICES ASSUME policy = "always", state = "on"
                 PROVE /\ ~skipped' => file'.synced = Len(file'.items)
                       /\ \E m \in acked'..Len(hist) : DataAt(file'.items, file'.synced, m)
      BY <1>2 DEF SyncInv
    <2>1. CASE file'.synced = Len(items)
      <3>1. DataAt(items, Len(items), Len(hist))
        BY <1>0 DEF AofInv, FileInv, WholeSelected, Whole, items
      <3>2. Len(hist) \in acked'..Len(hist)
        BY <1>1, <1>6
      <3> QED
        BY <1>5, <2>1, <3>1, <3>2
    <2>2. CASE skipped' /\ file'.synced = file.synced /\ acked' = acked
      <3>1. PICK m \in acked..Len(hist) : DataAt(file.items, file.synced, m)
        BY <1>0 DEF AofInv, SyncInv
      <3>2. /\ file.synced \in Int
            /\ \A j \in 1..file.synced : items[j] = file.items[j]
        BY <1>0, <1>1, ConcatProperties DEF items
      <3>3. DataAt(items, file.synced, m)
        BY <3>1, <3>2, SameData
      <3> QED
        BY <1>5, <2>2, <3>1, <3>3
    <2> QED
      BY <1>6, <2>1, <2>2
  <1> QED
    BY <1>0, <1>2, <1>8, <1>9, <1>10, <1>11 DEF AofInv

(* A short write splits the buffer. *)
LEMMA BufferSplit ==
    ASSUME NEW b \in Seq(Item), NEW k \in 0..Len(b)
    PROVE /\ SubSeq(b, 1, k) \in Seq(Item) /\ SubSeq(b, k + 1, Len(b)) \in Seq(Item)
          /\ b = SubSeq(b, 1, k) \o SubSeq(b, k + 1, Len(b))
  <1> DEFINE s == SubSeq(b, 1, k)
             t == SubSeq(b, k + 1, Len(b))
  <1>1. Len(b) \in Nat /\ \A i \in 1..Len(b) : b[i] \in Item
    BY ElementOfSeq, LenProperties
  <1>2. s \in Seq(Item) /\ t \in Seq(Item)
    <2>1. \A i \in 1..k : b[i] \in Item
      BY <1>1
    <2>2. \A i \in k + 1..Len(b) : b[i] \in Item
      BY <1>1
    <2> QED
      BY <1>1, <2>1, <2>2, SubSeqProperties
  <1>3. s \o t = SubSeq(b, 1, Len(b))
    <2>1. 1 \in 1..Len(b) + 1 /\ k \in 1 - 1..Len(b) /\ Len(b) \in k..Len(b)
      BY <1>1
    <2> QED
      BY <2>1, ConcatAdjacentSubSeq
  <1>4. SubSeq(b, 1, Len(b)) = b
    BY SubSeqFull
  <1> QED
    BY <1>2, <1>3, <1>4

(* A write that fails, or falls short: the file and the buffer together    *)
(* are what they were.                                                     *)
LEMMA FlushErrorStep ==
    ASSUME AofAssumption, AofInv, NEW k \in 0..Len(buf), FlushError(k)
    PROVE AofInv'
  <1> DEFINE s == SubSeq(buf, 1, k)
             t == SubSeq(buf, k + 1, Len(buf))
  <1>0. TypeOK /\ handler = "none" /\ alive /\ file \in Inode /\ buf \in Seq(Item) /\ Len(buf) \in Nat
    BY LenProperties DEF AofInv, TypeOK, FlushError, Idle
  <1>1. /\ Len(hist) \in Nat /\ file.items \in Seq(Item) /\ MaxWrites \in Nat
        /\ file.synced \in Nat /\ file.synced <= Len(file.items) /\ Len(file.items) \in Nat
        /\ acked \in Nat /\ acked <= Len(hist)
    BY <1>0, TypeFacts
  <1>2. s \in Seq(Item) /\ t \in Seq(Item) /\ s \o t = buf
    BY <1>0, BufferSplit
  <1>3. /\ file' = [file EXCEPT !.items = file.items \o s] /\ buf' = t /\ status' = "err"
        /\ alive' = (policy # "always")
        /\ UNCHANGED <<policy, nofsync, state, hist, selected, rwbuf, child, tmp, handler, scheduled, skipped, acked>>
    BY <1>0 DEF FlushError
  <1> HIDE DEF s, t
  <1>4. /\ file.items \o s \in Seq(Item) /\ Len(file.items \o s) = Len(file.items) + Len(s) /\ Len(s) \in Nat
        /\ \A i \in 1..Len(file.items) : (file.items \o s)[i] = file.items[i]
    BY <1>1, <1>2, ConcatProperties, LenProperties
  <1>5. file' \in Inode /\ file'.items = file.items \o s /\ file'.synced = file.synced
    BY <1>0, <1>3, <1>4 DEF Inode
  <1>6. file'.items \o buf' = file.items \o buf
    <2>1. (file.items \o s) \o t = file.items \o (s \o t)
      BY <1>1, <1>2, Regroup
    <2> QED
      BY <1>2, <1>3, <1>5, <2>1
  <1>7. alive' \in BOOLEAN /\ (policy = "always" => ~alive')
    BY <1>3
  <1>8. TypeOK'
    <2>1. file'.synced <= Len(file'.items)
      BY <1>1, <1>4, <1>5
    <2> QED
      BY <1>0, <1>2, <1>3, <1>5, <1>7, <2>1 DEF TypeOK
  <1>9. FileInv' /\ RewriteInv'
    BY <1>0, <1>3, <1>6 DEF AofInv, FileInv, RewriteInv
  <1>10. SyncInv'
    <2> SUFFICES ASSUME policy = "always", state = "on"
                 PROVE \E m \in acked..Len(hist) : DataAt(file.items \o s, file.synced, m)
      BY <1>3, <1>5, <1>7 DEF SyncInv
    <2>1. PICK m \in acked..Len(hist) : DataAt(file.items, file.synced, m)
      BY <1>0 DEF AofInv, SyncInv
    <2>2. file.synced \in Int /\ \A j \in 1..file.synced : (file.items \o s)[j] = file.items[j]
      BY <1>1, <1>4
    <2> QED
      BY <2>1, <2>2, SameData
  <1> QED
    BY <1>0, <1>3, <1>8, <1>9, <1>10 DEF AofInv

(* Without a file nothing is written. *)
LEMMA FlushOffStep ==
    ASSUME AofAssumption, AofInv, FlushOff
    PROVE AofInv'
  <1>0. TypeOK /\ handler = "none" /\ state = "off" /\ Len(hist) \in Nat
    BY TypeFacts DEF AofInv, FlushOff, Idle
  <1>1. /\ status' = (IF buf = << >> THEN status ELSE "err") /\ acked' = Len(hist)
        /\ UNCHANGED <<policy, nofsync, state, hist, selected, buf, rwbuf, file, child, tmp, handler, scheduled,
                       skipped, spent>>
    BY DEF FlushOff
  <1>2. alive' \in BOOLEAN
    BY Zenon DEF FlushOff
  <1>3. TypeOK'
    <2>1. acked' \in 0..Len(hist') /\ status' \in {"ok", "err"}
      BY <1>0, <1>1 DEF TypeOK
    <2> QED
      BY <1>0, <1>1, <1>2, <2>1 DEF TypeOK
  <1> QED
    BY <1>0, <1>1, <1>3 DEF AofInv, FileInv, RewriteInv, SyncInv

LEMMA FsyncStep ==
    ASSUME AofAssumption, AofInv, BackgroundFsync
    PROVE AofInv'
  <1>0. TypeOK /\ handler # "switch" /\ alive /\ file \in Inode /\ file.synced < Len(file.items)
    BY DEF AofInv, TypeOK, BackgroundFsync
  <1>1. Len(file.items) \in Nat /\ file.synced \in Nat
    BY <1>0, TypeFacts
  <1>2. /\ file' = [file EXCEPT !.synced = Len(file.items)]
        /\ UNCHANGED <<policy, nofsync, state, hist, selected, buf, rwbuf, child, tmp, handler, status, scheduled,
                       alive, skipped, acked, spent>>
    BY DEF BackgroundFsync
  <1>3. file' \in Inode /\ file'.items = file.items /\ file'.synced = Len(file.items)
    BY <1>0, <1>1, <1>2 DEF Inode
  <1>4. ~(policy = "always" /\ state = "on")
    BY DEF BackgroundFsync
  <1>5. TypeOK'
    BY <1>0, <1>1, <1>2, <1>3 DEF TypeOK
  <1>6. FileInv' /\ RewriteInv' /\ SyncInv'
    BY <1>2, <1>3, <1>4 DEF AofInv, FileInv, RewriteInv, SyncInv
  <1> QED
    BY <1>2, <1>5, <1>6 DEF AofInv

(* A child is forked: its file is the data set of this moment. *)
LEMMA ForkFacts ==
    ASSUME AofAssumption, AofInv, Idle, Fork, UNCHANGED <<hist, rwbuf, handler>>
    PROVE /\ child' = "running" /\ scheduled' = FALSE /\ selected' = -1 /\ handler' = "none"
          /\ tmp' \in Inode /\ tmp'.synced <= Len(tmp'.items)
          /\ WholeSelected(tmp'.items \o rwbuf', Len(hist'), selected')
  <1> DEFINE s == <<Base(Len(hist))>>
  <1>1. TypeOK /\ rwbuf = << >> /\ handler = "none"
    BY DEF AofInv, TypeOK, Idle, Fork
  <1>2. Len(hist) \in 0..MaxWrites
    BY <1>1, TypeFacts
  <1>3. WholeSelected(s, Len(hist), -1)
    BY <1>2, BaseWhole
  <1>4. s \in Seq(Item)
    BY <1>3 DEF WholeSelected, Whole
  <1>5. Len(s) = 1
    OBVIOUS
  <1>6. tmp' = [items |-> s, synced |-> 1] /\ child' = "running" /\ scheduled' = FALSE /\ selected' = -1
    BY DEF Fork
  <1> HIDE DEF s
  <1>7. tmp' \in Inode /\ tmp'.items = s /\ tmp'.synced = 1
    BY <1>4, <1>6 DEF Inode
  <1>8. tmp'.items \o rwbuf' = s
    BY <1>1, <1>4, <1>7, ConcatEmptySeq
  <1> QED
    BY <1>1, <1>3, <1>5, <1>6, <1>7, <1>8

LEMMA StartRewriteStep ==
    ASSUME AofAssumption, AofInv, StartRewrite
    PROVE AofInv'
  <1>1. Idle /\ Fork /\ UNCHANGED <<policy, nofsync, state, hist, buf, rwbuf, file, handler, status, alive, skipped, acked>>
    BY DEF StartRewrite
  <1>2. /\ child' = "running" /\ scheduled' = FALSE /\ selected' = -1 /\ handler' = "none"
        /\ tmp' \in Inode /\ tmp'.synced <= Len(tmp'.items)
        /\ WholeSelected(tmp'.items \o rwbuf', Len(hist'), selected')
    BY <1>1, ForkFacts
  <1>3. TypeOK'
    BY <1>1, <1>2 DEF AofInv, TypeOK
  <1>4. FileInv'
    BY <1>1, <1>2 DEF AofInv, FileInv, WholeSelected, Idle
  <1>5. RewriteInv'
    BY <1>2 DEF RewriteInv
  <1>6. SyncInv'
    BY <1>1 DEF AofInv, SyncInv
  <1> QED
    BY <1>2, <1>3, <1>4, <1>5, <1>6 DEF AofInv

LEMMA StartStep ==
    ASSUME AofAssumption, AofInv, Start
    PROVE AofInv'
  <1>1. Idle /\ Fork /\ UNCHANGED <<policy, nofsync, hist, buf, rwbuf, file, handler, status, alive, skipped, acked>> /\ state' = "wait"
    BY DEF Start
  <1>2. /\ child' = "running" /\ scheduled' = FALSE /\ selected' = -1 /\ handler' = "none"
        /\ tmp' \in Inode /\ tmp'.synced <= Len(tmp'.items)
        /\ WholeSelected(tmp'.items \o rwbuf', Len(hist'), selected')
    BY <1>1, ForkFacts
  <1>3. TypeOK'
    BY <1>1, <1>2 DEF AofInv, TypeOK
  <1>4. FileInv' /\ RewriteInv' /\ SyncInv'
    BY <1>1, <1>2 DEF FileInv, RewriteInv, SyncInv
  <1> QED
    BY <1>2, <1>3, <1>4 DEF AofInv

(* The child exits, or the rewrite fails: the file is left alone. *)
LEMMA ChildStep ==
    ASSUME AofAssumption, AofInv, ChildExits \/ RewriteFails
    PROVE AofInv'
  <1>0. TypeOK /\ handler # "switch"
    BY DEF AofInv, TypeOK, ChildExits, RewriteFails
  <1>1. CASE ChildExits
    <2>1. /\ child = "running" /\ child' = "exited"
          /\ UNCHANGED <<policy, nofsync, state, hist, selected, buf, rwbuf, file, tmp, handler, status, scheduled,
                         alive, skipped, acked, spent>>
      BY <1>1 DEF ChildExits
    <2>2. TypeOK'
      BY <1>0, <2>1 DEF TypeOK
    <2> QED
      BY <2>1, <2>2 DEF AofInv, FileInv, RewriteInv, SyncInv
  <1>2. CASE RewriteFails
    <2>1. /\ rwbuf' = << >> /\ child' = "none" /\ tmp' = NoFile /\ handler' = "none"
          /\ UNCHANGED <<policy, nofsync, state, hist, selected, buf, file, status, alive, skipped, acked>>
      BY <1>2 DEF RewriteFails, Cleanup
    <2>2. scheduled' \in BOOLEAN
      BY <1>2, Zenon DEF RewriteFails
    <2>3. NoFile \in Inode /\ NoFile.synced <= Len(NoFile.items) /\ << >> \in Seq(Item)
      BY EmptySeq DEF NoFile, Inode
    <2>4. TypeOK'
      BY <1>0, <2>1, <2>2, <2>3 DEF TypeOK
    <2> QED
      BY <1>0, <2>1, <2>4 DEF AofInv, FileInv, RewriteInv, SyncInv
  <1> QED
    BY <1>1, <1>2

(* The difference goes into the new file. *)
LEMMA WriteDifferenceStep ==
    ASSUME AofAssumption, AofInv, WriteDifference
    PROVE AofInv'
  <1>0. TypeOK /\ tmp \in Inode /\ rwbuf \in Seq(Item) /\ handler = "none" /\ child = "exited"
    BY DEF AofInv, TypeOK, WriteDifference, Idle
  <1>1. /\ tmp' = [tmp EXCEPT !.items = tmp.items \o rwbuf] /\ handler' = "rename"
        /\ UNCHANGED <<policy, nofsync, state, hist, selected, buf, rwbuf, file, child, status, scheduled, alive,
                       skipped, acked, spent>>
    BY <1>0 DEF WriteDifference
  <1>2. tmp.items \in Seq(Item) /\ tmp.items \o rwbuf \in Seq(Item)
    BY <1>0, TypeFacts
  <1>3. tmp' \in Inode /\ tmp'.items = tmp.items \o rwbuf /\ tmp'.synced = tmp.synced
    BY <1>0, <1>1, <1>2 DEF Inode
  <1>4. tmp'.synced <= Len(tmp'.items)
    <2>1. /\ Len(tmp.items \o rwbuf) = Len(tmp.items) + Len(rwbuf)
          /\ Len(tmp.items) \in Nat /\ Len(rwbuf) \in Nat
      BY <1>0, <1>2, ConcatProperties, LenProperties
    <2>2. tmp.synced \in Nat /\ tmp.synced <= Len(tmp.items)
      BY <1>0 DEF TypeOK, Inode
    <2> QED
      BY <1>3, <2>1, <2>2
  <1>5. TypeOK'
    BY <1>0, <1>1, <1>3, <1>4 DEF TypeOK
  <1>6. RewriteInv'
    BY <1>0, <1>1, <1>3 DEF AofInv, RewriteInv, WholeSelected
  <1>7. FileInv' /\ SyncInv'
    BY <1>0, <1>1 DEF AofInv, FileInv, SyncInv
  <1> QED
    BY <1>0, <1>1, <1>5, <1>6, <1>7 DEF AofInv

(* The new file gets the name ... *)
LEMMA RenameStep ==
    ASSUME AofAssumption, AofInv, RenameFile
    PROVE AofInv'
  <1>0. TypeOK /\ handler = "rename" /\ child = "exited"
    BY DEF AofInv, RenameFile
  <1>1. /\ file' = tmp /\ handler' = "switch"
        /\ UNCHANGED <<policy, nofsync, state, hist, selected, buf, rwbuf, child, tmp, status, scheduled, alive,
                       skipped, acked, spent>>
    BY DEF RenameFile
  <1>2. TypeOK'
    BY <1>0, <1>1 DEF TypeOK
  <1>3. FileInv' /\ RewriteInv' /\ SyncInv'
    BY <1>0, <1>1 DEF AofInv, FileInv, RewriteInv, SyncInv
  <1> QED
    BY <1>0, <1>1, <1>2, <1>3 DEF AofInv

(* ... and takes over. *)
LEMMA SwitchStep ==
    ASSUME AofAssumption, AofInv, SwitchFile
    PROVE AofInv'
  <1>0. TypeOK /\ handler = "switch" /\ child = "exited" /\ file \in Inode
    BY DEF AofInv, TypeOK, SwitchFile
  <1>1. /\ rwbuf' = << >> /\ child' = "none" /\ tmp' = NoFile /\ handler' = "none"
        /\ buf' = (IF state = "off" THEN buf ELSE << >>)
        /\ selected' = (IF state = "off" THEN selected ELSE -1)
        /\ state' = (IF state = "wait" THEN "on" ELSE state)
        /\ UNCHANGED <<policy, nofsync, hist, status, scheduled, alive, acked, spent>>
    BY DEF SwitchFile, Cleanup, SwitchBuffer
  <1>2. file' = IF state # "off" /\ policy = "always" THEN [file EXCEPT !.synced = Len(file.items)] ELSE file
    BY DEF SwitchFile
  <1>3. /\ file.items \in Seq(Item) /\ Len(file.items) \in Nat /\ file.synced \in Nat
        /\ file.synced <= Len(file.items) /\ Len(hist) \in Nat /\ acked \in Nat /\ acked <= Len(hist)
    BY <1>0, TypeFacts
  <1>4. /\ file' \in Inode /\ file'.items = file.items /\ file'.synced <= Len(file.items)
        /\ state # "off" /\ policy = "always" => file'.synced = Len(file.items)
    BY <1>0, <1>2, <1>3 DEF Inode
  <1>5. NoFile \in Inode /\ NoFile.synced <= Len(NoFile.items) /\ << >> \in Seq(Item)
    BY EmptySeq DEF NoFile, Inode
  <1>6. TypeOK'
    <2>1. skipped' \in BOOLEAN
      BY Zenon DEF SwitchFile
    <2> QED
      BY <1>0, <1>1, <1>4, <1>5, <2>1 DEF TypeOK
  <1>7. state # "off" => Whole(file.items, Len(hist))
    BY <1>0 DEF AofInv, RewriteInv
  <1>8. state' = "on" => state # "off"
    BY <1>1
  <1>9. FileInv'
    <2>1. file.items \o << >> = file.items
      BY <1>3, ConcatEmptySeq
    <2> QED
      BY <1>1, <1>4, <1>7, <1>8, <2>1 DEF FileInv, WholeSelected
  <1>10. RewriteInv'
    BY <1>1 DEF RewriteInv
  <1>11. SyncInv'
    <2> SUFFICES ASSUME policy = "always", state # "off"
                 PROVE \E m \in acked..Len(hist) : DataAt(file.items, Len(file.items), m)
      BY <1>1, <1>4, <1>8 DEF SyncInv
    <2>1. Len(hist) \in acked..Len(hist)
      BY <1>3
    <2> QED
      BY <1>7, <2>1 DEF Whole
  <1> QED
    BY <1>1, <1>6, <1>9, <1>10, <1>11 DEF AofInv

(* The AOF is switched off. *)
LEMMA StopStep ==
    ASSUME AofAssumption, AofInv, NEW fails \in BOOLEAN, Stop(fails)
    PROVE AofInv'
  <1> DEFINE items == IF fails THEN file.items ELSE file.items \o buf
  <1>0. TypeOK /\ handler = "none"
    BY DEF AofInv, Stop, Idle
  <1>1. /\ file' = [items |-> items, synced |-> Len(items)]
        /\ buf' = (IF fails THEN buf ELSE << >>)
        /\ status' = (IF fails THEN "err" ELSE IF buf = << >> THEN status ELSE "ok")
        /\ selected' = -1 /\ state' = "off" /\ rwbuf' = << >> /\ child' = "none" /\ tmp' = NoFile
        /\ UNCHANGED <<policy, nofsync, hist, handler, scheduled, alive, acked>> /\ skipped' = FALSE
    BY DEF Stop
  <1>2. items \in Seq(Item)
    BY <1>0, TypeFacts
  <1> HIDE DEF items
  <1>3. Len(items) \in Nat
    BY <1>2, LenProperties
  <1>4. file' \in Inode /\ file'.items = items /\ file'.synced = Len(items)
    BY <1>1, <1>2, <1>3 DEF Inode
  <1>5. NoFile \in Inode /\ NoFile.synced <= Len(NoFile.items) /\ << >> \in Seq(Item)
    BY EmptySeq DEF NoFile, Inode
  <1>6. TypeOK'
    <2>1. skipped' \in BOOLEAN
      BY <1>1
    <2>2. UNCHANGED <<policy, nofsync, hist, handler, scheduled, alive, acked>>
      BY <1>1
    <2>3. status' \in {"ok", "err"} /\ buf' \in Seq(Item)
      BY <1>0, <1>1, <1>5 DEF TypeOK
    <2>4. policy' \in Policies /\ nofsync' \in NoFsync /\ scheduled' \in BOOLEAN /\ alive' \in BOOLEAN
      BY <1>0, <2>2 DEF TypeOK
    <2> QED
      BY <1>0, <1>1, <1>3, <1>4, <1>5, <2>1, <2>2, <2>3, <2>4 DEF TypeOK
  <1>7. FileInv' /\ RewriteInv' /\ SyncInv'
    BY <1>1 DEF FileInv, RewriteInv, SyncInv
  <1> QED
    BY <1>0, <1>1, <1>6, <1>7 DEF AofInv

-----------------------------------------------------------------------------
LEMMA AofInit ==
    ASSUME AofAssumption
    PROVE Init => AofInv
  <1> SUFFICES ASSUME Init PROVE AofInv
    OBVIOUS
  <1>1. /\ state = "on" /\ hist = << >> /\ selected = -1 /\ buf = << >> /\ rwbuf = << >>
        /\ file = NoFile /\ tmp = NoFile /\ child = "none" /\ handler = "none" /\ status = "ok"
        /\ acked = 0 /\ policy \in Policies /\ nofsync \in NoFsync
    BY DEF Init
  <1>2. scheduled \in BOOLEAN /\ alive \in BOOLEAN /\ skipped \in BOOLEAN
    BY Zenon DEF Init
  <1>3. /\ NoFile \in Inode /\ NoFile.items = << >> /\ NoFile.synced = 0
        /\ << >> \in Seq(Item) /\ << >> \in Seq(Dbs) /\ Len(<< >>) = 0
    BY EmptySeq DEF NoFile, Inode
  <1>4. MaxWrites \in Nat
    BY DEF AofAssumption
  <1>5. TypeOK
    BY <1>1, <1>2, <1>3, <1>4 DEF TypeOK
  <1>6. file.items \o buf = << >>
    BY <1>1, <1>3, ConcatEmptySeq
  <1>7. FileInv
    BY <1>1, <1>3, <1>6, EmptyWhole DEF FileInv
  <1>8. DataAt(<< >>, 0, 0)
    BY <1>3, EmptyWhole DEF WholeSelected, Whole
  <1>9. SyncInv
    BY <1>1, <1>3, <1>8 DEF SyncInv
  <1> QED
    BY <1>1, <1>5, <1>7, <1>9 DEF AofInv, RewriteInv

LEMMA AofStep ==
    ASSUME AofAssumption, AofInv, [Next]_vars
    PROVE AofInv'
  <1>1. CASE UNCHANGED vars
    BY <1>1 DEF vars, AofInv, TypeOK, FileInv, RewriteInv, SyncInv
  <1>2. CASE Next
    BY <1>2, WriteStep, FlushStep, FlushErrorStep, FlushOffStep, FsyncStep, StartRewriteStep, StartStep,
       ChildStep, WriteDifferenceStep, RenameStep, SwitchStep, StopStep DEF Next, Rewriting, FlushAny
  <1> QED
    BY <1>1, <1>2

(* For any number of writes, databases, rewrites, errors and switches:     *)
(* while the AOF is on, what flushAppendOnlyFile wrote and will write      *)
(* loads to the whole data set, each write once and in its database.       *)
THEOREM FileIsComplete ==
    ASSUME AofAssumption
    PROVE Spec => []FileComplete
  <1>1. Init => AofInv
    BY AofInit
  <1>2. AofInv /\ [Next]_vars => AofInv'
    BY AofStep
  <1>3. AofInv => FileComplete
    BY DEF AofInv, FileInv, WholeSelected, Whole, FileComplete, Idle
  <1> QED
    BY <1>1, <1>2, <1>3, PTL DEF Spec

(* With appendfsync always the contract of aof.c is kept: what is synced   *)
(* loads to every acknowledged write, but for the moment in which          *)
(* backgroundRewriteDoneHandler has renamed the new file and not synced it *)
(* and for what is acknowledged while flushAppendOnlyFile leaves out the   *)
(* fsync, as no-appendfsync-on-rewrite tells it, until the next one.       *)
THEOREM AckedAreDurable ==
    ASSUME AofAssumption
    PROVE Spec => []AckedIsDurable
  <1>1. Init => AofInv
    BY AofInit
  <1>2. AofInv /\ [Next]_vars => AofInv'
    BY AofStep
  <1>3. AofInv => AckedIsDurable
    <2> SUFFICES ASSUME AofInv, policy = "always", state = "on", handler # "switch"
                 PROVE \E n \in acked..MaxWrites : DataAt(file.items, file.synced, n)
      BY DEF AckedIsDurable
    <2>1. PICK n \in acked..Len(hist) : DataAt(file.items, file.synced, n)
      BY DEF AofInv, SyncInv
    <2>2. n \in acked..MaxWrites
      <3>1. acked \in Nat /\ Len(hist) \in 0..MaxWrites /\ MaxWrites \in Nat
        BY TypeFacts DEF AofInv
      <3> QED
        BY <3>1
    <2> QED
      BY <2>1, <2>2
  <1> QED
    BY <1>1, <1>2, <1>3, PTL DEF Spec

(* Every step keeps the file loading, and to no older data set. *)
LEMMA AofKeepsData ==
    ASSUME AofAssumption, AofInv, AofInv', [Next]_vars
    PROVE FileKeepsDataStep
  <1> SUFFICES ASSUME state = "on", state' = "on"
               PROVE /\ Loads(file'.items)
                     /\ \E n, m \in 0..MaxWrites : /\ DataAt(file.items, Len(file.items), n)
                                                  /\ DataAt(file'.items, Len(file'.items), m) /\ m >= n
    BY DEF FileKeepsDataStep
  <1>0. /\ MaxWrites \in Nat /\ Len(hist) \in Nat /\ Len(hist) \in 0..MaxWrites /\ file.items \in Seq(Item)
        /\ buf \in Seq(Item) /\ Len(file.items) \in Nat
    BY TypeFacts DEF AofInv, TypeOK
  <1>1. PICK n \in 0..Len(hist) : DataAt(file.items, Len(file.items), n) /\ Loads(file.items)
    <2>1. CASE handler = "switch"
      <3>1. Whole(file.items, Len(hist))
        BY <2>1 DEF AofInv, RewriteInv
      <3>2. Len(file.items) \in 0..Len(file.items)
        BY <1>0
      <3> QED
        BY <3>1, <3>2 DEF Whole
    <2>2. CASE handler # "switch"
      <3>1. Whole(file.items \o buf, Len(hist))
        BY <2>2 DEF AofInv, FileInv, WholeSelected
      <3>2. Len(file.items) \in 0..Len(file.items)
        BY <1>0
      <3> QED
        BY <1>0, <3>1, <3>2, FilePart
    <2> QED
      BY <2>1, <2>2
  <1>2. n \in 0..MaxWrites
    BY <1>0
  <1>3. CASE file'.items = file.items
    BY <1>1, <1>2, <1>3
  <1>4. CASE RenameFile
    <2>1. Whole(tmp.items, Len(hist)) /\ file' = tmp
      BY <1>4 DEF AofInv, RewriteInv, RenameFile
    <2>2. Loads(file'.items) /\ DataAt(file'.items, Len(file'.items), Len(hist)) /\ Len(hist) >= n
      BY <1>0, <2>1 DEF Whole
    <2> QED
      BY <1>0, <1>1, <1>2, <2>2
  <1>5. CASE /\ handler = "none" /\ \E s \in Seq(Item), t \in Seq(Item) :
                  buf = s \o t /\ file'.items = file.items \o s
    <2>1. PICK s \in Seq(Item), t \in Seq(Item) : buf = s \o t /\ file'.items = file.items \o s
      BY <1>5
    <2> DEFINE g == file.items \o s
    <2>2. g \in Seq(Item) /\ Len(g) = Len(file.items) + Len(s) /\ Len(s) \in Nat /\ Len(g) \in Nat
      BY <1>0, ConcatProperties, LenProperties
    <2> DEFINE w == file.items \o buf
    <2>3. w = g \o t
      BY <1>0, <2>1, Regroup
    <2>4. /\ Whole(w, Len(hist))
           /\ \A i \in 0..Len(file.items) : \A l : DataAt(w, i, l) <=> DataAt(file.items, i, l)
      <3>1. Whole(w, Len(hist))
        BY <1>5 DEF AofInv, FileInv, WholeSelected
      <3> QED
        BY <1>0, <3>1, FilePart
    <2> HIDE DEF g, w
    <2>5. /\ Loads(g) /\ \E m \in 0..Len(hist) : DataAt(g, Len(g), m)
          /\ \A i \in 0..Len(g) : \A m : DataAt(w, i, m) <=> DataAt(g, i, m)
      <3>1. Len(g) \in 0..Len(g) /\ Whole(g \o t, Len(hist))
        BY <2>2, <2>3, <2>4
      <3> QED
        BY <1>0, <2>2, <2>3, <3>1, FilePart
    <2>6. PICK m \in 0..Len(hist) : DataAt(g, Len(g), m)
      BY <2>5
    <2>7. DataAt(w, Len(g), m) /\ DataAt(w, Len(file.items), n)
      <3>1. Len(g) \in 0..Len(g) /\ Len(file.items) \in 0..Len(file.items)
        BY <1>0, <2>2
      <3> QED
        BY <1>1, <2>5, <2>6, <2>4, <3>1
    <2>8. Len(g) <= Len(w) /\ Len(w) \in Nat
      <3>1. Len(w) = Len(g) + Len(t) /\ Len(t) \in Nat
        BY <2>2, <2>3, ConcatProperties, LenProperties
      <3> QED
        BY <2>2, <3>1
    <2>9. n <= m
      <3>1. Len(file.items) \in 0..Len(w) /\ Len(g) \in Len(file.items)..Len(w)
        BY <1>0, <2>2, <2>8
      <3> QED
        BY <1>0, <2>7, <2>4, <3>1, DataGrows
    <2>10. m \in 0..MaxWrites /\ m >= n
      BY <1>0, <2>9
    <2> QED
      BY <1>1, <1>2, <2>1, <2>5, <2>6, <2>10 DEF g
  <1>6. CASE FlushAny
    <2>1. handler = "none" /\ file'.items = file.items \o buf
      <3>1. file.items \o << >> = file.items
        BY <1>0, ConcatEmptySeq
      <3>2. PICK saving \in BOOLEAN : Flush(saving)
        BY <1>6 DEF FlushAny
      <3>3. handler = "none" /\ file' = IF buf = << >> THEN file ELSE Written(saving)
        BY <3>2 DEF Flush, Idle
      <3>4. Written(saving).items = file.items \o buf
        BY DEF Written
      <3> QED
        BY <3>1, <3>3, <3>4
    <2>2. buf = buf \o << >> /\ << >> \in Seq(Item)
      BY <1>0, ConcatEmptySeq, EmptySeq
    <2> QED
      BY <1>0, <1>5, <2>1, <2>2
  <1>7. ASSUME NEW k \in 0..Len(buf), FlushError(k)
        PROVE /\ handler = "none" /\ \E s \in Seq(Item), t \in Seq(Item) :
                  buf = s \o t /\ file'.items = file.items \o s
    <2> DEFINE s == SubSeq(buf, 1, k)
               t == SubSeq(buf, k + 1, Len(buf))
    <2>1. s \in Seq(Item) /\ t \in Seq(Item) /\ buf = s \o t
      BY <1>0, <1>7, BufferSplit
    <2> HIDE DEF t
    <2>2. file \in Inode
      BY DEF AofInv, TypeOK
    <2>3. handler = "none" /\ file'.items = file.items \o s
      BY <1>7, <2>2 DEF FlushError, Idle, Inode
    <2> HIDE DEF s
    <2> QED
      BY <2>1, <2>3
  <1>8. file'.items = file.items \/ RenameFile \/ FlushAny \/ \E k \in 0..Len(buf) : FlushError(k)
    <2>1. file \in Inode
      BY DEF AofInv, TypeOK
    <2>2. ASSUME BackgroundFsync \/ SwitchFile PROVE file'.items = file.items
      BY <2>1, <2>2 DEF BackgroundFsync, SwitchFile, Inode
    <2>3. \A fails \in BOOLEAN : ~Stop(fails)
      BY DEF Stop
    <2> QED
      BY <2>2, <2>3 DEF vars, Next, Rewriting, WriteCommand, FlushOff, StartRewrite, RewriteFails, ChildExits,
         WriteDifference, Start
  <1> QED
    BY <1>3, <1>4, <1>5, <1>6, <1>7, <1>8

(* While the AOF is on the file loads, to a data set it never goes back    *)
(* from: neither a short write of flushAppendOnlyFile nor the rename of    *)
(* backgroundRewriteDoneHandler loses what was written or loads it twice.  *)
THEOREM FileKeepsItsData ==
    ASSUME AofAssumption
    PROVE Spec => [][FileKeepsDataStep]_vars
  <1>1. Init => AofInv
    BY AofInit
  <1>2. AofInv /\ [Next]_vars => AofInv'
    BY AofStep
  <1>3. AofInv /\ AofInv' /\ [Next]_vars => FileKeepsDataStep
    BY AofKeepsData
  <1> QED
    BY <1>1, <1>2, <1>3, PTL DEF Spec
-----------------------------------------------------------------------------
(* The snapshots *)

Child == [st : {"none", "saving", "renamed", "failed", "killed"}, v : Int]

SnapshotType ==
    /\ up \in BOOLEAN /\ ok \in BOOLEAN /\ overtaken \in BOOLEAN
    /\ data \in Int /\ rdb \in Int /\ dirty \in Int /\ before \in Int /\ orphan \in Int
    /\ bgsave \in Child

(* While the server is up and nobody overtook its child: the file is not   *)
(* newer than the data; what was executed since the fork is still counted  *)
(* when dirty_before_bgsave is taken off; a child that saves will not take *)
(* the file back, and one that renamed its file did not.                   *)
UpInv ==
    /\ dirty >= 0 /\ before >= 0
    /\ rdb <= data /\ data - rdb <= dirty
    /\ bgsave.st \in {"saving", "renamed"} => bgsave.v <= data /\ data - bgsave.v <= dirty - before
    /\ bgsave.st = "saving" => rdb <= bgsave.v
    /\ bgsave.st = "renamed" => bgsave.v <= rdb

SnapshotInv ==
    /\ SnapshotType
    /\ ~up => bgsave.st # "saving"
    /\ up /\ ~overtaken => UpInv

-----------------------------------------------------------------------------
LEMMA SnapshotInit == S!Init => SnapshotInv
  <1> SUFFICES ASSUME S!Init PROVE SnapshotInv
    OBVIOUS
  <1>1. up \in BOOLEAN /\ ok \in BOOLEAN /\ overtaken \in BOOLEAN /\ up
    BY Zenon DEF S!Init
  <1>2. bgsave \in Child /\ bgsave.st = "none"
    BY DEF S!Init, S!NoChild, Child
  <1>3. data = 0 /\ rdb = 0 /\ dirty = 0 /\ before = 0 /\ orphan = -1
    BY DEF S!Init, S!NoOrphan
  <1> QED
    BY <1>1, <1>2, <1>3 DEF SnapshotInv, SnapshotType, UpInv

(* What kill does to the child: a child that saved saves no more. *)
LEMMA KilledFacts ==
    ASSUME bgsave \in Child, S!Killed
    PROVE /\ bgsave' \in Child /\ bgsave'.v = bgsave.v /\ bgsave'.st # "saving"
          /\ bgsave'.st = "renamed" => bgsave.st = "renamed"
  BY DEF S!Killed, Child

LEMMA SnapshotTypeStep ==
    ASSUME SnapshotInv, S!Next
    PROVE SnapshotType'
  <1> USE DEF SnapshotInv, SnapshotType
  <1>1. up' \in BOOLEAN /\ ok' \in BOOLEAN /\ overtaken' \in BOOLEAN
    BY Zenon DEF S!Next, S!Write, S!SaveCommand, S!RdbSave, S!RdbSaveFails, S!DebugReload, S!BgsaveCommand,
       S!RdbSaveBackground, S!CronSave, S!ChildRename, S!ChildFails, S!CronWait, S!DoneHandler, S!FlushAll, S!Shutdown,
       S!Crash, S!OrphanRename, S!Restart, S!FullSync, S!Age, S!RetryDelay, S!Rewrite, S!RewriteDone
  <1>2. bgsave' \in Child
    <2>1. S!Killed => bgsave' \in Child
      BY KilledFacts
    <2>2. S!NoChild \in Child
      BY DEF S!NoChild, Child
    <2>3. S!RdbSaveBackground => bgsave' \in Child
      BY DEF S!RdbSaveBackground, Child
    <2>4. S!ChildRename \/ S!ChildFails => bgsave' \in Child
      BY DEF S!ChildRename, S!ChildFails, Child
    <2> QED
      BY <2>1, <2>2, <2>3, <2>4 DEF S!Next, S!Write, S!SaveCommand, S!DebugReload, S!BgsaveCommand, S!CronSave,
         S!CronWait, S!FlushAll, S!Shutdown, S!Crash, S!OrphanRename, S!Restart, S!FullSync, S!Age, S!RetryDelay,
         S!Rewrite, S!RewriteDone
  <1>3. bgsave.v \in Int
    BY DEF Child
  <1>4. data' \in Int /\ before' \in Int
    BY DEF S!Next, S!Write, S!SaveCommand, S!RdbSave, S!RdbSaveFails, S!DebugReload, S!BgsaveCommand,
       S!RdbSaveBackground, S!CronSave, S!ChildRename, S!ChildFails, S!CronWait, S!FlushAll, S!Shutdown, S!Crash,
       S!OrphanRename, S!Restart, S!FullSync, S!Age, S!RetryDelay, S!Rewrite, S!RewriteDone
  <1>5. dirty' \in Int
    <2>1. dirty' \in {dirty, dirty + 1, dirty - before, 0}
      BY Zenon DEF S!Next, S!Write, S!SaveCommand, S!RdbSave, S!RdbSaveFails, S!DebugReload, S!BgsaveCommand,
         S!RdbSaveBackground, S!CronSave, S!ChildRename, S!ChildFails, S!CronWait, S!DoneHandler, S!FlushAll, S!Shutdown,
         S!Crash, S!OrphanRename, S!Restart, S!FullSync, S!Age, S!RetryDelay, S!Rewrite, S!RewriteDone
    <2> QED
      BY <2>1
  <1>6. rdb' \in Int
    BY <1>3, <1>4 DEF S!Next, S!Write, S!SaveCommand, S!RdbSave, S!RdbSaveFails, S!DebugReload, S!BgsaveCommand,
       S!RdbSaveBackground, S!CronSave, S!ChildRename, S!ChildFails, S!CronWait, S!FlushAll, S!Shutdown,
       S!Crash, S!OrphanRename, S!Restart, S!FullSync, S!Age, S!RetryDelay, S!Rewrite, S!RewriteDone
  <1>7. orphan' \in Int
    BY <1>3 DEF S!Next, S!Write, S!SaveCommand, S!DebugReload, S!BgsaveCommand,
       S!RdbSaveBackground, S!CronSave, S!ChildRename, S!ChildFails, S!CronWait, S!FlushAll, S!Shutdown,
       S!Crash, S!OrphanRename, S!Restart, S!FullSync, S!Age, S!RetryDelay, S!Rewrite, S!RewriteDone, S!NoOrphan
  <1> QED
    BY <1>1, <1>2, <1>4, <1>5, <1>6, <1>7


-----------------------------------------------------------------------------
(* One step, for each action: the invariant is kept, and the file does not *)
(* go back.                                                                *)
LEMMA SnapshotStep ==
    ASSUME SnapshotInv, S!Next
    PROVE SnapshotInv' /\ S!FileNeverBackStep
  <1>1. SnapshotType /\ SnapshotType'
    BY SnapshotTypeStep DEF SnapshotInv
  <1>2. SUFFICES /\ ~up' => bgsave'.st # "saving"
                 /\ up' /\ ~overtaken' => UpInv'
                 /\ S!FileNeverBackStep
    BY <1>1 DEF SnapshotInv
  <1>3. /\ bgsave.st \in {"none", "saving", "renamed", "failed", "killed"} /\ bgsave.v \in Int
        /\ bgsave'.v \in Int
    BY <1>1 DEF SnapshotType, Child
  <1> DEFINE Goal == /\ ~up' => bgsave'.st # "saving"
                     /\ up' /\ ~overtaken' => UpInv'
                     /\ S!FileNeverBackStep
  <1>4. ASSUME up, overtaken => overtaken', UpInv => rdb' >= rdb /\ (up' => UpInv'),
                ~up' => bgsave'.st # "saving"
         PROVE Goal
    BY <1>4, Zenon DEF S!FileNeverBackStep, SnapshotInv
  <1>5. /\ data \in Int /\ rdb \in Int /\ dirty \in Int /\ before \in Int
         /\ data' \in Int /\ rdb' \in Int /\ dirty' \in Int /\ before' \in Int
    BY <1>1 DEF SnapshotType
  <1> HIDE DEF Goal
  <1>6. SUFFICES Goal
    BY DEF Goal
  <1>7. CASE S!Write
    BY <1>1, <1>3, <1>7 DEF SnapshotInv, SnapshotType, UpInv, S!FileNeverBackStep, Goal, S!Write
  <1>8. CASE S!SaveCommand
    <2>1. up /\ up' /\ bgsave.st = "none" /\ bgsave' = bgsave /\ UNCHANGED <<data, before>>
      BY <1>8 DEF S!SaveCommand, S!Saving
    <2>2. overtaken => overtaken'
      BY <1>8 DEF S!SaveCommand
    <2>3. (rdb' = data /\ dirty' = 0) \/ (rdb' = rdb /\ dirty' = dirty)
      BY <1>8, Zenon DEF S!SaveCommand, S!RdbSave, S!RdbSaveFails
    <2>4. ASSUME UpInv PROVE rdb' >= rdb /\ UpInv'
      <3>1. CASE rdb' = data /\ dirty' = 0
        BY <1>5, <2>1, <2>4, <3>1 DEF UpInv
      <3>2. CASE rdb' = rdb /\ dirty' = dirty
        BY <1>5, <2>1, <2>4, <3>2 DEF UpInv
      <3> QED
        BY <2>3, <3>1, <3>2
    <2> QED
      BY <1>4, <2>1, <2>2, <2>3, <2>4
  <1>9. CASE S!DebugReload
    BY <1>1, <1>3, <1>9 DEF SnapshotInv, SnapshotType, UpInv, S!FileNeverBackStep, Goal, S!DebugReload
  <1>10. CASE S!BgsaveCommand \/ S!CronSave
    <2>1. up /\ bgsave.st = "none" /\ S!RdbSaveBackground
      BY <1>10 DEF S!BgsaveCommand, S!CronSave, S!Saving
    <2>2. UNCHANGED <<up, data, rdb, dirty, overtaken>> /\ before' = dirty
      BY <2>1 DEF S!RdbSaveBackground
    <2>3. bgsave' = bgsave \/ (bgsave'.st = "saving" /\ bgsave'.v = data)
      BY <2>1 DEF S!RdbSaveBackground
    <2> QED
      BY <1>1, <1>3, <2>1, <2>2, <2>3 DEF SnapshotInv, SnapshotType, UpInv, S!FileNeverBackStep, Goal
  <1>11. CASE S!ChildRename
    <2>1. bgsave'.st = "renamed" /\ bgsave'.v = bgsave.v /\ rdb' = bgsave.v
      BY <1>1, <1>11 DEF S!ChildRename, Child
    <2>2. bgsave.st = "saving" /\ UNCHANGED <<up, data, dirty, before, overtaken>>
      BY <1>11 DEF S!ChildRename
    <2> QED
      BY <1>1, <1>3, <2>1, <2>2 DEF SnapshotInv, SnapshotType, UpInv, S!FileNeverBackStep, Goal
  <1>12. CASE S!ChildFails
    <2>1. bgsave'.st = "failed"
      BY <1>1, <1>12 DEF S!ChildFails, Child
    <2>2. UNCHANGED <<up, data, rdb, dirty, before, overtaken>>
      BY <1>12 DEF S!ChildFails
    <2> QED
      BY <1>1, <1>3, <2>1, <2>2 DEF SnapshotInv, SnapshotType, UpInv, S!FileNeverBackStep, Goal
  <1>13. CASE S!CronWait
    <2>1. bgsave'.st = "none" /\ UNCHANGED <<up, data, rdb, before, overtaken>>
      BY <1>13 DEF S!CronWait, S!NoChild
    <2>2. dirty' = IF bgsave.st = "renamed" THEN dirty - before ELSE dirty
      BY <1>13 DEF S!CronWait, S!DoneHandler
    <2> QED
      BY <1>1, <1>3, <2>1, <2>2 DEF SnapshotInv, SnapshotType, UpInv, S!FileNeverBackStep, Goal
  <1>14. CASE S!FlushAll
    <2>1. /\ bgsave'.v = bgsave.v /\ bgsave'.st # "saving"
          /\ bgsave'.st = "renamed" => bgsave.st = "renamed"
      BY <1>1, <1>14, KilledFacts DEF S!FlushAll, SnapshotType
    <2>2. /\ data' = data + 1 /\ dirty' = dirty + 1
          /\ rdb' = data' \/ rdb' = rdb
      BY <1>14, Zenon DEF S!FlushAll
    <2>3. up /\ up' /\ (overtaken => overtaken') /\ before' = before
      BY <1>14 DEF S!FlushAll
    <2>4. UpInv => rdb' >= rdb /\ UpInv'
      <3>1. before' = before
        BY <2>3
      <3>2. CASE rdb' = data'
        BY <1>3, <1>5, <2>1, <2>2, <3>1, <3>2 DEF UpInv
      <3>3. CASE rdb' = rdb
        BY <1>3, <1>5, <2>1, <2>2, <3>1, <3>3 DEF UpInv
      <3> QED
        BY <2>2, <3>2, <3>3
    <2> QED
      BY <1>4, <2>1, <2>2, <2>3, <2>4
  <1>15. CASE S!Shutdown
    <2>1. /\ bgsave'.v = bgsave.v /\ bgsave'.st # "saving"
          /\ bgsave'.st = "renamed" => bgsave.st = "renamed"
      BY <1>1, <1>15, KilledFacts DEF S!Shutdown, SnapshotType
    <2>2. (rdb' = data /\ ~up') \/ (rdb' = rdb /\ dirty' = dirty)
      BY <1>15, Zenon DEF S!Shutdown, S!RdbSave, S!RdbSaveFails
    <2>3. up /\ (overtaken => overtaken') /\ data' = data /\ before' = before
      BY <1>15 DEF S!Shutdown
    <2>4. UpInv => rdb' >= rdb
      BY <1>5, <2>2, <2>3 DEF UpInv
    <2>5. UpInv /\ up' => UpInv'
      BY <1>3, <1>5, <2>1, <2>2, <2>3 DEF UpInv
    <2> QED
      BY <1>4, <2>1, <2>2, <2>3, <2>4, <2>5
  <1>16. CASE S!Crash
    BY <1>1, <1>3, <1>16 DEF SnapshotInv, SnapshotType, UpInv, S!FileNeverBackStep, Goal, S!Crash, S!NoChild
  <1>17. CASE S!OrphanRename
    <2>1. bgsave' = bgsave /\ data' = data /\ dirty' = dirty /\ before' = before
      BY <1>17 DEF S!OrphanRename
    <2>2. (up <=> up') /\ (overtaken => overtaken') /\ (rdb' # rdb => overtaken')
      BY <1>17, Zenon DEF S!OrphanRename
    <2>3. rdb' = rdb => rdb' >= rdb
      BY <1>5
    <2>4. rdb' = rdb /\ UpInv => UpInv'
      BY <2>1 DEF UpInv
    <2> QED
      BY <2>1, <2>2, <2>3, <2>4, Zenon DEF Goal, SnapshotInv, S!FileNeverBackStep
  <1>18. CASE S!Restart
    BY <1>1, <1>3, <1>18 DEF SnapshotInv, SnapshotType, UpInv, S!FileNeverBackStep, Goal, S!Restart, S!NoChild
  <1>19. CASE S!FullSync
    <2>1. /\ bgsave' = bgsave /\ data' = data + 1 /\ rdb' = data' /\ dirty' = dirty
          /\ before' = before /\ up /\ up'
      BY <1>19 DEF S!FullSync
    <2>2. (overtaken => overtaken') /\ (bgsave.st # "none" => overtaken')
      BY <1>19, Zenon DEF S!FullSync, S!Saving
    <2>3. UpInv => rdb' >= rdb
      BY <1>5, <2>1 DEF UpInv
    <2>4. UpInv /\ bgsave.st = "none" => UpInv'
      BY <1>3, <1>5, <2>1 DEF UpInv
    <2> QED
      BY <2>1, <2>2, <2>3, <2>4 DEF Goal, SnapshotInv, S!FileNeverBackStep
  <1>20. CASE S!Age \/ S!RetryDelay \/ S!Rewrite \/ S!RewriteDone
    <2>1. UNCHANGED <<up, data, rdb, bgsave, dirty, before, overtaken>>
      BY <1>20 DEF S!Age, S!RetryDelay, S!Rewrite, S!RewriteDone
    <2> QED
      BY <1>1, <1>3, <2>1 DEF SnapshotInv, SnapshotType, UpInv, S!FileNeverBackStep, Goal
  <1> QED
    BY <1>7, <1>8, <1>9, <1>10, <1>11, <1>12, <1>13, <1>14, <1>15, <1>16, <1>17, <1>18, <1>19, <1>20
       DEF S!Next

LEMMA SnapshotAlways == S!Spec => []SnapshotInv
  <1>1. SnapshotInv /\ UNCHANGED S!rdbVars => SnapshotInv'
    BY DEF SnapshotInv, SnapshotType, UpInv, S!rdbVars
  <1>2. SnapshotInv /\ [S!Next]_S!rdbVars => SnapshotInv'
    BY <1>1, SnapshotStep
  <1> QED
    BY SnapshotInit, <1>2, PTL DEF S!Spec

(* For any number of changes and faults: server.dirty counts what dump.rdb *)
(* lacks, although backgroundSaveDoneHandler takes dirty_before_bgsave off *)
(* after FLUSHALL, failed saves and kills changed both (rdb.c, redis.c).   *)
THEOREM UnsavedIsCounted == S!Spec => []UnsavedCounted
  <1>1. SnapshotInv => UnsavedCounted
    BY DEF SnapshotInv, UpInv, UnsavedCounted, S!UnsavedCounted
  <1> QED
    BY <1>1, SnapshotAlways, PTL

(* dump.rdb never goes back to an older dataset, unless a child was        *)
(* overtaken by DEBUG RELOAD, a full synchronization or a restart.         *)
THEOREM SnapshotsNeverBack == S!Spec => [][S!FileNeverBackStep]_S!rdbVars
  <1>1. SnapshotInv /\ [S!Next]_S!rdbVars => [S!FileNeverBackStep]_S!rdbVars
    BY SnapshotStep
  <1> QED
    BY <1>1, SnapshotAlways, PTL DEF S!Spec

-----------------------------------------------------------------------------
(* Both files of a server with all that keeps its data: neither dump.rdb   *)
(* nor the append only file goes back to an older dataset, for any bounds. *)
THEOREM NoFileGoesBack ==
    ASSUME AofAssumption
    PROVE  DurabilitySpec => FileNeverBack
  <1>1. DurabilityInit => AofInv /\ SnapshotInv
    BY AofInit, SnapshotInit DEF DurabilityInit
  <1>2. [DurabilityNext]_allVars => [Next]_vars /\ [S!Next]_S!rdbVars
    BY DEF DurabilityNext, allVars, aofVars, rdbVars, S!rdbVars
  <1>3. AofInv /\ [Next]_vars => AofInv'
    BY AofStep
  <1>4. SnapshotInv /\ [S!Next]_S!rdbVars => SnapshotInv' /\ S!FileNeverBackStep
    <2>1. SnapshotInv /\ UNCHANGED S!rdbVars => SnapshotInv' /\ S!FileNeverBackStep
      BY DEF SnapshotInv, SnapshotType, UpInv, S!rdbVars, S!FileNeverBackStep
    <2> QED
      BY <2>1, SnapshotStep
  <1>5. AofInv /\ AofInv' /\ [Next]_vars => FileKeepsDataStep
    BY AofKeepsData
  <1> QED
    BY <1>1, <1>2, <1>3, <1>4, <1>5, PTL DEF DurabilitySpec, FileNeverBack

-----------------------------------------------------------------------------
(* Replication                                                             *)
(*                                                                         *)
(* The master and an exact slave agree on the stream of the run: at each   *)
(* offset there is one item and one dataset that whoever has read so far   *)
(* holds.  The model does not keep that stream; the invariant says that it *)
(* exists (Line), that the backlog holds its end (Ring), and where each    *)
(* slave stands in it (Stands).                                            *)

StreamItem == ({"select"} \X {0, 1}) \cup ({"command"} \X (Nat \X Nat))
Entry == {0, 1} \X (Nat \X (Nat \cup Slaves))
Cell == StreamItem \cup {<<"none">>}
Backlogs == [on : BOOLEAN, buf : [0..(BacklogSize - 1) -> Cell], idx : Int, histlen : Int, off : Int]
Replica == [state : {"none", "connect", "connecting", "transfer", "connected"}, data : Seq(Entry),
            db : {0, 1}, off : Int, run : Nat, cached : BOOLEAN]
Link == [state : {"none", "wait_start", "wait_end", "send_bulk", "online"},
         out : Seq(StreamItem), file : Seq(Entry)]

(* The stream of a run since the backlog was last switched on: at each     *)
(* offset the item there, the length of the dataset that a slave holds     *)
(* that has read it, and its selected database, or -1 when the next        *)
(* command comes with a SELECT anyway.                                     *)
Point == [num : Nat, db : {-1, 0, 1}, item : StreamItem]

Starts(s, t) == Len(s) <= Len(t) /\ \A i \in 1..Len(s) : s[i] = t[i]

Follows(a, b, M) ==
    \/ b.item[1] = "select" /\ b.num = a.num /\ b.db \in {b.item[2], -1}
    \/ /\ b.item[1] = "command" /\ b.num = a.num + 1
       /\ M[b.num] = <<a.db, b.item[2]>> /\ b.db \in {a.db, -1}

Stream(h, low, off, M) ==
    /\ off \in Int /\ low <= off
    /\ h \in [low..off -> Point]
    /\ \A o \in low..off : h[o].num <= Len(M)
    /\ \A o \in (low + 1)..off : Follows(h[o - 1], h[o], M)

(* The backlog holds the end of the stream, the last item before idx.      *)
Ring(b, h, low, off) ==
    /\ b \in Backlogs
    /\ b.idx \in 0..(BacklogSize - 1) /\ b.histlen \in 0..BacklogSize
    /\ b.off = off + 1 - b.histlen /\ b.off > low
    /\ \A k \in 1..b.histlen : b.buf[(b.idx + BacklogSize - k) % BacklogSize] = h[off + 1 - k].item

(* q is what comes after the offset o; d is the dataset at that offset.    *)
Reads(q, h, o, off) == o + Len(q) = off /\ \A i \in 1..Len(q) : q[i] = h[o + i].item
Holds(d, h, o, M) == Len(d) = h[o].num /\ Starts(d, M)

(* How a slave and its connection stand in the stream: connected, with a   *)
(* snapshot on its way, or disconnected with a cached master.              *)
Stands(r, c, kid, h, low, off, M, run) ==
    /\ r.state = "connected" =>
          /\ c.state = "online" /\ low <= r.off
          /\ Reads(c.out, h, r.off, off) /\ Holds(r.data, h, r.off, M) /\ h[r.off].db \in {-1, r.db}
    /\ r.state = "transfer" =>
          /\ low <= r.off /\ Reads(c.out, h, r.off, off) /\ h[r.off].db = -1
          /\ \/ c.state = "wait_end" /\ kid # R!NoChild /\ Holds(kid, h, r.off, M)
             \/ c.state = "send_bulk" /\ Holds(c.file, h, r.off, M)
    /\ r.cached /\ r.run = run /\ low <= r.off =>
          Holds(r.data, h, r.off, M) /\ h[r.off].db \in {-1, r.db}

Apart(r, c, off, run) ==
    /\ c.state = "none" <=> r.state \notin {"connected", "transfer"}
    /\ r.state \in {"connected", "transfer"} => r.run = run
    /\ r.state = "transfer" => ~r.cached
    /\ r.cached /\ r.run = run => r.off <= off

Line(h, low) ==
    /\ Stream(h, low, master.offset, master.data)
    /\ h[master.offset].num = Len(master.data)
    /\ master.seldb \in {-1, h[master.offset].db}
    /\ Ring(backlog, h, low, master.offset)

ReplType ==
    /\ master \in [run : Nat, data : Seq(Entry), offset : Int, seldb : {-1, 0, 1}, rdb : Seq(Entry)]
    /\ backlog \in Backlogs
    /\ saver \in Seq(Entry) \cup {R!NoChild}
    /\ conn \in [Slaves -> Link] /\ slave \in [Slaves -> Replica]

Stand(s, h, low) ==
    Stands(slave[s], conn[s], saver, h, low, master.offset, master.data, master.run)

ReplInv ==
    /\ ReplType
    /\ \A s \in Slaves : /\ slave[s].run <= master.run
                         /\ conn[s].state # "none" => backlog.on
                         /\ s \notin odd => Apart(slave[s], conn[s], master.offset, master.run)
    /\ backlog.on => \E low \in Int : \E h : Line(h, low) /\ \A s \in Slaves \ odd : Stand(s, h, low)

-----------------------------------------------------------------------------
LEMMA ModFacts ==
    ASSUME NEW n \in Nat \ {0}, NEW x \in 0..(2 * n - 1)
    PROVE  x % n = IF x < n THEN x ELSE x - n
<1>1. CASE x < n
  BY <1>1
<1>2. CASE x >= n
  <2>1. x - n \in 0..(n - 1) /\ x = n * 1 + (x - n)
    BY <1>2
  <2> QED BY <2>1, <1>2
<1> QED BY <1>1, <1>2

(* The stream with one more item *)
Grown(h, low, off, p) == [o \in low..(off + 1) |-> IF o = off + 1 THEN p ELSE h[o]]

LEMMA StreamGrows ==
    ASSUME NEW low \in Int, NEW h, NEW off, NEW M \in Seq(Entry), Stream(h, low, off, M),
           NEW M2 \in Seq(Entry), Starts(M, M2), NEW p \in Point, p.num <= Len(M2),
           Follows(h[off], p, M2)
    PROVE  /\ Stream(Grown(h, low, off, p), low, off + 1, M2)
           /\ Grown(h, low, off, p)[off + 1] = p
           /\ \A o \in low..off : Grown(h, low, off, p)[o] = h[o]
<1> DEFINE g == Grown(h, low, off, p)
<1>1. /\ off \in Int /\ low <= off /\ h \in [low..off -> Point]
      /\ \A o \in low..off : h[o].num <= Len(M) /\ h[o].num \in Nat
      /\ \A o \in (low + 1)..off : Follows(h[o - 1], h[o], M)
  BY DEF Stream, Point
<1>2. g[off + 1] = p /\ \A o \in low..off : g[o] = h[o]
  BY <1>1 DEF Grown
<1>3. g \in [low..(off + 1) -> Point]
  BY <1>1 DEF Grown
<1>4. Len(M) <= Len(M2) /\ Len(M) \in Nat /\ Len(M2) \in Nat /\ \A i \in 1..Len(M) : M[i] = M2[i]
  BY LenProperties DEF Starts
<1> HIDE DEF g
<1>5. \A o \in low..(off + 1) : g[o].num <= Len(M2)
  <2> TAKE o \in low..(off + 1)
  <2>1. CASE o = off + 1
    BY <1>2, <2>1
  <2>2. CASE o \in low..off
    BY <1>1, <1>2, <1>4, <2>2
  <2> QED BY <1>1, <2>1, <2>2
<1>6. ASSUME NEW o \in (low + 1)..(off + 1) PROVE Follows(g[o - 1], g[o], M2)
  <2>1. CASE o = off + 1
    <3>1. o - 1 = off /\ off \in low..off
      BY <1>1, <2>1
    <3> QED BY <1>2, <2>1, <3>1
  <2>2. CASE o \in (low + 1)..off
    <3>1. o - 1 \in low..off /\ o \in low..off
      BY <1>1, <2>2
    <3>2. g[o - 1] = h[o - 1] /\ g[o] = h[o] /\ Follows(h[o - 1], h[o], M)
      BY <1>1, <1>2, <2>2, <3>1
    <3>3. h[o].num \in 0..Len(M) /\ h[o - 1].num \in Nat
      BY <1>1, <1>4, <3>1
    <3>4. h[o].num = h[o - 1].num + 1 => M[h[o].num] = M2[h[o].num]
      BY <1>4, <3>3
    <3> QED BY <3>2, <3>4 DEF Follows
  <2> QED BY <1>1, <2>1, <2>2
<1>7. off + 1 \in Int /\ low <= off + 1
  BY <1>1
<1> QED BY <1>2, <1>3, <1>5, <1>6, <1>7 DEF Stream, g

(* feedReplicationBacklog keeps the ring in step with the stream. *)
LEMMA RingGrows ==
    ASSUME R!ReplicationAssumption, NEW low \in Int, NEW off \in Int, NEW h, NEW g, NEW b,
           Ring(b, h, low, off), NEW item \in StreamItem,
           \A o \in low..off : g[o] = h[o], g[off + 1].item = item
    PROVE  Ring(R!FeedReplicationBacklog(b, item, off + 1), g, low, off + 1)
<1> DEFINE n == R!FeedReplicationBacklog(b, item, off + 1)
           hl == IF b.histlen < BacklogSize THEN b.histlen + 1 ELSE BacklogSize
<1>1. /\ b \in Backlogs /\ BacklogSize \in Nat \ {0}
      /\ b.idx \in 0..(BacklogSize - 1) /\ b.histlen \in 0..BacklogSize
      /\ b.off = off + 1 - b.histlen /\ b.off > low
      /\ \A k \in 1..b.histlen : b.buf[(b.idx + BacklogSize - k) % BacklogSize] = h[off + 1 - k].item
  BY DEF Ring, R!ReplicationAssumption
<1>2. /\ n.buf = [b.buf EXCEPT ![b.idx] = item] /\ n.idx = (b.idx + 1) % BacklogSize
      /\ n.histlen = hl /\ n.off = (off + 1) - hl + 1
  BY <1>1 DEF R!FeedReplicationBacklog, Backlogs
<1>3. n.idx = IF b.idx + 1 < BacklogSize THEN b.idx + 1 ELSE 0
  <2> DEFINE x == b.idx + 1
  <2>1. x \in 0..(2 * BacklogSize - 1)
    BY <1>1
  <2> HIDE DEF n, x
  <2>2. x % BacklogSize = IF x < BacklogSize THEN x ELSE x - BacklogSize
    BY <1>1, <2>1, ModFacts
  <2> USE DEF x
  <2> QED BY <1>1, <1>2, <2>2
<1>4. n.buf \in [0..(BacklogSize - 1) -> Cell]
  BY <1>1, <1>2 DEF Backlogs, Cell
<1>5. hl \in 0..BacklogSize /\ n.off > low
  BY <1>1, <1>2
<1>6. n \in Backlogs
  <2> DEFINE ix == (b.idx + 1) % BacklogSize
             of == (off + 1) - hl + 1
             bf == [b.buf EXCEPT ![b.idx] = item]
  <2>1. ix \in Int /\ hl \in Int /\ of \in Int /\ bf \in [0..(BacklogSize - 1) -> Cell]
    <3>1. ix \in Int
      BY <1>1
    <3>2. hl \in Int /\ of \in Int
      BY <1>1, <1>5
    <3>3. bf \in [0..(BacklogSize - 1) -> Cell]
      BY <1>1 DEF Backlogs, Cell
    <3> QED BY <3>1, <3>2, <3>3
  <2>2. n = [b EXCEPT !.buf = bf, !.idx = ix, !.histlen = hl, !.off = of]
    BY DEF R!FeedReplicationBacklog
  <2> HIDE DEF n, ix, hl, of, bf
  <2> QED BY <1>1, <2>1, <2>2 DEF Backlogs
<1> HIDE DEF n
<1>7. ASSUME NEW k \in 1..hl PROVE n.buf[(n.idx + BacklogSize - k) % BacklogSize] = g[off + 1 + 1 - k].item
  <2> DEFINE x == n.idx + BacklogSize - k
             y == b.idx + BacklogSize - (k - 1)
  <2>1. x \in 0..(2 * BacklogSize - 1) /\ y \in 0..(2 * BacklogSize)
    BY <1>1, <1>3, <1>5
  <2>2. x % BacklogSize = IF x < BacklogSize THEN x ELSE x - BacklogSize
    BY <1>1, <2>1, ModFacts
  <2>3. CASE k = 1
    <3>1. x % BacklogSize = b.idx
      BY <1>1, <1>3, <2>2, <2>3
    <3>2. n.buf[b.idx] = item
      BY <1>1, <1>2 DEF Backlogs
    <3> QED BY <2>3, <3>1, <3>2
  <2>4. CASE k # 1
    <3>1. k - 1 \in 1..b.histlen /\ y \in 0..(2 * BacklogSize - 1)
      BY <1>1, <1>5, <2>4
    <3>2. y % BacklogSize = IF y < BacklogSize THEN y ELSE y - BacklogSize
      BY <1>1, <3>1, ModFacts
    <3>3. x % BacklogSize = y % BacklogSize /\ y % BacklogSize # b.idx /\ y % BacklogSize \in 0..(BacklogSize - 1)
      BY <1>1, <1>3, <2>2, <3>1, <3>2
    <3>4. b.buf[y % BacklogSize] = h[off + 1 - (k - 1)].item
      BY <1>1, <3>1
    <3>5. off + 1 - (k - 1) = off + 1 + 1 - k /\ off + 1 + 1 - k \in low..off
      BY <1>1, <3>1
    <3>6. n.buf[y % BacklogSize] = b.buf[y % BacklogSize]
      BY <1>1, <1>2, <3>3 DEF Backlogs
    <3> QED BY <3>3, <3>4, <3>5, <3>6
  <2> QED BY <2>3, <2>4
<1>8. n.off = off + 1 + 1 - n.histlen /\ n.idx \in 0..(BacklogSize - 1)
  BY <1>1, <1>2, <1>3, <1>5
<1> QED BY <1>2, <1>5, <1>6, <1>7, <1>8 DEF Ring, n

(* A dataset and a queue that were in step with the stream are when the    *)
(* stream went on, for the queue with the items it went on by.             *)
LEMMA HoldsGrows ==
    ASSUME NEW d \in Seq(Entry), NEW h, NEW g, NEW o, NEW M \in Seq(Entry), NEW M2 \in Seq(Entry),
           Holds(d, h, o, M), Starts(M, M2), g[o].num = h[o].num
    PROVE  Holds(d, g, o, M2)
BY LenProperties DEF Holds, Starts

LEMMA ReadsGrows ==
    ASSUME NEW low \in Int, NEW off \in Int, NEW off2 \in Int, NEW o \in Int, low <= o, NEW h, NEW g,
           NEW q \in Seq(StreamItem), NEW items \in Seq(StreamItem),
           Reads(q, h, o, off), Reads(items, g, off, off2), \A x \in low..off : g[x] = h[x]
    PROVE  Reads(q \o items, g, o, off2)
<1> DEFINE Q == q \o items
<1>1. /\ Len(q) \in Nat /\ Len(items) \in Nat /\ o + Len(q) = off /\ off + Len(items) = off2
      /\ \A i \in 1..Len(q) : q[i] = h[o + i].item
      /\ \A i \in 1..Len(items) : items[i] = g[off + i].item
  BY LenProperties DEF Reads
<1>2. /\ Len(Q) = Len(q) + Len(items)
      /\ \A i \in 1..Len(Q) : Q[i] = IF i <= Len(q) THEN q[i] ELSE items[i - Len(q)]
  BY ConcatProperties
<1> HIDE DEF Q
<1>3. ASSUME NEW i \in 1..Len(Q) PROVE Q[i] = g[o + i].item
  <2>1. CASE i <= Len(q)
    <3>1. Q[i] = q[i] /\ i \in 1..Len(q) /\ o + i \in low..off
      BY <1>1, <1>2, <2>1
    <3> QED BY <1>1, <3>1
  <2>2. CASE i > Len(q)
    <3>1. Q[i] = items[i - Len(q)] /\ i - Len(q) \in 1..Len(items) /\ off + (i - Len(q)) = o + i
      BY <1>1, <1>2, <2>2
    <3> QED BY <1>1, <3>1
  <2> QED BY <1>1, <1>2, <2>1, <2>2
<1>4. o + Len(Q) = off2
  <2>1. Len(Q) = Len(q) + Len(items) /\ o + Len(q) = off /\ off + Len(items) = off2
    BY <1>1, <1>2
  <2>2. Len(q) \in Int /\ Len(items) \in Int
    BY <1>1
  <2> QED BY <2>1, <2>2
<1> QED BY <1>3, <1>4 DEF Reads, Q

Agree(g, h, low, off) == \A x \in low..off : g[x] = h[x]

(* The stream and the dataset went on, by items; a connection took them.   *)
Grew(low, off, off2, h, g, M, M2, items) ==
    /\ low \in Int /\ off \in Int /\ off2 \in Int /\ low <= off /\ Agree(g, h, low, off)
    /\ M \in Seq(Entry) /\ M2 \in Seq(Entry) /\ Starts(M, M2)
    /\ items \in Seq(StreamItem) /\ Reads(items, g, off, off2)
Took(c, c2, items) ==
    /\ c \in Link /\ c2 \in Link /\ c2.state = c.state /\ c2.file = c.file
    /\ c.state # "none" => c2.out = c.out \o items

LEMMA StandsGrows ==
    ASSUME NEW low, NEW off, NEW off2, NEW h, NEW g, NEW M, NEW M2, NEW items,
           Grew(low, off, off2, h, g, M, M2, items),
           NEW r \in Replica, NEW c, NEW c2, Took(c, c2, items),
           NEW kid, kid \in Seq(Entry) \cup {R!NoChild}, NEW run,
           Apart(r, c, off, run), Stands(r, c, kid, h, low, off, M, run)
    PROVE  Stands(r, c2, kid, g, low, off2, M2, run) /\ Apart(r, c2, off2, run)
<1> USE DEF Grew, Took
<1>1. /\ r.off \in Int /\ r.data \in Seq(Entry) /\ c.out \in Seq(StreamItem) /\ c.file \in Seq(Entry)
      /\ Len(items) \in Nat /\ off + Len(items) = off2 /\ off <= off2
  BY LenProperties DEF Replica, Link, Reads
<1>2. Apart(r, c2, off2, run)
  BY <1>1 DEF Apart
<1>3. ASSUME low <= r.off, r.off <= off
      PROVE  g[r.off] = h[r.off]
             /\ \A d \in Seq(Entry) : Holds(d, h, r.off, M) => Holds(d, g, r.off, M2)
  <2>1. g[r.off] = h[r.off]
    BY <1>1, <1>3 DEF Agree
  <2> QED BY <2>1, HoldsGrows
<1>4. ASSUME low <= r.off, Reads(c.out, h, r.off, off), c.state # "none"
      PROVE  r.off <= off /\ Reads(c2.out, g, r.off, off2)
  <2>1. r.off <= off
    BY <1>1, <1>4, LenProperties DEF Reads
  <2>2. Reads(c.out \o items, g, r.off, off2)
    BY <1>1, <1>4, ReadsGrows DEF Agree
  <2> QED BY <1>4, <2>1, <2>2
<1>5. ASSUME r.state = "connected"
      PROVE  /\ c2.state = "online" /\ low <= r.off
             /\ Reads(c2.out, g, r.off, off2) /\ Holds(r.data, g, r.off, M2) /\ g[r.off].db \in {-1, r.db}
  BY <1>1, <1>3, <1>4, <1>5 DEF Stands
<1>6. ASSUME r.state = "transfer"
      PROVE  /\ low <= r.off /\ Reads(c2.out, g, r.off, off2) /\ g[r.off].db = -1
             /\ \/ c2.state = "wait_end" /\ kid # R!NoChild /\ Holds(kid, g, r.off, M2)
                \/ c2.state = "send_bulk" /\ Holds(c2.file, g, r.off, M2)
  BY <1>1, <1>3, <1>4, <1>6 DEF Stands
<1>7. ASSUME r.cached, r.run = run, low <= r.off
      PROVE  Holds(r.data, g, r.off, M2) /\ g[r.off].db \in {-1, r.db}
  <2>1. r.off <= off
    BY <1>7 DEF Apart
  <2> QED BY <1>1, <1>3, <1>7, <2>1 DEF Stands
<1> QED BY <1>2, <1>5, <1>6, <1>7 DEF Stands

(* A step that only changes one slave and its connection *)
LEMMA OneSlave ==
    ASSUME NEW s \in Slaves, ReplInv, NEW r \in Replica, NEW c \in Link,
           slave' = [slave EXCEPT ![s] = r], conn' = [conn EXCEPT ![s] = c],
           UNCHANGED <<master, backlog, saver, odd>>,
           r.run <= master.run, c.state # "none" => backlog.on,
           s \notin odd => Apart(r, c, master.offset, master.run),
           s \notin odd => \A low \in Int : \A h : Line(h, low) /\ Stand(s, h, low) =>
               Stands(r, c, saver, h, low, master.offset, master.data, master.run)
    PROVE  ReplInv'
<1>1. ReplType'
  BY DEF ReplInv, ReplType
<1>2. /\ slave'[s] = r /\ conn'[s] = c
      /\ \A t \in Slaves : t # s => slave'[t] = slave[t] /\ conn'[t] = conn[t]
  BY DEF ReplInv, ReplType
<1>3. ASSUME NEW t \in Slaves
      PROVE  /\ slave'[t].run <= master'.run
             /\ conn'[t].state # "none" => backlog'.on
             /\ t \notin odd' => Apart(slave'[t], conn'[t], master'.offset, master'.run)
  BY <1>2 DEF ReplInv
<1>4. ASSUME backlog'.on
      PROVE  \E low \in Int : \E h : Line(h, low)' /\ \A t \in Slaves \ odd' : Stand(t, h, low)'
  <2>1. PICK low \in Int : \E h : Line(h, low) /\ \A t \in Slaves \ odd : Stand(t, h, low)
    BY <1>4 DEF ReplInv
  <2>2. PICK h : Line(h, low) /\ \A t \in Slaves \ odd : Stand(t, h, low)
    BY <2>1
  <2>3. Line(h, low)'
    BY <2>2 DEF Line
  <2>4. ASSUME NEW t \in Slaves \ odd' PROVE Stand(t, h, low)'
    <3>1. CASE t = s
      BY <1>2, <2>2, <3>1 DEF Stand
    <3>2. CASE t # s
      BY <1>2, <2>2, <3>2 DEF Stand
    <3> QED BY <3>1, <3>2
  <2> QED BY <2>3, <2>4
<1> QED BY <1>1, <1>3, <1>4 DEF ReplInv

(* What is known of one slave *)
LEMMA OfSlave ==
    ASSUME ReplInv, NEW s \in Slaves
    PROVE  /\ slave[s] \in Replica /\ conn[s] \in Link
           /\ slave = [slave EXCEPT ![s] = slave[s]] /\ conn = [conn EXCEPT ![s] = conn[s]]
           /\ master.run \in Nat /\ master.offset \in Int /\ master.data \in Seq(Entry)
           /\ slave[s].run <= master.run
           /\ conn[s].state # "none" => backlog.on
           /\ s \notin odd => Apart(slave[s], conn[s], master.offset, master.run)
           /\ s \notin odd /\ slave[s].state \in {"connected", "transfer"} =>
                 slave[s].off + Len(conn[s].out) = master.offset /\ slave[s].off <= master.offset
<1>1. /\ slave[s] \in Replica /\ conn[s] \in Link
      /\ slave = [slave EXCEPT ![s] = slave[s]] /\ conn = [conn EXCEPT ![s] = conn[s]]
      /\ master.run \in Nat /\ master.offset \in Int /\ master.data \in Seq(Entry)
  BY DEF ReplInv, ReplType
<1>2. /\ slave[s].run <= master.run
      /\ conn[s].state # "none" => backlog.on
      /\ s \notin odd => Apart(slave[s], conn[s], master.offset, master.run)
  BY DEF ReplInv
<1>3. ASSUME s \notin odd, slave[s].state \in {"connected", "transfer"}
      PROVE  slave[s].off + Len(conn[s].out) = master.offset /\ slave[s].off <= master.offset
  <2>1. backlog.on
    BY <1>2, <1>3 DEF Apart
  <2>2. PICK low \in Int : \E h : Line(h, low) /\ \A t \in Slaves \ odd : Stand(t, h, low)
    BY <2>1 DEF ReplInv
  <2>3. PICK h : Line(h, low) /\ \A t \in Slaves \ odd : Stand(t, h, low)
    BY <2>2
  <2>4. Stand(s, h, low)
    BY <1>3, <2>3
  <2>5. slave[s].off + Len(conn[s].out) = master.offset
    BY <1>3, <2>4 DEF Stand, Stands, Reads
  <2>6. Len(conn[s].out) \in Nat /\ slave[s].off \in Int
    BY <1>1, LenProperties DEF Link, Replica
  <2> QED BY <1>1, <2>5, <2>6
<1> QED BY <1>1, <1>2, <1>3

LEMMA NoConnFacts ==
    /\ R!NoConn \in Link /\ R!NoConn.state = "none"
    /\ R!NoConn.out = <<>> /\ R!NoConn.file = <<>>
BY DEF R!NoConn, Link

(* What Disconnected makes of a slave *)
LEMMA DisconnectedFacts ==
    ASSUME NEW r \in Replica
    PROVE  LET d == R!Disconnected(r) IN
           /\ d \in Replica /\ d.state \notin {"connected", "transfer"}
           /\ d.run = r.run /\ d.data = r.data /\ d.off = r.off /\ d.db = r.db
           /\ d.cached => r.cached \/ r.state = "connected"
<1>1. CASE r.state = "connected"
  BY <1>1 DEF R!Disconnected, Replica
<1>2. CASE r.state \in {"connecting", "transfer"}
  BY <1>2 DEF R!Disconnected, Replica
<1>3. CASE r.state \in {"none", "connect"}
  BY <1>3 DEF R!Disconnected, Replica
<1> QED BY <1>1, <1>2, <1>3 DEF Replica

(* A step that leaves a slave without a connection: the slave still has    *)
(* what it had.                                                            *)
LEMMA LeavesOffLine ==
    ASSUME NEW s \in Slaves, ReplInv, NEW r \in Replica, NEW c \in Link,
           slave' = [slave EXCEPT ![s] = r], conn' = [conn EXCEPT ![s] = c],
           UNCHANGED <<master, backlog, saver, odd>>,
           r.state \notin {"connected", "transfer"}, r.run = slave[s].run,
           r.cached => /\ slave[s].cached \/ slave[s].state = "connected"
                       /\ r.data = slave[s].data /\ r.off = slave[s].off /\ r.db = slave[s].db,
           c.state \in {"none", conn[s].state}, s \notin odd => c.state = "none"
    PROVE  ReplInv'
<1>1. r.run <= master.run /\ (c.state # "none" => backlog.on)
  BY OfSlave
<1>2. ASSUME s \notin odd PROVE Apart(r, c, master.offset, master.run)
  <2>1. Apart(slave[s], conn[s], master.offset, master.run)
    BY <1>2, OfSlave
  <2>2. slave[s].state = "connected" => slave[s].off <= master.offset
    BY <1>2, OfSlave
  <2> QED BY <1>2, <2>1, <2>2 DEF Apart
<1>3. s \notin odd => \A low \in Int : \A h : Line(h, low) /\ Stand(s, h, low) =>
        Stands(r, c, saver, h, low, master.offset, master.data, master.run)
  BY DEF Stand, Stands
<1> QED BY <1>1, <1>2, <1>3, OneSlave

(* The steps of the handshake that fail or only begin it, lost             *)
(* connections, restarts and changes of role                               *)
LEMMA OffLineSteps ==
    ASSUME NEW s \in Slaves, ReplInv,
           \/ R!ConnectWithMaster(s) \/ R!SyncWithoutFork(s) \/ R!ReplyLost(s)
           \/ R!ConnectionLost(s) \/ R!SlaveRestart(s)
           \/ R!ReplicationUnsetMaster(s) \/ R!ReplicationSetMaster(s)
    PROVE  ReplInv'
<1>1. /\ slave[s] \in Replica /\ conn[s] \in Link /\ conn = [conn EXCEPT ![s] = conn[s]]
      /\ s \notin odd => Apart(slave[s], conn[s], master.offset, master.run)
  BY OfSlave
<1>2. R!NoConn \in Link /\ R!NoConn.state = "none"
  BY NoConnFacts
<1>3. s \notin odd /\ slave[s].state \notin {"connected", "transfer"} => conn[s].state = "none"
  BY <1>1 DEF Apart
<1>4. CASE R!ConnectWithMaster(s) \/ R!ReplicationSetMaster(s)
  <2>1. PICK st \in {"connecting", "connect"} :
           /\ slave[s].state \notin {"connected", "transfer"}
           /\ slave' = [slave EXCEPT ![s].state = st]
           /\ UNCHANGED <<master, backlog, saver, conn, odd>>
    BY <1>4 DEF R!ConnectWithMaster, R!ReplicationSetMaster
  <2> DEFINE r == [slave[s] EXCEPT !.state = st]
  <2>2. r \in Replica /\ r.state = st /\ r.run = slave[s].run /\ r.cached = slave[s].cached
        /\ r.data = slave[s].data /\ r.off = slave[s].off /\ r.db = slave[s].db
    BY <1>1 DEF Replica
  <2>3. slave' = [slave EXCEPT ![s] = r]
    BY <2>1
  <2>4. conn' = [conn EXCEPT ![s] = conn[s]] /\ (s \notin odd => conn[s].state = "none")
    BY <1>1, <1>3, <2>1
  <2> HIDE DEF r
  <2>5. r.state \notin {"connected", "transfer"} /\ (r.cached => slave[s].cached)
    BY <2>1, <2>2
  <2>6. UNCHANGED <<master, backlog, saver, odd>>
    BY <2>1
  <2> QED BY <1>1, <2>2, <2>3, <2>4, <2>5, <2>6, LeavesOffLine
<1>5. CASE R!SyncWithoutFork(s) \/ R!ReplyLost(s)
  <2>1. /\ slave[s].state = "connecting"
        /\ slave' = [slave EXCEPT ![s].state = "connect", ![s].cached = FALSE]
        /\ UNCHANGED <<master, backlog, saver, conn, odd>>
    BY <1>5 DEF R!SyncWithoutFork, R!ReplyLost
  <2> DEFINE r == [slave[s] EXCEPT !.state = "connect", !.cached = FALSE]
  <2>2. r \in Replica /\ r.state = "connect" /\ r.run = slave[s].run /\ ~r.cached
    BY <1>1 DEF Replica
  <2>3. slave' = [slave EXCEPT ![s] = r]
    BY <2>1
  <2> HIDE DEF r
  <2> QED BY <1>1, <1>3, <2>1, <2>2, <2>3, LeavesOffLine
<1>6. CASE R!ConnectionLost(s)
  <2> DEFINE r == R!Disconnected(slave[s])
  <2>1. /\ slave' = [slave EXCEPT ![s] = r] /\ conn' = [conn EXCEPT ![s] = R!NoConn]
        /\ UNCHANGED <<master, backlog, saver, odd>>
    BY <1>6 DEF R!ConnectionLost
  <2>2. /\ r \in Replica /\ r.state \notin {"connected", "transfer"}
        /\ r.run = slave[s].run /\ r.data = slave[s].data /\ r.off = slave[s].off /\ r.db = slave[s].db
        /\ r.cached => slave[s].cached \/ slave[s].state = "connected"
    BY <1>1, DisconnectedFacts
  <2> HIDE DEF r
  <2> QED BY <1>2, <2>1, <2>2, LeavesOffLine
<1>7. CASE R!SlaveRestart(s)
  <2> DEFINE r == [slave[s] EXCEPT !.state = "connect", !.data = <<>>, !.cached = FALSE]
  <2>1. /\ slave' = [slave EXCEPT ![s] = r] /\ conn' = [conn EXCEPT ![s] = R!NoConn]
        /\ UNCHANGED <<master, backlog, saver, odd>>
    BY <1>7 DEF R!SlaveRestart
  <2>2. r \in Replica /\ r.state = "connect" /\ r.run = slave[s].run /\ ~r.cached
    <3>1. <<>> \in Seq(Entry)
      OBVIOUS
    <3> QED BY <1>1, <3>1 DEF Replica
  <2> HIDE DEF r
  <2> QED BY <1>2, <2>1, <2>2, LeavesOffLine
<1>8. CASE R!ReplicationUnsetMaster(s)
  <2> DEFINE d == Append(slave[s].data, <<0, <<0, s>>>>)
             r == [slave[s] EXCEPT !.state = "none", !.cached = FALSE, !.data = d]
  <2>1. /\ slave' = [slave EXCEPT ![s] = r] /\ conn' = [conn EXCEPT ![s] = R!NoConn]
        /\ UNCHANGED <<master, backlog, saver, odd>>
    <3>1. slave' = [slave EXCEPT ![s].state = "none", ![s].cached = FALSE,
                                 ![s].data = Append(@, <<0, <<0, s>>>>)]
      BY <1>8 DEF R!ReplicationUnsetMaster
    <3>2. slave' = [slave EXCEPT ![s] = r]
      BY <3>1
    <3> QED BY <1>8, <3>2 DEF R!ReplicationUnsetMaster
  <2>2. d \in Seq(Entry)
    <3>1. <<0, <<0, s>>>> \in Entry
      BY DEF Entry
    <3> QED BY <1>1, <3>1 DEF Replica
  <2> HIDE DEF d
  <2>3. r \in Replica /\ r.state = "none" /\ r.run = slave[s].run /\ ~r.cached
    BY <1>1, <2>2 DEF Replica
  <2> HIDE DEF r
  <2> QED BY <1>2, <2>1, <2>3, LeavesOffLine
<1> QED BY <1>4, <1>5, <1>6, <1>7, <1>8

(* addReplyReplicationBacklog sends what comes after the slave's offset.   *)
LEMMA RingReads ==
    ASSUME R!ReplicationAssumption, NEW low \in Int, NEW h, NEW o \in Int,
           Line(h, low), ReplType, o + 1 >= backlog.off, o + 1 <= backlog.off + backlog.histlen
    PROVE  /\ R!AddReplyReplicationBacklog(o + 1) \in Seq(StreamItem)
           /\ Reads(R!AddReplyReplicationBacklog(o + 1), h, o, master.offset)
           /\ low <= o
<1> DEFINE N == BacklogSize
           skip == (o + 1) - backlog.off
           x == backlog.idx + (N - backlog.histlen)
           first == x % N
           q == R!AddReplyReplicationBacklog(o + 1)
           L == backlog.histlen - skip
<1>1. /\ N \in Nat \ {0} /\ master.offset \in Int
      /\ backlog.idx \in 0..(N - 1) /\ backlog.histlen \in 0..N /\ backlog.off \in Int
      /\ backlog.off = master.offset + 1 - backlog.histlen /\ backlog.off > low
      /\ \A k \in 1..backlog.histlen :
            backlog.buf[(backlog.idx + N - k) % N] = h[master.offset + 1 - k].item
      /\ \A y \in low..master.offset : h[y].item \in StreamItem
  BY DEF Line, Ring, Stream, Point, Backlogs, ReplType, R!ReplicationAssumption
<1>2. skip \in Nat /\ L \in Nat /\ low <= o /\ o + L = master.offset
  <2> DEFINE mo == master.offset
             bo == backlog.off
             bh == backlog.histlen
  <2>1. mo \in Int /\ bo \in Int /\ bh \in Int /\ bo = mo + 1 - bh /\ bo > low
        /\ o + 1 >= bo /\ o + 1 <= bo + bh
    BY <1>1
  <2> HIDE DEF mo, bo, bh
  <2>2. (o + 1) - bo \in Nat /\ bh - ((o + 1) - bo) \in Nat /\ low <= o
        /\ o + (bh - ((o + 1) - bo)) = mo
    BY <2>1
  <2> QED BY <2>2 DEF mo, bo, bh
<1>3. q = [i \in 1..L |-> backlog.buf[(first + skip + i - 1) % N]]
  BY DEF R!AddReplyReplicationBacklog
<1>4. x \in 0..(2 * N - 1)
  BY <1>1
<1> HIDE DEF x, q
<1>5. x % N = IF x < N THEN x ELSE x - N
  BY <1>1, <1>4, ModFacts
<1>6. ASSUME NEW i \in 1..L
      PROVE  /\ backlog.buf[(first + skip + i - 1) % N] = h[o + i].item
             /\ h[o + i].item \in StreamItem
  <2> DEFINE j == skip + i - 1
             k == backlog.histlen - j
             y == first + j
             z == x + j
             w == backlog.idx + N - k
  <2>1. j \in Nat /\ k \in 1..backlog.histlen /\ o + i = master.offset + 1 - k /\ o + i \in low..master.offset
    BY <1>1, <1>2
  <2>2. z = w /\ first + skip + i - 1 = y
    <3>1. z = w
      BY <1>1, <1>2 DEF x
    <3>2. first \in Int
      BY <1>1, <1>4, <1>5
    <3> QED BY <1>2, <3>1, <3>2
  <2>3. z \in 0..(2 * N - 1) /\ y \in 0..(2 * N - 1)
    BY <1>1, <1>2, <1>4, <1>5, <2>1 DEF x
  <2> HIDE DEF y, z, w, k
  <2>4. z % N = IF z < N THEN z ELSE z - N
    BY <1>1, <2>3, ModFacts
  <2>5. y % N = IF y < N THEN y ELSE y - N
    BY <1>1, <2>3, ModFacts
  <2>6. y % N = z % N
    <3>1. CASE x < N
      BY <1>1, <1>4, <1>5, <2>1, <2>4, <2>5, <3>1 DEF y, z
    <3>2. CASE x >= N
      <4>1. z < 2 * N /\ z >= N /\ y = z - N
        BY <1>1, <1>4, <1>5, <2>1, <2>3, <3>2 DEF y, z
      <4> QED BY <1>1, <2>3, <2>4, <2>5, <4>1
    <3> QED BY <1>1, <1>4, <3>1, <3>2
  <2>7. backlog.buf[w % N] = h[master.offset + 1 - k].item
    BY <1>1, <2>1 DEF w
  <2> QED BY <1>1, <2>1, <2>2, <2>6, <2>7
<1>7. q \in Seq(StreamItem) /\ Len(q) = L /\ \A i \in 1..Len(q) : q[i] = h[o + i].item
  <2>1. q = [i \in 1..L |-> h[o + i].item]
    BY <1>3, <1>6
  <2>2. \A i \in 1..L : h[o + i].item \in StreamItem
    BY <1>6
  <2> HIDE DEF L, skip
  <2> QED BY <1>2, <2>1, <2>2
<1> QED BY <1>2, <1>7 DEF Reads, q

LEMMA PartialResyncStep ==
    ASSUME R!ReplicationAssumption, ReplInv, NEW s \in Slaves, R!PartialResync(s)
    PROVE  ReplInv'
<1> DEFINE q == R!AddReplyReplicationBacklog(slave[s].off + 1)
           r == [slave[s] EXCEPT !.state = "connected", !.cached = FALSE]
           c == [R!NoConn EXCEPT !.state = "online", !.out = q]
<1>1. /\ slave[s] \in Replica /\ slave[s].off \in Int /\ slave[s].run <= master.run
      /\ s \notin odd => Apart(slave[s], conn[s], master.offset, master.run)
  BY OfSlave DEF Replica
<1>2. /\ slave[s].cached /\ slave[s].run = master.run /\ backlog.on
      /\ slave[s].off + 1 >= backlog.off /\ slave[s].off + 1 <= backlog.off + backlog.histlen
      /\ conn' = [conn EXCEPT ![s] = c] /\ slave' = [slave EXCEPT ![s] = r]
      /\ UNCHANGED <<master, backlog, saver, odd>>
  BY DEF R!PartialResync, R!CanContinue
<1>3. ASSUME NEW low \in Int, NEW h, Line(h, low)
      PROVE  q \in Seq(StreamItem) /\ Reads(q, h, slave[s].off, master.offset) /\ low <= slave[s].off
  BY <1>1, <1>2, <1>3, RingReads DEF ReplInv
<1>4. q \in Seq(StreamItem)
  BY <1>2, <1>3 DEF ReplInv
<1> HIDE DEF q
<1>5. /\ r \in Replica /\ r.state = "connected" /\ ~r.cached /\ r.run = slave[s].run
      /\ r.data = slave[s].data /\ r.off = slave[s].off /\ r.db = slave[s].db
  BY <1>1 DEF Replica
<1>6. c \in Link /\ c.state = "online" /\ c.out = q
  BY <1>4, NoConnFacts DEF Link
<1> HIDE DEF r, c
<1>7. Apart(r, c, master.offset, master.run)
  BY <1>2, <1>5, <1>6 DEF Apart
<1>8. ASSUME s \notin odd, NEW low \in Int, NEW h, Line(h, low), Stand(s, h, low)
      PROVE  Stands(r, c, saver, h, low, master.offset, master.data, master.run)
  <2>1. Reads(q, h, slave[s].off, master.offset) /\ low <= slave[s].off
    BY <1>3, <1>8
  <2>2. Holds(slave[s].data, h, slave[s].off, master.data) /\ h[slave[s].off].db \in {-1, slave[s].db}
    BY <1>2, <1>8, <2>1 DEF Stand, Stands
  <2> QED BY <1>5, <1>6, <2>1, <2>2 DEF Stands
<1>9. UNCHANGED <<master, backlog, saver, odd>> /\ r.run <= master.run /\ (c.state # "none" => backlog.on)
  BY <1>1, <1>2, <1>5
<1>10. s \notin odd => \A low \in Int : \A h : Line(h, low) /\ Stand(s, h, low) =>
               Stands(r, c, saver, h, low, master.offset, master.data, master.run)
  BY <1>8
<1> QED BY <1>2, <1>5, <1>6, <1>7, <1>9, <1>10, OneSlave

LEMMA SendBulkStep ==
    ASSUME ReplInv, NEW s \in Slaves, R!SendBulk(s)
    PROVE  ReplInv'
<1> DEFINE r == [slave[s] EXCEPT !.state = "connected", !.data = conn[s].file, !.db = 0]
           c == [conn[s] EXCEPT !.state = "online", !.file = <<>>]
<1>1. /\ slave[s] \in Replica /\ conn[s] \in Link /\ slave[s].run <= master.run
      /\ conn[s].state # "none" => backlog.on
      /\ s \notin odd => Apart(slave[s], conn[s], master.offset, master.run)
  BY OfSlave
<1>2. /\ conn[s].state = "send_bulk"
      /\ conn' = [conn EXCEPT ![s] = c] /\ slave' = [slave EXCEPT ![s] = r]
      /\ UNCHANGED <<master, backlog, saver, odd>>
  BY DEF R!SendBulk
<1>3. /\ r \in Replica /\ r.state = "connected" /\ r.run = slave[s].run /\ r.cached = slave[s].cached
      /\ r.data = conn[s].file /\ r.off = slave[s].off /\ r.db = 0
  BY <1>1 DEF Replica, Link
<1>4. c \in Link /\ c.state = "online" /\ c.out = conn[s].out
  <2>1. <<>> \in Seq(Entry)
    OBVIOUS
  <2> QED BY <1>1, <2>1 DEF Link
<1> HIDE DEF r, c
<1>5. ASSUME s \notin odd PROVE slave[s].state \in {"connected", "transfer"}
  BY <1>1, <1>2, <1>5 DEF Apart
<1>6. ASSUME s \notin odd PROVE Apart(r, c, master.offset, master.run)
  <2>1. slave[s].off <= master.offset
    BY <1>5, <1>6, OfSlave
  <2> QED BY <1>1, <1>3, <1>4, <1>5, <1>6, <2>1 DEF Apart
<1>7. ASSUME s \notin odd, NEW low \in Int, NEW h, Line(h, low), Stand(s, h, low)
      PROVE  Stands(r, c, saver, h, low, master.offset, master.data, master.run)
  <2>1. slave[s].state = "transfer"
    BY <1>2, <1>5, <1>7 DEF Stand, Stands
  <2>2. ~slave[s].cached
    BY <1>1, <1>7, <2>1 DEF Apart
  <2>3. /\ low <= slave[s].off /\ Reads(conn[s].out, h, slave[s].off, master.offset)
        /\ h[slave[s].off].db = -1 /\ Holds(conn[s].file, h, slave[s].off, master.data)
    BY <1>2, <1>7, <2>1 DEF Stand, Stands
  <2> QED BY <1>3, <1>4, <2>2, <2>3 DEF Stands
<1>8. UNCHANGED <<master, backlog, saver, odd>> /\ r.run <= master.run /\ (c.state # "none" => backlog.on)
  BY <1>1, <1>2, <1>3
<1>9. s \notin odd => \A low \in Int : \A h : Line(h, low) /\ Stand(s, h, low) =>
               Stands(r, c, saver, h, low, master.offset, master.data, master.run)
  BY <1>7
<1> QED BY <1>2, <1>3, <1>4, <1>6, <1>8, <1>9, OneSlave

(* What a slave makes of an item of the stream *)
Applied(r, item) ==
    IF item[1] = "select" THEN [r EXCEPT !.db = item[2], !.off = @ + 1]
    ELSE [r EXCEPT !.data = Append(@, <<r.db, item[2]>>), !.off = @ + 1]

LEMMA AppliedFacts ==
    ASSUME NEW r \in Replica, NEW item \in StreamItem
    PROVE  /\ Applied(r, item) \in Replica /\ Applied(r, item).state = r.state
           /\ Applied(r, item).run = r.run /\ Applied(r, item).cached = r.cached
           /\ Applied(r, item).off = r.off + 1
           /\ item[1] = "select" => /\ Applied(r, item).db = item[2]
                                    /\ Applied(r, item).data = r.data
           /\ item[1] # "select" => /\ Applied(r, item).db = r.db
                                    /\ Applied(r, item).data = Append(r.data, <<r.db, item[2]>>)
<1> DEFINE o == r.off + 1
<1>1. o \in Int /\ r.data \in Seq(Entry) /\ r.db \in {0, 1}
  BY DEF Replica
<1> HIDE DEF o
<1>2. CASE item[1] = "select"
  <2>1. item[2] \in {0, 1}
    BY <1>2 DEF StreamItem
  <2>2. Applied(r, item) = [r EXCEPT !.db = item[2], !.off = o]
    BY <1>2 DEF Applied, o
  <2>3. /\ Applied(r, item) \in Replica /\ Applied(r, item).state = r.state
        /\ Applied(r, item).run = r.run /\ Applied(r, item).cached = r.cached
        /\ Applied(r, item).off = o /\ Applied(r, item).db = item[2] /\ Applied(r, item).data = r.data
    BY <1>1, <2>1, <2>2 DEF Replica
  <2> QED BY <1>2, <2>3 DEF o
<1>3. CASE item[1] # "select"
  <2> DEFINE e == <<r.db, item[2]>>
             d == Append(r.data, e)
  <2>1. e \in Entry
    <3>1. item[2] \in Nat \X Nat
      BY <1>3 DEF StreamItem
    <3> QED BY <1>1, <3>1 DEF Entry
  <2>2. d \in Seq(Entry)
    BY <1>1, <2>1
  <2>3. Applied(r, item) = [r EXCEPT !.data = d, !.off = o]
    BY <1>3 DEF Applied, o
  <2> HIDE DEF d
  <2>4. /\ Applied(r, item) \in Replica /\ Applied(r, item).state = r.state
        /\ Applied(r, item).run = r.run /\ Applied(r, item).cached = r.cached
        /\ Applied(r, item).off = o /\ Applied(r, item).db = r.db /\ Applied(r, item).data = d
    BY <1>1, <2>2, <2>3 DEF Replica
  <2> QED BY <1>3, <2>4 DEF o, d
<1> QED BY <1>2, <1>3

LEMMA TailReads ==
    ASSUME NEW q \in Seq(StreamItem), q # <<>>, NEW o \in Int, NEW off \in Int, NEW h, Reads(q, h, o, off)
    PROVE  /\ Reads(Tail(q), h, o + 1, off) /\ o + 1 <= off
           /\ Head(q) = h[o + 1].item /\ Head(q) \in StreamItem /\ Tail(q) \in Seq(StreamItem)
<1>1. /\ Len(q) \in Nat \ {0} /\ Head(q) = q[1] /\ Head(q) \in StreamItem
      /\ Tail(q) \in Seq(StreamItem) /\ Len(Tail(q)) = Len(q) - 1
      /\ \A i \in 1..(Len(q) - 1) : Tail(q)[i] = q[i + 1]
  BY EmptySeq, HeadTailProperties
<1>2. o + Len(q) = off /\ \A i \in 1..Len(q) : q[i] = h[o + i].item
  BY DEF Reads
<1>3. (o + 1) + (Len(q) - 1) = off
  BY <1>1, <1>2
<1>4. ASSUME NEW i \in 1..(Len(q) - 1) PROVE Tail(q)[i] = h[(o + 1) + i].item
  <2>1. i + 1 \in 1..Len(q) /\ o + (i + 1) = (o + 1) + i
    BY <1>1
  <2> QED BY <1>1, <1>2, <2>1
<1> QED BY <1>1, <1>2, <1>3, <1>4 DEF Reads

LEMMA AppendStarts ==
    ASSUME NEW d \in Seq(Entry), NEW M \in Seq(Entry), NEW e \in Entry,
           Starts(d, M), Len(d) + 1 <= Len(M), M[Len(d) + 1] = e
    PROVE  Starts(Append(d, e), M) /\ Len(Append(d, e)) = Len(d) + 1
<1> DEFINE x == Append(d, e)
<1>1. /\ Len(x) = Len(d) + 1 /\ Len(d) \in Nat
      /\ \A i \in 1..Len(d) : x[i] = d[i]
      /\ x[Len(d) + 1] = e
  BY AppendProperties
<1> HIDE DEF x
<1>2. \A i \in 1..Len(d) : d[i] = M[i]
  BY DEF Starts
<1>3. ASSUME NEW i \in 1..Len(x) PROVE x[i] = M[i]
  <2>1. CASE i \in 1..Len(d)
    BY <1>1, <1>2, <2>1
  <2>2. CASE i = Len(d) + 1
    BY <1>1, <2>2
  <2> QED BY <1>1, <2>1, <2>2
<1> QED BY <1>1, <1>3 DEF Starts, x

(* Reading one item of a queue that is in step leaves the rest in step,    *)
(* and the dataset and the database are those of the next point.           *)
LEMMA AppliedStands ==
    ASSUME NEW r \in Replica, NEW q \in Seq(StreamItem), q # <<>>,
           NEW low \in Int, NEW off \in Int, NEW M \in Seq(Entry), NEW h, Stream(h, low, off, M),
           NEW o \in Int, low <= o, Reads(q, h, o, off), Holds(r.data, h, o, M), h[o].db \in {-1, r.db}
    PROVE  /\ Holds(Applied(r, Head(q)).data, h, o + 1, M)
           /\ h[o + 1].db \in {-1, Applied(r, Head(q)).db}
<1> DEFINE p == o + 1
           n == Applied(r, Head(q))
           it == Head(q)
<1>1. r.data \in Seq(Entry) /\ r.db \in {0, 1}
  BY DEF Replica
<1>2. it = h[p].item /\ it \in StreamItem /\ p <= off
  BY <1>1, TailReads
<1>3. /\ it[1] = "select" => n.db = it[2] /\ n.data = r.data
      /\ it[1] # "select" => n.db = r.db /\ n.data = Append(r.data, <<r.db, it[2]>>)
  BY <1>2, AppliedFacts
<1>4. p - 1 = o /\ p \in (low + 1)..off /\ o \in low..off
  BY <1>1, <1>2
<1>5. Follows(h[o], h[p], M)
  <2>1. Follows(h[p - 1], h[p], M)
    BY <1>4 DEF Stream
  <2> QED BY <1>4, <2>1
<1>6. h[o] \in Point /\ h[p] \in Point /\ h[p].num <= Len(M)
  <2>1. p \in low..off
    BY <1>4
  <2> QED BY <1>4, <2>1 DEF Stream
<1>7. Len(r.data) = h[o].num /\ Starts(r.data, M)
  BY DEF Holds
<1> HIDE DEF p, n, it
<1>8. CASE it[1] = "select"
  <2>1. h[p].num = h[o].num /\ h[p].db \in {it[2], -1}
    BY <1>2, <1>5, <1>8 DEF Follows
  <2>2. Holds(n.data, h, p, M) /\ h[p].db \in {-1, n.db}
    BY <1>3, <1>7, <1>8, <2>1 DEF Holds
  <2> QED BY <2>2 DEF p, n, it
<1>9. CASE it[1] # "select"
  <2> DEFINE e == <<r.db, it[2]>>
  <2>1. /\ h[p].num = h[o].num + 1 /\ M[h[p].num] = <<h[o].db, it[2]>>
        /\ h[p].db \in {h[o].db, -1}
    BY <1>2, <1>5, <1>9 DEF Follows
  <2>2. h[o].num \in Nat /\ h[p].num \in 1..Len(M) /\ M[h[p].num] \in Entry
    <3>1. h[o].num \in Nat
      BY <1>6 DEF Point
    <3>2. h[p].num \in 1..Len(M)
      BY <1>6, <2>1, <3>1
    <3> QED BY <3>1, <3>2
  <2>3. h[o].db = r.db
    <3>1. h[o].db \in {0, 1}
      BY <2>1, <2>2 DEF Entry
    <3> QED BY <3>1
  <2>4. e \in Entry /\ M[Len(r.data) + 1] = e /\ Len(r.data) + 1 <= Len(M)
    BY <1>7, <2>1, <2>2, <2>3
  <2> HIDE DEF e
  <2>5. Starts(Append(r.data, e), M) /\ Len(Append(r.data, e)) = Len(r.data) + 1
    BY <1>1, <1>7, <2>4, AppendStarts
  <2>6. n.db = r.db /\ n.data = Append(r.data, e)
    BY <1>3, <1>9 DEF e
  <2>7. Holds(n.data, h, p, M) /\ h[p].db \in {-1, n.db}
    BY <1>7, <2>1, <2>3, <2>5, <2>6 DEF Holds
  <2> QED BY <2>7 DEF p, n, it
<1> QED BY <1>8, <1>9

LEMMA ReceiveStep ==
    ASSUME ReplInv, NEW s \in Slaves, R!Receive(s)
    PROVE  ReplInv'
<1> DEFINE q == conn[s].out
           o == slave[s].off
           r == Applied(slave[s], Head(q))
           c == [conn[s] EXCEPT !.out = Tail(q)]
<1>1. /\ slave[s] \in Replica /\ conn[s] \in Link /\ slave[s].run <= master.run
      /\ conn[s].state # "none" => backlog.on
      /\ s \notin odd => Apart(slave[s], conn[s], master.offset, master.run)
      /\ master.offset \in Int /\ master.data \in Seq(Entry)
      /\ o \in Int /\ q \in Seq(StreamItem)
  BY OfSlave DEF Replica, Link
<1>2. /\ conn[s].state = "online" /\ q # <<>>
      /\ conn' = [conn EXCEPT ![s] = c] /\ UNCHANGED <<master, backlog, saver, odd>>
  BY DEF R!Receive
<1>3. slave' = [slave EXCEPT ![s] = r]
  BY <1>1 DEF R!Receive, Applied
<1>4. Head(q) \in StreamItem /\ Tail(q) \in Seq(StreamItem)
  BY <1>1, <1>2, EmptySeq, HeadTailProperties
<1>5. /\ r \in Replica /\ r.state = slave[s].state /\ r.run = slave[s].run /\ r.cached = slave[s].cached
      /\ r.off = o + 1
  BY <1>1, <1>4, AppliedFacts
<1> HIDE DEF o, r
<1>6. c \in Link /\ c.state = "online" /\ c.out = Tail(q)
  BY <1>1, <1>2, <1>4 DEF Link
<1> HIDE DEF c
<1>7. ASSUME s \notin odd PROVE slave[s].state \in {"connected", "transfer"} /\ o + Len(q) = master.offset
  BY <1>1, <1>2, <1>7, OfSlave DEF Apart, o
<1>8. ASSUME s \notin odd PROVE Apart(r, c, master.offset, master.run)
  <2>1. o + 1 <= master.offset
    <3>1. Len(q) \in Nat \ {0}
      BY <1>1, <1>2, EmptySeq
    <3> HIDE DEF q
    <3> QED BY <1>1, <1>7, <1>8, <3>1
  <2> QED BY <1>1, <1>2, <1>5, <1>6, <1>8, <2>1 DEF Apart
<1>9. ASSUME s \notin odd, NEW low \in Int, NEW h, Line(h, low), Stand(s, h, low)
      PROVE  Stands(r, c, saver, h, low, master.offset, master.data, master.run)
  <2>1. slave[s].state = "connected"
    BY <1>2, <1>7, <1>9 DEF Stand, Stands
  <2>2. /\ low <= o /\ Reads(q, h, o, master.offset)
        /\ Holds(slave[s].data, h, o, master.data) /\ h[o].db \in {-1, slave[s].db}
    BY <1>9, <2>1 DEF Stand, Stands, o
  <2>3. Stream(h, low, master.offset, master.data)
    BY <1>9 DEF Line
  <2>4. Reads(Tail(q), h, o + 1, master.offset)
    BY <1>1, <1>2, <2>2, TailReads
  <2>5. Holds(r.data, h, o + 1, master.data) /\ h[o + 1].db \in {-1, r.db}
    BY <1>1, <1>2, <2>2, <2>3, AppliedStands DEF r
  <2>6. low <= o + 1
    BY <1>1, <2>2
  <2> HIDE DEF q
  <2> QED BY <1>5, <1>6, <2>1, <2>4, <2>5, <2>6 DEF Stands
<1>10. UNCHANGED <<master, backlog, saver, odd>> /\ r.run <= master.run /\ (c.state # "none" => backlog.on)
  BY <1>1, <1>2, <1>5
<1>11. s \notin odd => \A low \in Int : \A h : Line(h, low) /\ Stand(s, h, low) =>
               Stands(r, c, saver, h, low, master.offset, master.data, master.run)
  BY <1>9
<1> QED BY <1>2, <1>3, <1>5, <1>6, <1>8, <1>10, <1>11, OneSlave

LEMMA NoBacklogFacts ==
    ASSUME R!ReplicationAssumption
    PROVE  /\ R!NoBacklog \in Backlogs /\ ~R!NoBacklog.on /\ R!NoBacklog.idx = 0 /\ R!NoBacklog.histlen = 0
           /\ \A o \in Int :
                /\ [R!NoBacklog EXCEPT !.on = TRUE, !.off = o] \in Backlogs
                /\ [R!NoBacklog EXCEPT !.on = TRUE, !.off = o].on
                /\ \A h : \A low \in Int : o > low =>
                     Ring([R!NoBacklog EXCEPT !.on = TRUE, !.off = o], h, low, o - 1)
<1>1. BacklogSize \in Nat \ {0}
  BY DEF R!ReplicationAssumption
<1>2. R!NoBacklog \in Backlogs /\ ~R!NoBacklog.on /\ R!NoBacklog.idx = 0 /\ R!NoBacklog.histlen = 0
  BY <1>1 DEF R!NoBacklog, Backlogs, Cell
<1>3. ASSUME NEW o \in Int
      PROVE  LET b == [R!NoBacklog EXCEPT !.on = TRUE, !.off = o]
             IN  b \in Backlogs /\ b.on /\ b.off = o /\ b.idx = 0 /\ b.histlen = 0
  BY <1>2 DEF Backlogs
<1>4. ASSUME NEW o \in Int, NEW h, NEW low \in Int, o > low
      PROVE  Ring([R!NoBacklog EXCEPT !.on = TRUE, !.off = o], h, low, o - 1)
  <2> DEFINE b == [R!NoBacklog EXCEPT !.on = TRUE, !.off = o]
  <2>1. b \in Backlogs /\ b.off = o /\ b.idx = 0 /\ b.histlen = 0
    BY <1>3
  <2> HIDE DEF b
  <2>2. b.off = (o - 1) + 1 - b.histlen /\ 1..b.histlen = {}
    BY <2>1
  <2>3. Ring(b, h, low, o - 1)
    BY <1>1, <1>4, <2>1, <2>2 DEF Ring
  <2> QED BY <2>3 DEF b
<1> QED BY <1>2, <1>3, <1>4

LEMMA BgsaveStep ==
    ASSUME ReplInv, R!Bgsave
    PROVE  ReplInv'
<1>1. saver = R!NoChild /\ saver' = master.data /\ UNCHANGED <<master, backlog, conn, slave, odd>>
  BY DEF R!Bgsave
<1>2. ReplType'
  BY <1>1 DEF ReplInv, ReplType
<1>3. \A s \in Slaves, low \in Int : \A h : Stand(s, h, low) => Stand(s, h, low)'
  BY <1>1 DEF Stand, Stands
<1>4. \A low \in Int : \A h : Line(h, low) => Line(h, low)'
  BY <1>1 DEF Line
<1> QED BY <1>1, <1>2, <1>3, <1>4 DEF ReplInv

(* The slaves that waited for a child are sent the file or dropped; no     *)
(* exact slave depends on the next child.                                  *)
LEMMA SnapshotStands ==
    ASSUME NEW r \in Replica, NEW c \in Link, NEW kid \in Seq(Entry), NEW low, NEW h,
           NEW off, NEW M, NEW run, NEW next,
           Apart(r, c, off, run), Stands(r, c, kid, h, low, off, M, run), r.state = "connected" => r.off <= off,
           NEW r2, NEW c2,
           \/ c.state \in {"send_bulk", "online", "none"} /\ c2 = c /\ r2 = r
           \/ c.state = "wait_end" /\ c2 = [c EXCEPT !.state = "send_bulk", !.file = kid] /\ r2 = r
           \/ c.state = "wait_end" /\ c2 = R!NoConn /\ r2 = R!Disconnected(r)
    PROVE  Apart(r2, c2, off, run) /\ Stands(r2, c2, next, h, low, off, M, run)
<1>1. CASE c.state \in {"send_bulk", "online", "none"} /\ c2 = c /\ r2 = r
  BY <1>1 DEF Stands
<1>2. CASE c.state = "wait_end" /\ c2 = [c EXCEPT !.state = "send_bulk", !.file = kid] /\ r2 = r
  <2>1. c2.state = "send_bulk" /\ c2.file = kid /\ c2.out = c.out
    BY <1>2 DEF Link
  <2>2. r.state # "connected"
    BY <1>2 DEF Stands
  <2> QED BY <1>2, <2>1, <2>2 DEF Apart, Stands
<1>3. CASE c.state = "wait_end" /\ c2 = R!NoConn /\ r2 = R!Disconnected(r)
  <2>1. /\ r2 \in Replica /\ r2.state \notin {"connected", "transfer"}
        /\ r2.run = r.run /\ r2.data = r.data /\ r2.off = r.off /\ r2.db = r.db
        /\ r2.cached => r.cached \/ r.state = "connected"
    BY <1>3, DisconnectedFacts
  <2>2. c2.state = "none"
    BY <1>3, NoConnFacts
  <2>3. r.state = "transfer" /\ ~r.cached
    BY <1>3 DEF Apart, Stands
  <2> QED BY <2>1, <2>2, <2>3 DEF Apart, Stands
<1> QED BY <1>1, <1>2, <1>3

LEMMA ChildDoneStep ==
    ASSUME ReplInv, NEW ended \in BOOLEAN, R!ChildDone(ended)
    PROVE  ReplInv'
<1>1. /\ saver \in Seq(Entry) /\ saver' \in Seq(Entry) \cup {R!NoChild}
      /\ master' \in {master, [master EXCEPT !.rdb = saver]} /\ UNCHANGED <<backlog, odd>>
      /\ conn' = [s \in Slaves |->
           CASE conn[s].state = "wait_start" -> [conn[s] EXCEPT !.state = "wait_end"]
             [] conn[s].state = "wait_end" ->
                  IF ended THEN [conn[s] EXCEPT !.state = "send_bulk", !.file = saver] ELSE R!NoConn
             [] OTHER -> conn[s]]
  BY DEF ReplInv, ReplType, R!ChildDone
<1>2. slave' = [s \in Slaves |->
         IF ~ended /\ conn[s].state = "wait_end" THEN R!Disconnected(slave[s]) ELSE slave[s]]
  BY DEF R!ChildDone, R!Attached
<1>3. /\ master'.run = master.run /\ master'.data = master.data /\ master'.offset = master.offset
      /\ master'.seldb = master.seldb
      /\ master' \in [run : Nat, data : Seq(Entry), offset : Int, seldb : {-1, 0, 1}, rdb : Seq(Entry)]
  BY <1>1 DEF ReplInv, ReplType
<1>4. ASSUME NEW s \in Slaves
      PROVE  /\ slave[s] \in Replica /\ conn[s] \in Link /\ slave[s].run <= master.run
             /\ conn[s].state # "none" => backlog.on
             /\ s \notin odd => Apart(slave[s], conn[s], master.offset, master.run)
             /\ s \notin odd /\ slave[s].state = "connected" => slave[s].off <= master.offset
  BY OfSlave
<1>5. ASSUME NEW s \in Slaves
      PROVE  /\ conn[s].state = "wait_start" =>
                   slave'[s] = slave[s] /\ conn'[s] = [conn[s] EXCEPT !.state = "wait_end"]
             /\ conn[s].state \in {"send_bulk", "online", "none"} =>
                   slave'[s] = slave[s] /\ conn'[s] = conn[s]
             /\ conn[s].state = "wait_end" =>
                  \/ slave'[s] = slave[s] /\ conn'[s] = [conn[s] EXCEPT !.state = "send_bulk", !.file = saver]
                  \/ slave'[s] = R!Disconnected(slave[s]) /\ conn'[s] = R!NoConn
  BY <1>1, <1>2
<1>6. ASSUME NEW s \in Slaves
      PROVE  /\ slave'[s] \in Replica /\ conn'[s] \in Link /\ slave'[s].run = slave[s].run
             /\ conn[s].state = "none" => conn'[s].state = "none"
  <2>1. conn[s].state \in {"none", "wait_start", "wait_end", "send_bulk", "online"}
    BY <1>4 DEF Link
  <2>2. /\ R!Disconnected(slave[s]) \in Replica /\ R!Disconnected(slave[s]).run = slave[s].run
        /\ R!NoConn \in Link
    BY <1>4, DisconnectedFacts, NoConnFacts
  <2>3. [conn[s] EXCEPT !.state = "wait_end"] \in Link
        /\ [conn[s] EXCEPT !.state = "send_bulk", !.file = saver] \in Link
    BY <1>1, <1>4 DEF Link
  <2> QED BY <1>4, <1>5, <2>1, <2>2, <2>3
<1>7. ReplType'
  <2>1. slave' \in [Slaves -> Replica] /\ conn' \in [Slaves -> Link]
    BY <1>1, <1>2, <1>6
  <2> QED BY <1>1, <1>3, <2>1 DEF ReplInv, ReplType
<1>8. ASSUME NEW s \in Slaves \ odd, backlog.on, NEW low \in Int, NEW h, Line(h, low), Stand(s, h, low)
      PROVE  Apart(slave'[s], conn'[s], master'.offset, master'.run) /\ Stand(s, h, low)'
  <2>1. Stands(slave[s], conn[s], saver, h, low, master.offset, master.data, master.run)
    BY <1>8 DEF Stand
  <2>2. conn[s].state \in {"none", "wait_end", "send_bulk", "online"}
    BY <1>4, <2>1 DEF Apart, Stands, Link
  <2>3. /\ Apart(slave'[s], conn'[s], master.offset, master.run)
        /\ Stands(slave'[s], conn'[s], saver', h, low, master.offset, master.data, master.run)
    <3> DEFINE r == slave[s]
               c == conn[s]
               r2 == slave'[s]
               c2 == conn'[s]
    <3>1. /\ r \in Replica /\ c \in Link /\ saver \in Seq(Entry)
          /\ Apart(r, c, master.offset, master.run)
          /\ Stands(r, c, saver, h, low, master.offset, master.data, master.run)
          /\ r.state = "connected" => r.off <= master.offset
      BY <1>1, <1>4, <1>8, <2>1
    <3>2. \/ c.state \in {"send_bulk", "online", "none"} /\ c2 = c /\ r2 = r
          \/ c.state = "wait_end" /\ c2 = [c EXCEPT !.state = "send_bulk", !.file = saver] /\ r2 = r
          \/ c.state = "wait_end" /\ c2 = R!NoConn /\ r2 = R!Disconnected(r)
      BY <1>5, <2>2
    <3> HIDE DEF r, c, r2, c2
    <3>3. /\ Apart(r2, c2, master.offset, master.run)
          /\ Stands(r2, c2, saver', h, low, master.offset, master.data, master.run)
      BY <3>1, <3>2, SnapshotStands
    <3> QED BY <3>3 DEF r2, c2
  <2> QED BY <1>3, <2>3 DEF Stand
<1>9. ASSUME NEW s \in Slaves
      PROVE  /\ slave'[s].run <= master'.run
             /\ conn'[s].state # "none" => backlog'.on
             /\ s \notin odd' => Apart(slave'[s], conn'[s], master'.offset, master'.run)
  <2>1. slave'[s].run <= master'.run /\ (conn'[s].state # "none" => backlog'.on)
    BY <1>1, <1>3, <1>4, <1>6
  <2>2. ASSUME s \notin odd' PROVE Apart(slave'[s], conn'[s], master'.offset, master'.run)
    <3>1. CASE ~backlog.on
      BY <1>1, <1>3, <1>4, <1>5, <2>2, <3>1
    <3>2. CASE backlog.on
      <4>1. PICK low \in Int : \E h : Line(h, low) /\ \A t \in Slaves \ odd : Stand(t, h, low)
        BY <3>2 DEF ReplInv
      <4>2. PICK h : Line(h, low) /\ \A t \in Slaves \ odd : Stand(t, h, low)
        BY <4>1
      <4> QED BY <1>1, <1>8, <2>2, <3>2, <4>2
    <3> QED BY <3>1, <3>2
  <2> QED BY <2>1, <2>2
<1>10. ASSUME backlog'.on
       PROVE  \E low \in Int : \E h : Line(h, low)' /\ \A t \in Slaves \ odd' : Stand(t, h, low)'
  <2>1. PICK low \in Int : \E h : Line(h, low) /\ \A t \in Slaves \ odd : Stand(t, h, low)
    BY <1>1, <1>10 DEF ReplInv
  <2>2. PICK h : Line(h, low) /\ \A t \in Slaves \ odd : Stand(t, h, low)
    BY <2>1
  <2>3. Line(h, low)'
    BY <1>1, <1>3, <2>2 DEF Line
  <2>4. \A t \in Slaves \ odd' : Stand(t, h, low)'
    BY <1>1, <1>8, <1>10, <2>2
  <2> QED BY <2>3, <2>4
<1> QED BY <1>7, <1>9, <1>10 DEF ReplInv

LEMMA MasterRestartStep ==
    ASSUME R!ReplicationAssumption, ReplInv, R!MasterRestart
    PROVE  ReplInv'
<1>1. /\ master' = [run |-> master.run + 1, data |-> master.rdb, offset |-> 0, seldb |-> -1,
                    rdb |-> master.rdb]
      /\ backlog' = R!NoBacklog /\ saver' = R!NoChild /\ odd' = odd
      /\ conn' = [s \in Slaves |-> R!NoConn] /\ slave' = [s \in Slaves |-> R!Disconnected(slave[s])]
  BY DEF R!MasterRestart
<1>2. ~backlog'.on /\ backlog' \in Backlogs
  BY <1>1, NoBacklogFacts
<1>3. ASSUME NEW s \in Slaves
      PROVE  /\ slave'[s] \in Replica /\ conn'[s] \in Link
             /\ slave'[s].run <= master'.run /\ conn'[s].state = "none"
             /\ Apart(slave'[s], conn'[s], master'.offset, master'.run)
  <2>1. slave[s] \in Replica /\ slave[s].run <= master.run /\ master.run \in Nat /\ slave[s].run \in Nat
    BY OfSlave DEF Replica
  <2>2. /\ slave'[s] \in Replica /\ slave'[s].state \notin {"connected", "transfer"}
        /\ slave'[s].run = slave[s].run
    BY <1>1, <2>1, DisconnectedFacts
  <2>3. conn'[s] \in Link /\ conn'[s].state = "none"
    BY <1>1, NoConnFacts
  <2>4. master'.run = master.run + 1
    BY <1>1
  <2>5. slave'[s].run # master'.run /\ slave'[s].run <= master'.run
    BY <2>1, <2>2, <2>4
  <2> QED BY <2>2, <2>3, <2>5 DEF Apart
<1>4. ReplType'
  <2>1. slave' \in [Slaves -> Replica] /\ conn' \in [Slaves -> Link]
    BY <1>1, <1>3
  <2>2. master' \in [run : Nat, data : Seq(Entry), offset : Int, seldb : {-1, 0, 1}, rdb : Seq(Entry)]
    BY <1>1 DEF ReplInv, ReplType
  <2> QED BY <1>1, <1>2, <2>1, <2>2 DEF ReplType
<1> QED BY <1>2, <1>3, <1>4 DEF ReplInv

LEMMA BacklogSteps ==
    ASSUME R!ReplicationAssumption, ReplInv, R!ResizeReplicationBacklog \/ R!FreeReplicationBacklog
    PROVE  ReplInv'
<1>1. UNCHANGED <<master, saver, conn, slave, odd>> /\ master.offset \in Int
  BY DEF R!ResizeReplicationBacklog, R!FreeReplicationBacklog, ReplInv, ReplType
<1>2. CASE R!ResizeReplicationBacklog
  <2> DEFINE o == master.offset + 1
  <2>1. backlog.on /\ backlog' = [R!NoBacklog EXCEPT !.on = TRUE, !.off = o] /\ o \in Int
    BY <1>1, <1>2 DEF R!ResizeReplicationBacklog
  <2> HIDE DEF o
  <2>2. backlog' \in Backlogs /\ backlog'.on
    BY <2>1, NoBacklogFacts
  <2>3. ReplType'
    BY <1>1, <2>2 DEF ReplInv, ReplType
  <2>4. ASSUME NEW low \in Int, NEW h, Line(h, low) PROVE Line(h, low)'
    <3>1. o > low /\ o - 1 = master.offset
      BY <1>1, <2>4 DEF Line, Stream, o
    <3>2. Ring(backlog', h, low, o - 1)
      BY <2>1, <3>1, NoBacklogFacts
    <3> QED BY <1>1, <2>4, <3>1, <3>2 DEF Line
  <2>5. \A s \in Slaves, low \in Int : \A h : Stand(s, h, low) => Stand(s, h, low)'
    BY <1>1 DEF Stand
  <2> QED BY <1>1, <2>1, <2>2, <2>3, <2>4, <2>5 DEF ReplInv
<1>3. CASE R!FreeReplicationBacklog
  <2>1. backlog' = R!NoBacklog /\ \A s \in Slaves : conn[s].state = "none"
    BY <1>3 DEF R!FreeReplicationBacklog, R!Attached
  <2>2. backlog' \in Backlogs /\ ~backlog'.on
    BY <2>1, NoBacklogFacts
  <2>3. ReplType'
    BY <1>1, <2>2 DEF ReplInv, ReplType
  <2> QED BY <1>1, <2>1, <2>2, <2>3 DEF ReplInv
<1> QED BY <1>2, <1>3

(* One item is fed to the backlog. *)
LEMMA FeedOne ==
    ASSUME R!ReplicationAssumption, NEW low \in Int, NEW h, NEW off \in Int,
           NEW M \in Seq(Entry), Stream(h, low, off, M), NEW b, Ring(b, h, low, off),
           NEW M2 \in Seq(Entry), Starts(M, M2), NEW p \in Point, p.num <= Len(M2),
           Follows(h[off], p, M2)
    PROVE  LET g == Grown(h, low, off, p) IN
           /\ Stream(g, low, off + 1, M2) /\ g[off + 1] = p
           /\ \A o \in low..off : g[o] = h[o]
           /\ Ring(R!FeedReplicationBacklog(b, p.item, off + 1), g, low, off + 1)
<1> DEFINE g == Grown(h, low, off, p)
<1>1. Stream(g, low, off + 1, M2) /\ g[off + 1] = p /\ \A o \in low..off : g[o] = h[o]
  BY StreamGrows
<1>2. p.item \in StreamItem
  BY DEF Point
<1> HIDE DEF g
<1>3. Ring(R!FeedReplicationBacklog(b, p.item, off + 1), g, low, off + 1)
  BY <1>1, <1>2, RingGrows
<1> QED BY <1>1, <1>3 DEF g

LEMMA TwoItems ==
    ASSUME NEW T, NEW x \in T, NEW y \in T
    PROVE  /\ <<x>> \in Seq(T) /\ <<x>>[1] = x /\ <<x>> # <<>>
           /\ Append(<<x>>, y) \in Seq(T) /\ Len(Append(<<x>>, y)) = 2
           /\ Append(<<x>>, y)[1] = x /\ Append(<<x>>, y)[2] = y
<1>1. <<x>> \in Seq(T) /\ Len(<<x>>) = 1 /\ <<x>>[1] = x /\ <<x>> # <<>>
  OBVIOUS
<1>2. /\ Append(<<x>>, y) \in Seq(T) /\ Len(Append(<<x>>, y)) = Len(<<x>>) + 1
      /\ \A i \in 1..Len(<<x>>) : Append(<<x>>, y)[i] = <<x>>[i]
      /\ Append(<<x>>, y)[Len(<<x>>) + 1] = y
  BY <1>1, AppendProperties
<1> QED BY <1>1, <1>2

(* What the feed of a command makes of the stream and of the backlog *)
Selects(sd, db) == IF sd # db THEN <<<<"select", db>>>> ELSE <<>>
FedBacklog(b, sel, item, off) ==
    R!FeedReplicationBacklog(IF sel = <<>> THEN b ELSE R!FeedReplicationBacklog(b, sel[1], off + 1),
                             item, off + Len(Append(sel, item)))

(* g continues h from off to off2: M2 is the dataset, q the new items, db  *)
(* the selected database and b the backlog then.                           *)
Continues(g, h, low, off, off2, M2, q, db, b) ==
    /\ Stream(g, low, off2, M2) /\ g[off2].num = Len(M2) /\ g[off2].db = db
    /\ Ring(b, g, low, off2) /\ Reads(q, g, off, off2)
    /\ \A o \in low..off : g[o] = h[o]

(* The stream h ends at off: what holds there of the dataset M, the        *)
(* selected database sd and the backlog b                                  *)
Tip(h, low, off, M, sd, b) ==
    /\ low \in Int /\ off \in Int /\ M \in Seq(Entry) /\ Stream(h, low, off, M)
    /\ Ring(b, h, low, off) /\ h[off].num = Len(M) /\ sd \in {-1, h[off].db}

LEMMA FeedBoth ==
    ASSUME R!ReplicationAssumption, NEW low, NEW h, NEW off, NEW M, NEW sd, NEW b,
           Tip(h, low, off, M, sd, b), NEW db \in {0, 1}, NEW cmd \in Nat \X Nat,
           NEW sel, sel = Selects(sd, db),
           NEW items, items = Append(sel, <<"command", cmd>>)
    PROVE  /\ items \in Seq(StreamItem) /\ sel \in Seq(StreamItem) /\ Starts(M, Append(M, <<db, cmd>>))
           /\ \E g : Continues(g, h, low, off, off + Len(items), Append(M, <<db, cmd>>), items, db,
                               FedBacklog(b, sel, <<"command", cmd>>, off))
<1>0. /\ low \in Int /\ off \in Int /\ M \in Seq(Entry) /\ Stream(h, low, off, M)
      /\ Ring(b, h, low, off) /\ h[off].num = Len(M) /\ sd \in {-1, h[off].db}
  BY DEF Tip
<1> DEFINE e == <<db, cmd>>
           M2 == Append(M, e)
           item == <<"command", cmd>>
           si == <<"select", db>>
           p == [num |-> Len(M) + 1, db |-> db, item |-> item]
<1>1. /\ e \in Entry /\ item \in StreamItem /\ si \in StreamItem
      /\ si[1] = "select" /\ si[2] = db /\ item[1] = "command" /\ item[2] = cmd
  BY DEF Entry, StreamItem
<1> HIDE DEF e
<1>2. /\ M2 \in Seq(Entry) /\ Len(M2) = Len(M) + 1 /\ M2[Len(M) + 1] = e /\ Len(M) \in Nat
      /\ \A i \in 1..Len(M) : M2[i] = M[i]
  BY <1>0, <1>1, AppendProperties
<1> HIDE DEF M2
<1>3. Starts(M, M2) /\ Starts(M, M) /\ Starts(M2, M2)
  BY <1>0, <1>2 DEF Starts
<1>4. p \in Point /\ p.num = Len(M) + 1 /\ p.db = db /\ p.item = item /\ p.num <= Len(M2)
  BY <1>0, <1>1, <1>2 DEF Point
<1>5. low <= off /\ h[off] \in Point
  BY <1>0 DEF Stream
<1> HIDE DEF p
<1>6. CASE sd = db
  <2>1. sel = <<>> /\ items = <<item>> /\ Len(items) = 1 /\ items[1] = item
    BY <1>6 DEF Selects
  <2>2. Follows(h[off], p, M2)
    BY <1>0, <1>2, <1>4, <1>6 DEF Follows, e
  <2> DEFINE g == Grown(h, low, off, p)
  <2>3. /\ Stream(g, low, off + 1, M2) /\ g[off + 1] = p
        /\ \A o \in low..off : g[o] = h[o]
        /\ Ring(R!FeedReplicationBacklog(b, p.item, off + 1), g, low, off + 1)
    BY <1>0, <1>2, <1>3, <1>4, <2>2, FeedOne
  <2> HIDE DEF g
  <2>4. FedBacklog(b, sel, item, off) = R!FeedReplicationBacklog(b, p.item, off + 1)
    BY <1>4, <2>1 DEF FedBacklog
  <2>5. Reads(items, g, off, off + 1)
    <3>1. \A i \in 1..1 : i = 1
      OBVIOUS
    <3> HIDE DEF item
    <3> QED BY <1>4, <2>1, <2>3, <3>1 DEF Reads
  <2>6. items \in Seq(StreamItem) /\ sel \in Seq(StreamItem)
    BY <1>1, <2>1
  <2>7. Continues(g, h, low, off, off + Len(items), M2, items, db, FedBacklog(b, sel, item, off))
    BY <1>2, <1>4, <2>1, <2>3, <2>4, <2>5 DEF Continues
  <2> QED BY <1>3, <2>6, <2>7 DEF M2, e
<1>7. CASE sd # db
  <2> DEFINE p1 == [num |-> Len(M), db |-> db, item |-> si]
  <2> HIDE DEF si, item
  <2>1. /\ Len(items) = 2 /\ items[1] = si /\ items[2] = item /\ items \in Seq(StreamItem)
        /\ sel \in Seq(StreamItem) /\ sel[1] = si /\ sel # <<>> /\ items = Append(sel, item)
    <3> DEFINE one == <<si>>
               two == Append(<<si>>, item)
    <3>1. sel = one /\ items = two
      BY <1>7 DEF si, item, Selects
    <3>2. /\ Len(two) = 2 /\ two[1] = si /\ two[2] = item /\ two \in Seq(StreamItem)
          /\ one \in Seq(StreamItem) /\ one[1] = si /\ one # <<>> /\ two = Append(one, item)
      BY <1>1, TwoItems
    <3> HIDE DEF one, two
    <3> QED BY <3>1, <3>2
  <2>2. p1 \in Point /\ p1.num = Len(M) /\ p1.db = db /\ p1.item = si
    BY <1>1, <1>2 DEF Point
  <2> HIDE DEF p1
  <2>3. Follows(h[off], p1, M)
    BY <1>0, <1>1, <2>2 DEF Follows
  <2> DEFINE f == Grown(h, low, off, p1)
  <2>13. p1.num <= Len(M)
    BY <1>2, <2>2
  <2>4. /\ Stream(f, low, off + 1, M) /\ f[off + 1] = p1
        /\ \A o \in low..off : f[o] = h[o]
        /\ Ring(R!FeedReplicationBacklog(b, p1.item, off + 1), f, low, off + 1)
    BY <1>0, <1>2, <1>3, <2>2, <2>3, <2>13, FeedOne
  <2> HIDE DEF f
  <2> DEFINE b1 == R!FeedReplicationBacklog(b, p1.item, off + 1)
             off1 == off + 1
  <2>5. Follows(f[off1], p, M2)
    BY <1>0, <1>1, <1>2, <1>4, <2>2, <2>4 DEF Follows, e
  <2>6. off1 \in Int /\ Stream(f, low, off1, M) /\ Ring(b1, f, low, off1)
    BY <1>0, <2>4
  <2> HIDE DEF b1, off1
  <2> DEFINE g == Grown(f, low, off1, p)
  <2>7. /\ Stream(g, low, off1 + 1, M2) /\ g[off1 + 1] = p
        /\ \A o \in low..off1 : g[o] = f[o]
        /\ Ring(R!FeedReplicationBacklog(b1, p.item, off1 + 1), g, low, off1 + 1)
    BY <1>0, <1>2, <1>3, <1>4, <2>5, <2>6, FeedOne
  <2> HIDE DEF g
  <2>8. off1 + 1 = off + 2 /\ off1 = off + 1
    BY <1>0 DEF off1
  <2>9. FedBacklog(b, sel, item, off) = R!FeedReplicationBacklog(b1, p.item, off + 2)
    <3>1. FedBacklog(b, sel, item, off) = R!FeedReplicationBacklog(b1, item, off + Len(Append(sel, item)))
      BY <2>1, <2>2 DEF FedBacklog, b1
    <3> QED BY <1>4, <2>1, <3>1
  <2>10. g[off + 1] = p1 /\ \A o \in low..off : g[o] = h[o]
    <3>1. off1 \in low..off1 /\ \A o \in low..off : o \in low..off1
      BY <1>0, <1>5, <2>8
    <3>2. g[off1] = f[off1] /\ f[off1] = p1
      BY <2>4, <2>7, <2>8, <3>1
    <3>3. \A o \in low..off : g[o] = f[o] /\ f[o] = h[o]
      BY <2>4, <2>7, <3>1
    <3> QED BY <2>8, <3>2, <3>3
  <2>11. Reads(items, g, off, off + 2)
    <3>1. \A i \in 1..2 : i = 1 \/ i = 2
      OBVIOUS
    <3>2. items[1] = g[off + 1].item /\ items[2] = g[off + 2].item
      BY <1>4, <2>1, <2>2, <2>7, <2>8, <2>10
    <3> QED BY <2>1, <3>1, <3>2 DEF Reads
  <2>12. Continues(g, h, low, off, off + Len(items), M2, items, db, FedBacklog(b, sel, item, off))
    BY <1>2, <1>4, <2>1, <2>7, <2>8, <2>9, <2>10, <2>11 DEF Continues
  <2> QED BY <1>3, <2>1, <2>12 DEF M2, e, item, si
<1> QED BY <1>6, <1>7

LEMMA MasterWriteStep ==
    ASSUME R!ReplicationAssumption, ReplInv, R!Write
    PROVE  ReplInv'
<1> DEFINE n == Len(master.data) + 1
           db == n % 2
           cmd == <<master.run, n>>
           M == master.data
           M2 == Append(M, <<db, cmd>>)
           off == master.offset
           sel == Selects(master.seldb, db)
           item == <<"command", cmd>>
           items == Append(sel, item)
           m == [master EXCEPT !.data = M2]
<1>1. /\ M \in Seq(Entry) /\ off \in Int /\ master.run \in Nat /\ master.seldb \in {-1, 0, 1}
      /\ master \in [run : Nat, data : Seq(Entry), offset : Int, seldb : {-1, 0, 1}, rdb : Seq(Entry)]
      /\ backlog \in Backlogs /\ saver \in Seq(Entry) \cup {R!NoChild}
  BY DEF ReplInv, ReplType
<1>2. UNCHANGED <<saver, slave, odd>> /\ R!ReplicationFeedSlaves(db, cmd, m)
  BY DEF R!Write
<1>3. db \in {0, 1} /\ cmd \in Nat \X Nat /\ <<db, cmd>> \in Entry
  <2>1. n \in Nat
    BY <1>1
  <2> HIDE DEF n
  <2>2. n % 2 \in {0, 1}
    BY <2>1
  <2> QED BY <1>1, <2>1, <2>2 DEF Entry
<1>4. m.seldb = master.seldb /\ m.offset = off /\ m.data = M2 /\ m.run = master.run /\ m.rdb = master.rdb
      /\ M2 \in Seq(Entry)
      /\ m \in [run : Nat, data : Seq(Entry), offset : Int, seldb : {-1, 0, 1}, rdb : Seq(Entry)]
  <2> HIDE DEF cmd, db
  <2>1. M2 \in Seq(Entry)
    BY <1>1, <1>3, AppendProperties
  <2> HIDE DEF M2
  <2> QED BY <1>1, <2>1
<1>5. \/ ~backlog.on /\ R!Attached = {} /\ master' = m /\ UNCHANGED <<backlog, conn>>
      \/ /\ ~(~backlog.on /\ R!Attached = {})
         /\ master' = [m EXCEPT !.seldb = db, !.offset = m.offset + Len(items)]
         /\ backlog' = FedBacklog(backlog, sel, item, off)
         /\ conn' = [s \in Slaves |->
              IF s \notin R!Attached THEN conn[s]
              ELSE [conn[s] EXCEPT !.out = conn[s].out \o (IF conn[s].state = "wait_start" THEN sel ELSE items)]]
  <2> HIDE DEF m, cmd, db, n
  <2> QED BY <1>2, <1>4 DEF R!ReplicationFeedSlaves, FedBacklog, Selects
<1> HIDE DEF m, cmd, db, n, sel, items, item, M2
<1>6. CASE ~backlog.on /\ R!Attached = {} /\ master' = m /\ UNCHANGED <<backlog, conn>>
  <2>1. ReplType'
    BY <1>2, <1>4, <1>6 DEF ReplInv, ReplType
  <2>2. master'.offset = master.offset /\ master'.run = master.run
    BY <1>4, <1>6
  <2> QED BY <1>2, <1>6, <2>1, <2>2 DEF ReplInv
<1>7. CASE /\ ~(~backlog.on /\ R!Attached = {})
           /\ master' = [m EXCEPT !.seldb = db, !.offset = m.offset + Len(items)]
           /\ backlog' = FedBacklog(backlog, sel, item, off)
           /\ conn' = [s \in Slaves |->
                IF s \notin R!Attached THEN conn[s]
                ELSE [conn[s] EXCEPT !.out = conn[s].out \o (IF conn[s].state = "wait_start" THEN sel ELSE items)]]
  <2>1. backlog.on
    BY <1>7 DEF ReplInv, R!Attached
  <2>2. PICK low \in Int : \E h : Line(h, low) /\ \A s \in Slaves \ odd : Stand(s, h, low)
    BY <2>1 DEF ReplInv
  <2>3. PICK h : Line(h, low) /\ \A s \in Slaves \ odd : Stand(s, h, low)
    BY <2>2
  <2>4. /\ Stream(h, low, off, M) /\ h[off].num = Len(M) /\ master.seldb \in {-1, h[off].db}
        /\ Ring(backlog, h, low, off) /\ low <= off
    BY <2>3 DEF Line, Stream
  <2>5. /\ items \in Seq(StreamItem) /\ sel \in Seq(StreamItem) /\ Starts(M, M2)
        /\ \E g : Continues(g, h, low, off, off + Len(items), M2, items, db, FedBacklog(backlog, sel, item, off))
    <3> DEFINE sd == master.seldb
    <3>1. Tip(h, low, off, M, sd, backlog)
      BY <1>1, <2>4 DEF Tip
    <3>2. sel = Selects(sd, db) /\ items = Append(sel, <<"command", cmd>>)
      BY DEF sel, items, item
    <3> HIDE DEF sd, M, off
    <3>3. /\ items \in Seq(StreamItem) /\ sel \in Seq(StreamItem) /\ Starts(M, Append(M, <<db, cmd>>))
          /\ \E g : Continues(g, h, low, off, off + Len(items), Append(M, <<db, cmd>>), items, db,
                              FedBacklog(backlog, sel, <<"command", cmd>>, off))
      BY <1>3, <3>1, <3>2, FeedBoth
    <3> QED BY <3>3 DEF M2, item
  <2> DEFINE off2 == off + Len(items)
  <2>6. PICK g : Continues(g, h, low, off, off2, M2, items, db, backlog')
    BY <1>7, <2>5
  <2>7. /\ master'.offset = off2 /\ master'.data = M2 /\ master'.seldb = db /\ master'.run = master.run
        /\ off2 \in Int /\ off <= off2
        /\ master' \in [run : Nat, data : Seq(Entry), offset : Int, seldb : {-1, 0, 1}, rdb : Seq(Entry)]
    <3>1. off2 \in Int /\ off <= off2
      BY <1>1, <2>5, LenProperties
    <3> HIDE DEF off2
    <3>2. master' = [m EXCEPT !.seldb = db, !.offset = off2]
      BY <1>4, <1>7 DEF off2
    <3> QED BY <1>3, <1>4, <3>1, <3>2
  <2> HIDE DEF off2, M, off
  <2>8. /\ Stream(g, low, off2, M2) /\ g[off2].num = Len(M2) /\ g[off2].db = db
        /\ Ring(backlog', g, low, off2) /\ Reads(items, g, off, off2)
        /\ \A o \in low..off : g[o] = h[o]
    BY <2>6 DEF Continues
  <2>9. Line(g, low)'
    BY <2>7, <2>8 DEF Line
  <2>10. backlog' \in Backlogs /\ backlog'.on
    <3>1. backlog' \in Backlogs
      BY <2>8 DEF Ring
    <3>2. \A b \in Backlogs : \A i : \A o : R!FeedReplicationBacklog(b, i, o).on = b.on
      BY DEF Backlogs, R!FeedReplicationBacklog
    <3>3. backlog'.on = backlog.on
      BY <1>1, <1>7, <3>2 DEF FedBacklog, Backlogs, R!FeedReplicationBacklog
    <3> QED BY <2>1, <3>1, <3>3
  <2>11. ASSUME NEW s \in Slaves
         PROVE  /\ slave[s] \in Replica /\ conn[s] \in Link /\ conn'[s] \in Link
                /\ conn'[s].state = conn[s].state /\ conn'[s].file = conn[s].file
                /\ conn[s].state \notin {"none", "wait_start"} => conn'[s].out = conn[s].out \o items
    <3>1. slave[s] \in Replica /\ conn[s] \in Link
      BY OfSlave
    <3>2. CASE conn[s].state = "none"
      BY <1>7, <3>1, <3>2 DEF R!Attached
    <3>3. CASE conn[s].state # "none"
      <4> DEFINE q == conn[s].out \o (IF conn[s].state = "wait_start" THEN sel ELSE items)
      <4>1. q \in Seq(StreamItem)
        BY <2>5, <3>1, ConcatProperties DEF Link
      <4>2. conn'[s] = [conn[s] EXCEPT !.out = q]
        BY <1>7, <3>3 DEF R!Attached
      <4>3. conn[s].state # "wait_start" => q = conn[s].out \o items
        OBVIOUS
      <4> HIDE DEF q
      <4> QED BY <3>1, <4>1, <4>2, <4>3 DEF Link
    <3> QED BY <3>2, <3>3
  <2>12. ASSUME NEW s \in Slaves \ odd
         PROVE  Apart(slave[s], conn'[s], off2, master.run) /\ Stand(s, g, low)'
    <3>1. /\ Apart(slave[s], conn[s], off, master.run)
          /\ Stands(slave[s], conn[s], saver, h, low, off, M, master.run)
      BY <2>3, OfSlave DEF Stand, off, M
    <3>2. conn[s].state # "wait_start"
      BY <3>1 DEF Apart, Stands
    <3>3. Stands(slave[s], conn'[s], saver, g, low, off2, M2, master.run) /\ Apart(slave[s], conn'[s], off2, master.run)
      <4> DEFINE r == slave[s]
                 c == conn[s]
                 c2 == conn'[s]
                 run == master.run
      <4>1. /\ r \in Replica /\ c \in Link /\ c2 \in Link /\ c2.state = c.state /\ c2.file = c.file
            /\ c.state # "none" => c2.out = c.out \o items
            /\ Apart(r, c, off, run) /\ Stands(r, c, saver, h, low, off, M, run)
        BY <2>11, <3>1, <3>2
      <4>2. /\ M \in Seq(Entry) /\ off \in Int /\ M2 \in Seq(Entry)
            /\ saver \in Seq(Entry) \cup {R!NoChild}
        BY <1>1, <1>4 DEF M, off
      <4>4. Grew(low, off, off2, h, g, M, M2, items)
        BY <2>4, <2>5, <2>7, <2>8, <4>2 DEF Agree, Grew
      <4>5. Took(c, c2, items)
        BY <4>1 DEF Took
      <4> HIDE DEF r, c, c2, run
      <4>3. Stands(r, c2, saver, g, low, off2, M2, run) /\ Apart(r, c2, off2, run)
        BY <4>1, <4>2, <4>4, <4>5, StandsGrows
      <4> QED BY <4>3 DEF r, c2, run
    <3> QED BY <1>2, <2>7, <3>3 DEF Stand
  <2>13. ReplType'
    <3>1. conn' \in [Slaves -> Link]
      BY <1>7, <2>11
    <3> QED BY <1>2, <2>7, <2>10, <3>1 DEF ReplInv, ReplType
  <2> QED BY <1>2, <2>7, <2>9, <2>10, <2>11, <2>12, <2>13 DEF ReplInv
<1> QED BY <1>5, <1>6, <1>7

(* After a full resynchronization the next command comes with a SELECT:    *)
(* the database of the last point is left open.                            *)
Looser(g, h, low, off) == \A o \in low..off :
    g[o].num = h[o].num /\ g[o].item = h[o].item /\ g[o].db \in {h[o].db, -1}
Opened(h, low, off) == [o \in low..off |->
    IF o = off THEN [num |-> h[o].num, db |-> -1, item |-> h[o].item] ELSE h[o]]

LEMMA StreamOpened ==
    ASSUME NEW low \in Int, NEW off \in Int, NEW M \in Seq(Entry), NEW h, Stream(h, low, off, M)
    PROVE  /\ Stream(Opened(h, low, off), low, off, M) /\ Looser(Opened(h, low, off), h, low, off)
           /\ Opened(h, low, off)[off].db = -1 /\ Opened(h, low, off)[off].num = h[off].num
<1> DEFINE g == Opened(h, low, off)
<1>1. /\ low <= off /\ h \in [low..off -> Point] /\ \A o \in low..off : h[o].num <= Len(M)
      /\ \A o \in (low + 1)..off : Follows(h[o - 1], h[o], M)
  BY DEF Stream
<1>2. /\ \A o \in low..off : o # off => g[o] = h[o]
      /\ g[off] = [num |-> h[off].num, db |-> -1, item |-> h[off].item]
      /\ off \in low..off /\ DOMAIN g = low..off /\ g = [o \in low..off |-> g[o]]
  BY <1>1 DEF Opened
<1> HIDE DEF g
<1>3. g[off].num = h[off].num /\ g[off].item = h[off].item /\ g[off].db = -1 /\ g[off] \in Point
  BY <1>1, <1>2 DEF Point
<1>4. Looser(g, h, low, off)
  BY <1>2, <1>3 DEF Looser
<1>5. g \in [low..off -> Point] /\ \A o \in low..off : g[o].num <= Len(M)
  <2>1. \A o \in low..off : g[o] \in Point /\ g[o].num <= Len(M)
    BY <1>1, <1>2, <1>3
  <2> QED BY <1>2, <2>1
<1>6. ASSUME NEW o \in (low + 1)..off PROVE Follows(g[o - 1], g[o], M)
  <2>1. o - 1 \in low..off /\ o \in low..off /\ o - 1 # off
    BY <1>1
  <2>2. g[o - 1] = h[o - 1] /\ Follows(h[o - 1], h[o], M)
    BY <1>1, <1>2, <2>1
  <2>3. g[o].num = h[o].num /\ g[o].item = h[o].item /\ g[o].db \in {h[o].db, -1}
    BY <1>4, <2>1 DEF Looser
  <2> QED BY <2>2, <2>3 DEF Follows
<1>7. Stream(g, low, off, M)
  BY <1>1, <1>5, <1>6 DEF Stream
<1> QED BY <1>3, <1>4, <1>7 DEF g

LEMMA RingLooser ==
    ASSUME NEW low \in Int, NEW off \in Int, NEW b, NEW h, NEW g,
           Ring(b, h, low, off), Looser(g, h, low, off)
    PROVE  Ring(b, g, low, off)
<1>1. /\ b \in Backlogs /\ b.histlen \in 0..BacklogSize /\ b.off = off + 1 - b.histlen /\ b.off > low
      /\ \A k \in 1..b.histlen : b.buf[(b.idx + BacklogSize - k) % BacklogSize] = h[off + 1 - k].item
  BY DEF Ring
<1>2. ASSUME NEW k \in 1..b.histlen PROVE g[off + 1 - k].item = h[off + 1 - k].item
  <2>1. b.histlen \in Int /\ off + 1 - k \in low..off
    BY <1>1 DEF Backlogs
  <2> QED BY <2>1 DEF Looser
<1> QED BY <1>1, <1>2 DEF Ring

LEMMA StandsLooser ==
    ASSUME NEW low \in Int, NEW off \in Int, NEW h, NEW g, Looser(g, h, low, off),
           NEW r \in Replica, NEW c \in Link, NEW kid, NEW M, NEW run,
           Apart(r, c, off, run), Stands(r, c, kid, h, low, off, M, run),
           NEW next, next = kid \/ kid = R!NoChild
    PROVE  Stands(r, c, next, g, low, off, M, run)
<1>1. r.off \in Int /\ c.out \in Seq(StreamItem) /\ Len(c.out) \in Nat /\ r.db \in {0, 1}
  BY LenProperties DEF Replica, Link
<1>2. ASSUME low <= r.off, r.off <= off
      PROVE  /\ \A d : Holds(d, h, r.off, M) => Holds(d, g, r.off, M)
             /\ g[r.off].db \in {h[r.off].db, -1}
  <2>1. r.off \in low..off
    BY <1>1, <1>2
  <2> QED BY <2>1 DEF Holds, Looser
<1>3. ASSUME low <= r.off, Reads(c.out, h, r.off, off)
      PROVE  r.off <= off /\ Reads(c.out, g, r.off, off)
  <2>1. r.off + Len(c.out) = off /\ \A i \in 1..Len(c.out) : c.out[i] = h[r.off + i].item
    BY <1>3 DEF Reads
  <2>2. \A i \in 1..Len(c.out) : r.off + i \in low..off
    BY <1>1, <1>3, <2>1
  <2>3. \A i \in 1..Len(c.out) : c.out[i] = g[r.off + i].item
    BY <2>1, <2>2 DEF Looser
  <2>4. r.off <= off
    BY <1>1, <2>1
  <2> QED BY <2>1, <2>3, <2>4 DEF Reads
<1>4. ASSUME r.state = "connected"
      PROVE  /\ c.state = "online" /\ low <= r.off
             /\ Reads(c.out, g, r.off, off) /\ Holds(r.data, g, r.off, M) /\ g[r.off].db \in {-1, r.db}
  BY <1>2, <1>3, <1>4 DEF Stands
<1>5. ASSUME r.state = "transfer"
      PROVE  /\ low <= r.off /\ Reads(c.out, g, r.off, off) /\ g[r.off].db = -1
             /\ \/ c.state = "wait_end" /\ next # R!NoChild /\ Holds(next, g, r.off, M)
                \/ c.state = "send_bulk" /\ Holds(c.file, g, r.off, M)
  BY <1>2, <1>3, <1>5 DEF Stands
<1>6. ASSUME r.cached, r.run = run, low <= r.off
      PROVE  Holds(r.data, g, r.off, M) /\ g[r.off].db \in {-1, r.db}
  <2>1. r.off <= off
    BY <1>6 DEF Apart
  <2> QED BY <1>2, <1>6, <2>1 DEF Stands
<1> QED BY <1>4, <1>5, <1>6 DEF Stands

LEMMA NotNoChild ==
    ASSUME NEW d \in Seq(Entry)
    PROVE  d # R!NoChild
<1>1. SUFFICES ASSUME d = R!NoChild PROVE FALSE
  OBVIOUS
<1>2. Len(d) = 1 /\ d[1] = <<-1, <<0, 0>>>>
  BY <1>1 DEF R!NoChild
<1>3. d[1] \in Entry
  BY <1>2
<1>4. d[1][1] \in {0, 1} /\ d[1][1] = -1
  BY <1>2, <1>3 DEF Entry
<1> QED BY <1>4

(* What a full resynchronization makes of the stream, with or without a    *)
(* backlog: the slave begins at the end of it, where the database is open. *)
LEMMA ResyncPoint ==
    ASSUME R!ReplicationAssumption, ReplInv, NEW s \in Slaves, R!FullResync(s)
    PROVE  /\ master' \in [run : Nat, data : Seq(Entry), offset : Int, seldb : {-1, 0, 1}, rdb : Seq(Entry)]
           /\ backlog' \in Backlogs /\ backlog'.on
           /\ master'.run = master.run /\ master'.data = master.data
           /\ master'.offset = IF backlog.on THEN master.offset ELSE master.offset + 1
           /\ master.offset <= master'.offset
           /\ \E low \in Int : \E h :
                /\ Line(h, low)' /\ h[master'.offset].db = -1 /\ low <= master'.offset
                /\ \A t \in Slaves \ odd :
                     Stands(slave[t], conn[t], saver', h, low, master'.offset, master.data, master.run)
<1> DEFINE M == master.data
           off == master.offset
           m == [master EXCEPT !.seldb = -1]
<1>1. /\ master \in [run : Nat, data : Seq(Entry), offset : Int, seldb : {-1, 0, 1}, rdb : Seq(Entry)]
      /\ backlog \in Backlogs /\ M \in Seq(Entry) /\ off \in Int /\ Len(M) \in Nat
  BY LenProperties DEF ReplInv, ReplType
<1>2. /\ m \in [run : Nat, data : Seq(Entry), offset : Int, seldb : {-1, 0, 1}, rdb : Seq(Entry)]
      /\ m.run = master.run /\ m.data = M /\ m.offset = off /\ m.seldb = -1
  BY <1>1
<1>3. saver' = saver \/ saver = R!NoChild
  BY DEF R!FullResync
<1>4. IF R!Attached = {} /\ ~backlog.on THEN R!CreateReplicationBacklog(m)
      ELSE master' = m /\ UNCHANGED backlog
  BY DEF R!FullResync
<1> HIDE DEF m
<1>5. CASE backlog.on
  <2>1. master' = m /\ backlog' = backlog
    BY <1>4, <1>5
  <2>2. PICK low \in Int : \E h : Line(h, low) /\ \A t \in Slaves \ odd : Stand(t, h, low)
    BY <1>5 DEF ReplInv
  <2>3. PICK h : Line(h, low) /\ \A t \in Slaves \ odd : Stand(t, h, low)
    BY <2>2
  <2>9. PICK g : g = Opened(h, low, off)
    OBVIOUS
  <2>4. Stream(h, low, off, M) /\ h[off].num = Len(M) /\ Ring(backlog, h, low, off) /\ low <= off
    BY <2>3 DEF Line, Stream
  <2>5. Stream(g, low, off, M) /\ Looser(g, h, low, off) /\ g[off].db = -1 /\ g[off].num = Len(M)
    BY <1>1, <2>4, <2>9, StreamOpened
  <2>6. Ring(backlog, g, low, off)
    BY <1>1, <2>4, <2>5, RingLooser
  <2>7. Line(g, low)'
    BY <1>2, <2>1, <2>5, <2>6 DEF Line
  <2>8. ASSUME NEW t \in Slaves \ odd
        PROVE  Stands(slave[t], conn[t], saver', g, low, off, M, master.run)
    <3>1. /\ slave[t] \in Replica /\ conn[t] \in Link
          /\ Apart(slave[t], conn[t], off, master.run)
      BY OfSlave
    <3>2. Stands(slave[t], conn[t], saver, h, low, off, M, master.run)
      BY <2>3 DEF Stand
    <3> QED BY <1>1, <1>3, <2>5, <3>1, <3>2, StandsLooser
  <2>10. /\ master'.offset = off /\ backlog' \in Backlogs /\ backlog'.on /\ off <= off
         /\ master' \in [run : Nat, data : Seq(Entry), offset : Int, seldb : {-1, 0, 1}, rdb : Seq(Entry)]
    BY <1>1, <1>2, <1>5, <2>1
  <2> QED BY <1>2, <1>5, <2>1, <2>4, <2>5, <2>7, <2>8, <2>10
<1>6. CASE ~backlog.on
  <2>1. \A t \in Slaves : conn[t].state = "none"
    BY <1>6 DEF ReplInv
  <2>2. R!Attached = {}
    BY <2>1 DEF R!Attached
  <2>12. PICK o : o = off + 1
    OBVIOUS
  <2>13. PICK g : g = [x \in o..o |-> [num |-> Len(M), db |-> -1, item |-> <<"select", 0>>]]
    OBVIOUS
  <2>3. master' = [m EXCEPT !.offset = o] /\ backlog' = [R!NoBacklog EXCEPT !.on = TRUE, !.off = off + 2]
    BY <1>2, <1>4, <1>6, <2>2, <2>12 DEF R!CreateReplicationBacklog
  <2>4. o \in Int /\ off + 2 = o + 1 /\ off < o
    BY <1>1, <2>12
  <2>5. /\ master' \in [run : Nat, data : Seq(Entry), offset : Int, seldb : {-1, 0, 1}, rdb : Seq(Entry)]
        /\ master'.run = master.run /\ master'.data = M /\ master'.offset = o /\ master'.seldb = -1
    BY <1>2, <2>3, <2>4
  <2>6. o \in o..o /\ \A x \in o..o : x = o
    BY <2>4
  <2>7. g[o].num = Len(M) /\ g[o].db = -1 /\ g \in [o..o -> Point]
    BY <1>1, <2>6, <2>13 DEF Point, StreamItem
  <2>8. Stream(g, o, o, M)
    <3>1. (o + 1)..o = {} /\ Len(M) <= Len(M)
      BY <1>1, <2>4
    <3> QED BY <2>4, <2>6, <2>7, <3>1 DEF Stream
  <2>9. backlog' \in Backlogs /\ backlog'.on /\ Ring(backlog', g, o, o)
    <3>1. (o + 1) - 1 = o /\ o + 1 > o /\ o + 1 \in Int
      BY <2>4
    <3>3. backlog' = [R!NoBacklog EXCEPT !.on = TRUE, !.off = o + 1]
      BY <2>3, <2>4
    <3>2. Ring(backlog', g, o, (o + 1) - 1) /\ backlog' \in Backlogs /\ backlog'.on
      BY <2>4, <3>1, <3>3, NoBacklogFacts
    <3> QED BY <3>1, <3>2
  <2>10. Line(g, o)'
    BY <2>5, <2>7, <2>8, <2>9 DEF Line
  <2>11. ASSUME NEW t \in Slaves \ odd
         PROVE  Stands(slave[t], conn[t], saver', g, o, o, M, master.run)
    <3>1. slave[t].off \in Int /\ Apart(slave[t], conn[t], off, master.run)
      BY OfSlave DEF Replica
    <3>2. slave[t].state \notin {"connected", "transfer"}
      BY <2>1, <3>1 DEF Apart
    <3>3. ~(slave[t].cached /\ slave[t].run = master.run /\ o <= slave[t].off)
      BY <1>1, <2>4, <3>1 DEF Apart
    <3> QED BY <3>2, <3>3 DEF Stands
  <2>14. off <= o /\ o <= o
    BY <1>1, <2>4
  <2> QED BY <1>6, <2>4, <2>5, <2>7, <2>9, <2>10, <2>11, <2>12, <2>14
<1> QED BY <1>5, <1>6

LEMMA FullResyncStep ==
    ASSUME R!ReplicationAssumption, ReplInv, NEW s \in Slaves, R!FullResync(s)
    PROVE  ReplInv'
<1> DEFINE told == master'.offset
           M == master.data
           run == master.run
           r == [slave[s] EXCEPT !.state = "transfer", !.cached = FALSE, !.off = told, !.run = run]
<1>1. /\ master' \in [run : Nat, data : Seq(Entry), offset : Int, seldb : {-1, 0, 1}, rdb : Seq(Entry)]
      /\ backlog' \in Backlogs /\ backlog'.on
      /\ master'.run = run /\ master'.data = M
      /\ told = IF backlog.on THEN master.offset ELSE master.offset + 1
      /\ master.offset <= told
  BY ResyncPoint
<1>2. PICK low \in Int : \E h :
        /\ Line(h, low)' /\ h[told].db = -1 /\ low <= told
        /\ \A t \in Slaves \ odd : Stands(slave[t], conn[t], saver', h, low, told, M, run)
  BY ResyncPoint
<1>3. PICK h : /\ Line(h, low)' /\ h[told].db = -1 /\ low <= told
               /\ \A t \in Slaves \ odd : Stands(slave[t], conn[t], saver', h, low, told, M, run)
  BY <1>2
<1>4. told \in Int /\ M \in Seq(Entry) /\ run \in Nat /\ master.offset \in Int
      /\ slave \in [Slaves -> Replica] /\ conn \in [Slaves -> Link]
      /\ saver \in Seq(Entry) \cup {R!NoChild}
  BY <1>1 DEF ReplInv, ReplType
<1>5. slave' = [slave EXCEPT ![s] = r]
  BY <1>1 DEF R!FullResync
<1> DEFINE w(st) == [R!NoConn EXCEPT !.state = st]
<1>6. \/ /\ saver = R!NoChild /\ saver' = M /\ odd' = odd \ {s}
         /\ conn' = [conn EXCEPT ![s] = w("wait_end")]
      \/ /\ saver' = saver /\ odd' = odd \cup {s}
         /\ \/ conn' = [conn EXCEPT ![s] = w("wait_start")]
            \/ \E t \in Slaves : conn' = [conn EXCEPT ![s] = conn[t]]
  BY DEF R!FullResync, R!Attached
<1> HIDE DEF told
<1>7. r \in Replica /\ r.state = "transfer" /\ ~r.cached /\ r.off = told /\ r.run = run
  BY <1>4 DEF Replica
<1>8. \A st \in {"wait_end", "wait_start"} : w(st) \in Link /\ w(st).state = st /\ w(st).out = <<>>
  BY NoConnFacts DEF Link
<1> HIDE DEF r, w
<1>9. /\ slave'[s] = r /\ slave' \in [Slaves -> Replica]
      /\ \A t \in Slaves : t # s => slave'[t] = slave[t]
  BY <1>4, <1>5, <1>7
<1>10. conn' \in [Slaves -> Link] /\ \A t \in Slaves : t # s => conn'[t] = conn[t]
  BY <1>4, <1>6, <1>8
<1>11. ReplType'
  <2>1. saver' \in Seq(Entry) \cup {R!NoChild}
    BY <1>4, <1>6
  <2> QED BY <1>1, <1>9, <1>10, <2>1 DEF ReplType
<1>12. ASSUME NEW t \in Slaves, t # s, t \notin odd
       PROVE  Apart(slave'[t], conn'[t], told, run) /\ Stands(slave'[t], conn'[t], saver', h, low, told, M, run)
  <2>1. Apart(slave[t], conn[t], master.offset, run) /\ slave[t].off \in Int
    BY <1>12, OfSlave DEF Replica
  <2>2. Apart(slave[t], conn[t], told, run)
    BY <1>1, <1>4, <2>1 DEF Apart, told
  <2> QED BY <1>3, <1>9, <1>10, <1>12, <2>2
<1>13. ASSUME s \notin odd'
       PROVE  Apart(slave'[s], conn'[s], told, run) /\ Stands(slave'[s], conn'[s], saver', h, low, told, M, run)
  <2>1. saver' = M /\ conn' = [conn EXCEPT ![s] = w("wait_end")]
    BY <1>6, <1>13
  <2>2. conn'[s].state = "wait_end" /\ conn'[s].out = <<>>
    BY <1>4, <1>8, <2>1
  <2>3. Apart(r, conn'[s], told, run)
    BY <1>7, <2>2 DEF Apart
  <2>4. Reads(conn'[s].out, h, told, told)
    BY <1>4, <2>2 DEF Reads
  <2>5. h[told].num = Len(M)
    BY <1>1, <1>3 DEF Line, told
  <2>6. Holds(M, h, told, M) /\ M # R!NoChild
    BY <1>4, <2>5, NotNoChild DEF Holds, Starts
  <2>7. Stands(r, conn'[s], M, h, low, told, M, run)
    BY <1>3, <1>7, <2>2, <2>4, <2>6 DEF Stands
  <2> QED BY <1>9, <2>1, <2>3, <2>7
<1>14. ASSUME NEW t \in Slaves \ odd'
       PROVE  Apart(slave'[t], conn'[t], told, run) /\ Stand(t, h, low)'
  <2>1. t = s \/ t \notin odd
    BY <1>6
  <2>2. Apart(slave'[t], conn'[t], told, run) /\ Stands(slave'[t], conn'[t], saver', h, low, told, M, run)
    BY <1>12, <1>13, <2>1
  <2> QED BY <1>1, <2>2 DEF Stand, told
<1>15. \A t \in Slaves : slave'[t].run <= master'.run
  <2>1. \A t \in Slaves : slave[t].run <= run
    BY DEF ReplInv
  <2> QED BY <1>1, <1>4, <1>7, <1>9, <2>1
<1>16. \A t \in Slaves \ odd' : Apart(slave'[t], conn'[t], master'.offset, master'.run)
  BY <1>1, <1>14 DEF told
<1> QED BY <1>1, <1>3, <1>11, <1>14, <1>15, <1>16 DEF ReplInv

LEMMA ReplInit ==
    ASSUME R!ReplicationAssumption, R!Init
    PROVE  ReplInv
<1>1. ReplType
  <2>1. backlog \in Backlogs /\ R!NoConn \in Link
    BY NoBacklogFacts, NoConnFacts DEF R!Init
  <2>2. <<>> \in Seq(Entry)
    OBVIOUS
  <2>3. [state |-> "connect", data |-> <<>>, db |-> 0, off |-> -1, run |-> 0, cached |-> FALSE] \in Replica
    BY <2>2 DEF Replica
  <2>4. slave \in [Slaves -> Replica] /\ conn \in [Slaves -> Link]
    BY <2>1, <2>3 DEF R!Init
  <2>5. master \in [run : Nat, data : Seq(Entry), offset : Int, seldb : {-1, 0, 1}, rdb : Seq(Entry)]
    BY <2>2 DEF R!Init
  <2> QED BY <2>1, <2>4, <2>5 DEF ReplType, R!Init
<1>2. ~backlog.on
  BY NoBacklogFacts DEF R!Init
<1>3. ASSUME NEW s \in Slaves
      PROVE  /\ slave[s].run <= master.run /\ conn[s].state = "none"
             /\ Apart(slave[s], conn[s], master.offset, master.run)
  BY NoConnFacts DEF R!Init, Apart
<1> QED BY <1>1, <1>2, <1>3 DEF ReplInv

LEMMA ReplNext ==
    ASSUME R!ReplicationAssumption, ReplInv, [R!Next]_replVars
    PROVE  ReplInv'
<1>1. CASE R!Next
  <2>1. CASE R!Write
    BY <2>1, MasterWriteStep
  <2>2. CASE R!Bgsave
    BY <2>2, BgsaveStep
  <2>3. ASSUME NEW ended \in BOOLEAN, R!ChildDone(ended) PROVE ReplInv'
    BY <2>3, ChildDoneStep
  <2>4. CASE R!MasterRestart
    BY <2>4, MasterRestartStep
  <2>5. CASE R!ResizeReplicationBacklog \/ R!FreeReplicationBacklog
    BY <2>5, BacklogSteps
  <2>6. ASSUME NEW s \in Slaves, R!PartialResync(s) PROVE ReplInv'
    BY <2>6, PartialResyncStep
  <2>7. ASSUME NEW s \in Slaves, R!FullResync(s) PROVE ReplInv'
    BY <2>7, FullResyncStep
  <2>8. ASSUME NEW s \in Slaves, R!SendBulk(s) PROVE ReplInv'
    BY <2>8, SendBulkStep
  <2>9. ASSUME NEW s \in Slaves, R!Receive(s) PROVE ReplInv'
    BY <2>9, ReceiveStep
  <2>10. ASSUME NEW s \in Slaves,
                \/ R!ConnectWithMaster(s) \/ R!SyncWithoutFork(s) \/ R!ReplyLost(s)
                \/ R!ConnectionLost(s) \/ R!SlaveRestart(s)
                \/ R!ReplicationUnsetMaster(s) \/ R!ReplicationSetMaster(s)
         PROVE  ReplInv'
    BY <2>10, OffLineSteps
  <2> QED BY <1>1, <2>1, <2>2, <2>3, <2>4, <2>5, <2>6, <2>7, <2>8, <2>9, <2>10 DEF R!Next
<1>2. CASE UNCHANGED replVars
  <2>1. UNCHANGED <<master, backlog, saver, conn, slave, odd>>
    BY <1>2 DEF replVars
  <2>2. ReplType' /\ \A s \in Slaves : \A h : \A low : Stand(s, h, low)' = Stand(s, h, low)
    BY <2>1 DEF ReplInv, ReplType, Stand
  <2>3. \A h : \A low : Line(h, low)' = Line(h, low)
    BY <2>1 DEF Line
  <2> QED BY <2>1, <2>2, <2>3 DEF ReplInv
<1> QED BY <1>1, <1>2

LEMMA ReplImplies ==
    ASSUME ReplInv
    PROVE  SlavesInStep
<1> SUFFICES ASSUME NEW s \in Slaves, slave[s].state = "connected", s \notin odd
             PROVE  /\ R!InStep(s) /\ slave[s].off + Len(conn[s].out) = master.offset
  BY DEF SlavesInStep, R!SlavesInStep, R!OffsetsMatch, R!Exact
<1> DEFINE d == slave[s].data
           M == master.data
<1>1. /\ slave[s].off + Len(conn[s].out) = master.offset /\ backlog.on
      /\ d \in Seq(Entry) /\ M \in Seq(Entry) /\ slave[s].off \in Int
  BY OfSlave DEF Apart, Replica
<1>2. PICK low \in Int : \E h : Line(h, low) /\ \A t \in Slaves \ odd : Stand(t, h, low)
  BY <1>1 DEF ReplInv
<1>3. PICK h : Line(h, low) /\ \A t \in Slaves \ odd : Stand(t, h, low)
  BY <1>2
<1>4. Len(d) = h[slave[s].off].num /\ Len(d) <= Len(M) /\ \A i \in 1..Len(d) : d[i] = M[i]
  BY <1>3 DEF Stand, Stands, Holds, Starts
<1>5. R!IsPrefix(d, M)
  <2>1. SubSeq(M, 1, Len(d)) = SubSeq(d, 1, Len(d))
    BY <1>1, <1>4, LenProperties
  <2> QED BY <1>4, <2>1 DEF R!IsPrefix
<1>6. ASSUME conn[s].out = <<>> PROVE d = M
  <2>1. slave[s].off = master.offset
    BY <1>1, <1>6
  <2>2. Len(d) = Len(M)
    BY <1>3, <1>4, <2>1 DEF Line
  <2> QED BY <1>1, <1>4, <2>2, SeqEqual
<1> QED BY <1>1, <1>5, <1>6 DEF R!InStep

(* replication.c: a slave that the master serves as one of the same run,   *)
(* by the backlog or by a snapshot forked for it, holds a prefix of the    *)
(* master's dataset with each command in its database, is as far as its    *)
(* offset says, and lacks nothing once the stream is drained.  For any set *)
(* of slaves, any size of the backlog and any number of writes and faults. *)
THEOREM SlavesAreInStep ==
    ASSUME R!ReplicationAssumption
    PROVE  R!Spec => []SlavesInStep
<1>1. R!Init => ReplInv
  BY ReplInit
<1>2. ReplInv /\ [R!Next]_replVars => ReplInv'
  BY ReplNext
<1>3. ReplInv => SlavesInStep
  BY ReplImplies
<1> QED BY <1>1, <1>2, <1>3, PTL DEF R!Spec, R!vars, replVars
=============================================================================
