---------------------------- MODULE ClientsProofs ----------------------------
(***************************************************************************)
(* What the server does with clients that wait, for any number of clients, *)
(* keys, elements, channels and patterns: the event loop's list of         *)
(* unblocked clients, the lists that clients block on, and publish and     *)
(* subscribe.                                                              *)
(***************************************************************************)
EXTENDS MCClients, SequenceTheorems, FiniteSetTheorems, WellFoundedInduction, TLAPS

-----------------------------------------------------------------------------
(* The list of unblocked clients *)

LEMMA RemovedAt ==
    ASSUME NEW T, NEW s \in Seq(T), NEW i \in 1..Len(s)
    PROVE  /\ U!RemoveAt(s, i) \in Seq(T)
           /\ Len(U!RemoveAt(s, i)) = Len(s) - 1
           /\ \A k \in 1..(Len(s) - 1) : U!RemoveAt(s, i)[k] = IF k < i THEN s[k] ELSE s[k + 1]
<1> DEFINE a == SubSeq(s, 1, i - 1)
           b == SubSeq(s, i + 1, Len(s))
<1>1. Len(s) \in Nat /\ \A k \in 1..Len(s) : s[k] \in T
  BY LenProperties, ElementOfSeq
<1>2. /\ a \in Seq(T) /\ Len(a) = i - 1
      /\ \A k \in 1..(i - 1) : a[k] = s[k]
  BY <1>1, SubSeqProperties
<1>3. /\ b \in Seq(T) /\ Len(b) = Len(s) - i
      /\ \A k \in 1..(Len(s) - i) : b[k] = s[i + k]
  BY <1>1, SubSeqProperties
<1>4. U!RemoveAt(s, i) = a \o b
  BY DEF U!RemoveAt
<1> HIDE DEF a, b
<1>5. /\ a \o b \in Seq(T) /\ Len(a \o b) = Len(a) + Len(b)
      /\ \A k \in 1..(Len(a) + Len(b)) : (a \o b)[k] = IF k <= Len(a) THEN a[k] ELSE b[k - Len(a)]
  BY <1>2, <1>3, ConcatProperties
<1>6. ASSUME NEW k \in 1..(Len(s) - 1)
      PROVE  (a \o b)[k] = IF k < i THEN s[k] ELSE s[k + 1]
  <2>1. (a \o b)[k] = IF k <= i - 1 THEN a[k] ELSE b[k - (i - 1)]
    BY <1>1, <1>2, <1>3, <1>5
  <2>2. CASE k < i
    BY <1>1, <1>2, <2>1, <2>2
  <2>3. CASE k >= i
    <3>1. k - (i - 1) \in 1..(Len(s) - i) /\ i + (k - (i - 1)) = k + 1 /\ ~(k <= i - 1)
      BY <1>1, <2>3
    <3> QED BY <1>3, <2>1, <3>1
  <2>4. k < i \/ k >= i
    BY <1>1
  <2> QED BY <2>2, <2>3, <2>4
<1> QED BY <1>1, <1>2, <1>3, <1>4, <1>5, <1>6

LEMMA LeastExists ==
    ASSUME NEW T \in SUBSET Nat, T # {}
    PROVE  \E x \in T : \A y \in T : x <= y
<1>1. PICK x \in T : \A y \in T : ~(<<y, x>> \in OpToRel(<, Nat))
  BY NatLessThanWellFounded, WFMin
<1>2. \A y \in T : ~(y < x)
  BY <1>1 DEF OpToRel
<1> QED BY <1>2

Listed(s, c) == \E i \in 1..Len(s) : s[i] = c
Lone(s, c) == \A i, j \in 1..Len(s) : s[i] = c /\ s[j] = c => i = j

(* RemoveFirst takes one entry of a client off, the others stay. *)
LEMMA FirstRemoved ==
    ASSUME NEW T, NEW s \in Seq(T), NEW d \in T
    PROVE  LET r == U!RemoveFirst(s, d) IN
           /\ r \in Seq(T)
           /\ \A c \in T \ {d} :
                 (Listed(r, c) <=> Listed(s, c)) /\ (Lone(s, c) => Lone(r, c))
           /\ Lone(s, d) => ~Listed(r, d)
           /\ Listed(s, d) => Len(r) = Len(s) - 1
<1> DEFINE r == U!RemoveFirst(s, d)
           I == {i \in 1..Len(s) : s[i] = d}
<1>0. Len(s) \in Nat /\ I \in SUBSET Nat
  BY LenProperties
<1>1. CASE I = {}
  <2>1. r = s
    BY <1>1 DEF U!RemoveFirst
  <2>2. ~Listed(s, d) /\ ~Listed(r, d)
    BY <1>1, <2>1 DEF Listed
  <2> QED BY <2>1, <2>2
<1>2. CASE I # {}
  <2> DEFINE m == U!SelectInSeq(s, LAMBDA v : v = d)
  <2>1. r = U!RemoveAt(s, m)
    BY <1>2 DEF U!RemoveFirst
  <2>2. m = U!Min(I)
    BY <1>2 DEF U!SelectInSeq
  <2>3. \E x \in I : \A y \in I : x <= y
    BY <1>0, <1>2, LeastExists
  <2>4. m \in I
    BY <2>2, <2>3 DEF U!Min
  <2>5. m \in 1..Len(s) /\ s[m] = d
    BY <2>4
  <2> HIDE DEF m, r
  <2>6. /\ r \in Seq(T) /\ Len(r) = Len(s) - 1
        /\ \A k \in 1..(Len(s) - 1) : r[k] = IF k < m THEN s[k] ELSE s[k + 1]
    BY <2>1, <2>5, RemovedAt
  <2> DEFINE old(k) == IF k < m THEN k ELSE k + 1
  <2>7. \A k \in 1..Len(r) : r[k] = s[old(k)] /\ old(k) \in 1..Len(s) /\ old(k) # m
    BY <1>0, <2>5, <2>6
  <2>8. \A j, k \in 1..Len(r) : old(j) = old(k) => j = k
    BY <1>0, <2>5, <2>6
  <2>9. \A j \in 1..Len(s) : j # m => \E k \in 1..Len(r) : r[k] = s[j]
    <3> SUFFICES ASSUME NEW j \in 1..Len(s), j # m PROVE \E k \in 1..Len(r) : r[k] = s[j]
      OBVIOUS
    <3>1. CASE j < m
      BY <1>0, <2>5, <2>6, <3>1
    <3>2. CASE j > m
      <4>1. j - 1 \in 1..Len(r) /\ ~(j - 1 < m) /\ (j - 1) + 1 = j
        BY <1>0, <2>5, <2>6, <3>2
      <4> QED BY <2>6, <4>1
    <3>3. j < m \/ j > m
      BY <1>0, <2>5
    <3> QED BY <3>1, <3>2, <3>3
  <2> HIDE DEF old
  <2>10. ASSUME NEW c \in T \ {d} PROVE Listed(r, c) <=> Listed(s, c)
    <3>1. Listed(r, c) => Listed(s, c)
      BY <2>7 DEF Listed
    <3>2. Listed(s, c) => Listed(r, c)
      BY <2>5, <2>9 DEF Listed
    <3> QED BY <3>1, <3>2
  <2>11. ASSUME NEW c \in T \ {d}, Lone(s, c) PROVE Lone(r, c)
    BY <2>7, <2>8, <2>11 DEF Lone
  <2>12. ASSUME Lone(s, d) PROVE ~Listed(r, d)
    BY <2>5, <2>7, <2>12 DEF Lone, Listed
  <2> QED BY <2>6, <2>10, <2>11, <2>12 DEF r
<1> QED BY <1>1, <1>2

(* The modules that use RemoveFirst mean the same operator. *)
LEMMA SameRemoval ==
    ASSUME NEW s, NEW d
    PROVE  B!RemoveFirst(s, d) = U!RemoveFirst(s, d) /\ P!RemoveFirst(s, d) = U!RemoveFirst(s, d)
  BY DEF B!RemoveFirst, U!RemoveFirst, P!RemoveFirst, B!RemoveAt, U!RemoveAt, P!RemoveAt,
         B!SelectInSeq, U!SelectInSeq, P!SelectInSeq, B!Min, U!Min, P!Min

(* An entry is put at the end, *)
LEMMA LastAdded ==
    ASSUME NEW T, NEW s \in Seq(T), NEW d \in T
    PROVE  /\ Append(s, d) \in Seq(T)
           /\ \A c \in T \ {d} :
                 (Listed(Append(s, d), c) <=> Listed(s, c)) /\ (Lone(s, c) => Lone(Append(s, d), c))
           /\ Listed(Append(s, d), d)
           /\ ~Listed(s, d) => Lone(Append(s, d), d)
<1> DEFINE r == Append(s, d)
<1>1. /\ Len(s) \in Nat /\ r \in Seq(T) /\ Len(r) = Len(s) + 1 /\ r[Len(s) + 1] = d
      /\ \A i \in 1..Len(s) : r[i] = s[i]
  BY AppendProperties, LenProperties
<1> HIDE DEF r
<1>2. \A i \in 1..Len(r) : i \in 1..Len(s) \/ i = Len(s) + 1
  BY <1>1
<1>3. 1..Len(s) \subseteq 1..Len(r) /\ Len(s) + 1 \in 1..Len(r)
  BY <1>1
<1>4. \A c \in T \ {d} : (Listed(r, c) <=> Listed(s, c)) /\ (Lone(s, c) => Lone(r, c))
  BY <1>1, <1>2, <1>3 DEF Listed, Lone
<1>5. Listed(r, d) /\ (~Listed(s, d) => Lone(r, d))
  BY <1>1, <1>2, <1>3 DEF Listed, Lone
<1> QED BY <1>1, <1>4, <1>5 DEF r

(* and the first is taken off. *)
LEMMA HeadTaken ==
    ASSUME NEW T, NEW s \in Seq(T), s # << >>
    PROVE  /\ Head(s) \in T /\ Tail(s) \in Seq(T)
           /\ Listed(s, Head(s))
           /\ \A c \in T \ {Head(s)} :
                 (Listed(Tail(s), c) <=> Listed(s, c)) /\ (Lone(s, c) => Lone(Tail(s), c))
           /\ Lone(s, Head(s)) => ~Listed(Tail(s), Head(s))
<1> DEFINE r == Tail(s)
           h == Head(s)
<1>1. /\ h \in T /\ r \in Seq(T) /\ h = s[1] /\ Len(s) \in Nat
      /\ Len(r) = Len(s) - 1 /\ 1 \in 1..Len(s)
      /\ \A i \in 1..Len(r) : r[i] = s[i + 1]
  BY HeadTailProperties, LenProperties, EmptySeq
<1> HIDE DEF r, h
<1>2. \A i \in 1..Len(r) : i + 1 \in 1..Len(s) /\ i + 1 # 1
  BY <1>1
<1>3. \A j \in 1..Len(s) : j # 1 => \E i \in 1..Len(r) : r[i] = s[j]
  <2> SUFFICES ASSUME NEW j \in 1..Len(s), j # 1 PROVE \E i \in 1..Len(r) : r[i] = s[j]
    OBVIOUS
  <2>1. j - 1 \in 1..Len(r) /\ (j - 1) + 1 = j
    BY <1>1
  <2> QED BY <1>1, <2>1
<1>4. ASSUME NEW c \in T \ {h} PROVE Listed(r, c) <=> Listed(s, c)
  <2>1. Listed(r, c) => Listed(s, c)
    BY <1>1, <1>2 DEF Listed
  <2>2. Listed(s, c) => Listed(r, c)
    BY <1>1, <1>3 DEF Listed
  <2> QED BY <2>1, <2>2
<1>5. ASSUME NEW c \in T, Lone(s, c) PROVE Lone(r, c)
  <2> SUFFICES ASSUME NEW i \in 1..Len(r), NEW j \in 1..Len(r), r[i] = c, r[j] = c PROVE i = j
    BY DEF Lone
  <2>1. i + 1 = j + 1
    BY <1>1, <1>2, <1>5 DEF Lone
  <2> QED BY <1>1, <2>1
<1>6. Lone(s, h) => ~Listed(r, h)
  BY <1>1, <1>2 DEF Lone, Listed
<1>7. Listed(s, h)
  BY <1>1 DEF Listed
<1> QED BY <1>1, <1>4, <1>5, <1>6, <1>7 DEF r, h

Connection == [conn : BOOLEAN, blocked : BOOLEAN, unb : BOOLEAN, buf : BOOLEAN]

(* What is known of a client: only one that is connected is blocked, has   *)
(* input or the flag; the flag means that it is on the list; and one that  *)
(* was not unblocked while on the list is there once, if it has the flag.  *)
Entered(c) ==
    /\ conn[c].blocked \/ conn[c].unb \/ conn[c].buf => conn[c].conn
    /\ conn[c].unb => Listed(unblocked, c)
    /\ c \notin twice => (Listed(unblocked, c) => conn[c].unb) /\ Lone(unblocked, c)

(* No client is processed in the cron, which frees clients. *)
ListInv ==
    /\ conn \in [Clients -> Connection]
    /\ unblocked \in Seq(Clients)
    /\ twice \subseteq Clients
    /\ cur \in Clients \cup {None}
    /\ cur # None => conn[cur].conn /\ ~conn[cur].blocked
    /\ phase = "cron" => cur = None
    /\ \A c \in Clients : Entered(c)

(* A step that changes client d and its entries only *)
LEMMA EntryStep ==
    ASSUME ListInv, NEW d \in Clients, NEW r \in Connection, conn' = [conn EXCEPT ![d] = r],
           unblocked' \in Seq(Clients),
           \A c \in Clients \ {d} : /\ Listed(unblocked', c) <=> Listed(unblocked, c)
                                    /\ Lone(unblocked, c) => Lone(unblocked', c)
                                    /\ c \in twice' <=> c \in twice,
           twice' \subseteq Clients, cur' \in Clients \cup {None},
           cur' # None => conn'[cur'].conn /\ ~conn'[cur'].blocked,
           phase' = "cron" => cur' = None,
           r.blocked \/ r.unb \/ r.buf => r.conn,
           r.unb => Listed(unblocked', d),
           d \notin twice' => (Listed(unblocked', d) => r.unb) /\ Lone(unblocked', d)
    PROVE  ListInv'
<1>1. conn' \in [Clients -> Connection] /\ conn'[d] = r
  BY DEF ListInv
<1>2. \A c \in Clients \ {d} : conn'[c] = conn[c] /\ Entered(c)
  BY DEF ListInv
<1>3. \A c \in Clients \ {d} : Entered(c)'
  BY <1>2 DEF Entered
<1>4. Entered(d)'
  BY <1>1 DEF Entered
<1> QED BY <1>1, <1>3, <1>4 DEF ListInv

LEMMA ListInit == U!Init => ListInv
<1> SUFFICES ASSUME U!Init PROVE ListInv
  OBVIOUS
<1>1. unblocked \in Seq(Clients) /\ Len(unblocked) = 0 /\ 1..Len(unblocked) = {}
  BY EmptySeq DEF U!Init
<1>2. U!NewClient \in Connection /\ ~U!NewClient.blocked /\ ~U!NewClient.unb /\ ~U!NewClient.buf
  BY DEF U!NewClient, Connection
<1>3. \A c \in Clients : conn[c] = U!NewClient
  BY DEF U!Init
<1>4. \A c \in Clients : Entered(c)
  BY <1>1, <1>2, <1>3 DEF Entered, Listed, Lone
<1> QED BY <1>1, <1>2, <1>4 DEF ListInv, U!Init

(* freeClient leaves no entry of a client that was on the list once. *)
LEMMA FreeStep ==
    ASSUME ListInv, NEW d \in Clients, U!Free(d), UNCHANGED <<phase, cur>>, cur # d
    PROVE  ListInv'
<1> DEFINE listed == IF conn[d].blocked THEN Append(unblocked, d) ELSE unblocked
<1>0. /\ conn \in [Clients -> Connection] /\ unblocked \in Seq(Clients) /\ twice \subseteq Clients
      /\ Entered(d)
  BY DEF ListInv
<1>1. /\ conn' = [conn EXCEPT ![d] = U!Gone]
      /\ unblocked' = IF conn[d].blocked \/ conn[d].unb THEN U!RemoveFirst(listed, d) ELSE listed
      /\ twice' = IF conn[d].blocked /\ conn[d].unb THEN twice \cup {d} ELSE twice
  BY DEF U!Free
<1>2. /\ U!Gone \in Connection /\ ~U!Gone.conn
      /\ ~U!Gone.blocked /\ ~U!Gone.unb /\ ~U!Gone.buf
  BY DEF U!Gone, U!NewClient, Connection
<1>3. /\ listed \in Seq(Clients)
      /\ \A c \in Clients \ {d} : /\ Listed(listed, c) <=> Listed(unblocked, c)
                                  /\ Lone(unblocked, c) => Lone(listed, c)
      /\ d \notin twice' => Lone(listed, d)
      /\ d \notin twice' /\ ~conn[d].blocked /\ ~conn[d].unb => ~Listed(listed, d)
  <2>1. CASE conn[d].blocked
    <3>1. d \notin twice' => ~Listed(unblocked, d)
      BY <1>0, <1>1, <2>1 DEF Entered
    <3> QED BY <1>0, <2>1, <3>1, LastAdded
  <2>2. CASE ~conn[d].blocked
    BY <1>0, <1>1, <2>2 DEF Entered
  <2> QED BY <2>1, <2>2
<1> HIDE DEF listed
<1>4. /\ unblocked' \in Seq(Clients)
      /\ \A c \in Clients \ {d} : /\ Listed(unblocked', c) <=> Listed(unblocked, c)
                                  /\ Lone(unblocked, c) => Lone(unblocked', c)
      /\ d \notin twice' => ~Listed(unblocked', d)
  <2>1. CASE conn[d].blocked \/ conn[d].unb
    <3>1. unblocked' = U!RemoveFirst(listed, d)
      BY <1>1, <2>1
    <3>2. /\ unblocked' \in Seq(Clients)
          /\ \A c \in Clients \ {d} :
                (Listed(unblocked', c) <=> Listed(listed, c)) /\ (Lone(listed, c) => Lone(unblocked', c))
          /\ Lone(listed, d) => ~Listed(unblocked', d)
      BY <1>3, <3>1, FirstRemoved
    <3> QED BY <1>3, <3>2
  <2>2. CASE ~(conn[d].blocked \/ conn[d].unb)
    BY <1>1, <1>3, <2>2
  <2> QED BY <2>1, <2>2
<1>5. ~Listed(unblocked', d) => Lone(unblocked', d)
  BY DEF Listed, Lone
<1>6. cur' # None => conn'[cur'].conn /\ ~conn'[cur'].blocked
  BY <1>0, <1>1 DEF ListInv
<1>7. \A c \in Clients \ {d} : c \in twice' <=> c \in twice
  BY <1>1
<1>8. twice' \subseteq Clients
  BY <1>0, <1>1
<1>9. cur' \in Clients \cup {None} /\ (phase' = "cron" => cur' = None)
  BY DEF ListInv
<1> QED BY <1>1, <1>2, <1>4, <1>5, <1>6, <1>7, <1>8, <1>9, EntryStep

LEMMA UnblockStep ==
    ASSUME ListInv, NEW d \in Clients, conn[d].blocked, U!Unblock(d), UNCHANGED <<phase, cur>>
    PROVE  ListInv'
<1> DEFINE r == [conn[d] EXCEPT !.blocked = FALSE, !.unb = TRUE]
<1>0. /\ conn \in [Clients -> Connection] /\ unblocked \in Seq(Clients) /\ twice \subseteq Clients
      /\ Entered(d)
  BY DEF ListInv
<1>1. r \in Connection /\ r.unb = TRUE /\ r.blocked = FALSE /\ r.conn = conn[d].conn
  BY <1>0 DEF Connection
<1>2. conn' = [conn EXCEPT ![d] = r] /\ conn'[d] = r
  BY <1>0 DEF U!Unblock
<1> HIDE DEF r
<1>3. /\ unblocked' = Append(unblocked, d)
      /\ twice' = IF conn[d].unb THEN twice \cup {d} ELSE twice
  BY DEF U!Unblock
<1>4. r.conn
  BY <1>0, <1>1 DEF Entered
<1>5. d \notin twice' => ~Listed(unblocked, d)
  BY <1>0, <1>3 DEF Entered
<1>6. /\ unblocked' \in Seq(Clients) /\ Listed(unblocked', d)
      /\ \A c \in Clients \ {d} : /\ Listed(unblocked', c) <=> Listed(unblocked, c)
                                  /\ Lone(unblocked, c) => Lone(unblocked', c)
      /\ d \notin twice' => Lone(unblocked', d)
  BY <1>0, <1>3, <1>5, LastAdded
<1>7. /\ \A c \in Clients \ {d} : c \in twice' <=> c \in twice
      /\ twice' \subseteq Clients
  BY <1>0, <1>3
<1>8. cur' # None => conn'[cur'].conn /\ ~conn'[cur'].blocked
  BY <1>0, <1>1, <1>2, <1>4 DEF ListInv
<1>9. cur' \in Clients \cup {None} /\ (phase' = "cron" => cur' = None)
  BY DEF ListInv
<1>10. r.unb
  BY <1>1
<1> QED BY <1>1, <1>2, <1>4, <1>6, <1>7, <1>8, <1>9, <1>10, EntryStep

(* A step that leaves the list and its history alone, and of client d the  *)
(* connection and the flag                                                 *)
LEMMA QuietStep ==
    ASSUME ListInv, NEW d \in Clients, NEW r \in Connection, conn' = [conn EXCEPT ![d] = r],
           UNCHANGED <<unblocked, twice>>, r.unb = conn[d].unb,
           cur' \in Clients \cup {None},
           cur' # None => conn'[cur'].conn /\ ~conn'[cur'].blocked,
           phase' = "cron" => cur' = None,
           r.blocked \/ r.unb \/ r.buf => r.conn
    PROVE  ListInv'
<1>1. unblocked \in Seq(Clients) /\ twice \subseteq Clients /\ Entered(d)
  BY DEF ListInv
<1>2. /\ r.unb => Listed(unblocked', d)
      /\ d \notin twice' => (Listed(unblocked', d) => r.unb) /\ Lone(unblocked', d)
  BY <1>1 DEF Entered
<1> QED BY <1>1, <1>2, EntryStep

LEMMA ListStep == ListInv /\ [U!Next]_U!vars => ListInv'
<1> SUFFICES ASSUME ListInv, [U!Next]_U!vars PROVE ListInv'
  OBVIOUS
<1>0. /\ conn \in [Clients -> Connection] /\ unblocked \in Seq(Clients) /\ twice \subseteq Clients
      /\ cur \in Clients \cup {None} /\ None \notin Clients
      /\ cur # None => conn[cur].conn /\ ~conn[cur].blocked
      /\ phase = "cron" => cur = None
      /\ \A c \in Clients : Entered(c)
  BY ListsAssumption DEF ListInv, B!BlockingAssumption
<1>1. ASSUME NEW c \in Clients, U!Read(c) PROVE ListInv'
  <2> DEFINE r == [conn[c] EXCEPT !.buf = conn[c].blocked]
  <2>1. /\ r \in Connection /\ r.unb = conn[c].unb /\ r.conn = conn[c].conn
        /\ r.blocked = conn[c].blocked
    BY <1>0 DEF Connection
  <2>2. conn' = [conn EXCEPT ![c] = r] /\ conn'[c] = r
    BY <1>0, <1>1 DEF U!Read
  <2> HIDE DEF r
  <2>3. /\ conn[c].conn /\ UNCHANGED <<unblocked, twice, phase>> /\ phase = "events"
        /\ cur' = IF conn[c].blocked THEN None ELSE c
    BY <1>1 DEF U!Read
  <2>4. cur' \in Clients \cup {None} /\ (cur' # None => conn'[cur'].conn /\ ~conn'[cur'].blocked)
    BY <2>1, <2>2, <2>3
  <2>5. r.blocked \/ r.unb \/ r.buf => r.conn
    BY <2>1, <2>3
  <2> QED BY <2>1, <2>2, <2>3, <2>4, <2>5, QuietStep
<1>2. ASSUME NEW d \in Clients, U!Serve(d) \/ U!Timeout(d) PROVE ListInv'
  <2>1. conn[d].blocked /\ U!Unblock(d) /\ UNCHANGED <<phase, cur>>
    BY <1>2 DEF U!Serve, U!Timeout
  <2> QED BY <2>1, UnblockStep
<1>3. ASSUME NEW d \in Clients, U!Kill(d) \/ U!Disconnect(d) \/ U!Close(d) PROVE ListInv'
  <2>1. U!Free(d) /\ UNCHANGED <<phase, cur>> /\ cur # d
    BY <1>0, <1>3 DEF U!Kill, U!Disconnect, U!Close
  <2> QED BY <2>1, FreeStep
<1>4. ASSUME NEW d \in Clients, U!Connect(d) PROVE ListInv'
  <2>1. /\ U!NewClient \in Connection /\ U!NewClient.conn
        /\ ~U!NewClient.blocked /\ ~U!NewClient.unb /\ ~U!NewClient.buf
    BY DEF U!NewClient, Connection
  <2>2. /\ conn' = [conn EXCEPT ![d] = U!NewClient] /\ UNCHANGED <<unblocked, twice, phase, cur>>
        /\ cur = None /\ phase = "events" /\ d \notin U!ToSet(unblocked)
    BY <1>4 DEF U!Connect
  <2>3. ~Listed(unblocked, d)
    BY <1>0, <2>2, LenProperties DEF U!ToSet, Listed
  <2>4. ~conn[d].unb
    BY <1>0, <2>3 DEF Entered
  <2>5. d \notin twice' => (Listed(unblocked', d) => U!NewClient.unb) /\ Lone(unblocked', d)
    BY <2>2, <2>3 DEF Lone, Listed
  <2>6. /\ U!NewClient.unb => Listed(unblocked', d)
        /\ U!NewClient.blocked \/ U!NewClient.unb \/ U!NewClient.buf => U!NewClient.conn
    BY <2>1
  <2> QED BY <1>0, <2>1, <2>2, <2>5, <2>6, EntryStep
<1>5. ASSUME NEW more \in BOOLEAN, U!Block(more) PROVE ListInv'
  <2> DEFINE r == [conn[cur] EXCEPT !.blocked = TRUE, !.buf = more]
  <2>0. cur \in Clients /\ conn[cur].conn /\ conn[cur] \in Connection
    BY <1>0, <1>5 DEF U!Block
  <2>1. r \in Connection /\ r.unb = conn[cur].unb /\ r.conn = conn[cur].conn
    BY <2>0 DEF Connection
  <2>2. conn' = [conn EXCEPT ![cur] = r]
    BY <1>0, <1>5 DEF U!Block
  <2> HIDE DEF r
  <2>3. UNCHANGED <<unblocked, twice, phase>> /\ cur' = None
    BY <1>5 DEF U!Block
  <2>4. r.blocked \/ r.unb \/ r.buf => r.conn
    BY <2>0, <2>1
  <2> QED BY <2>0, <2>1, <2>2, <2>3, <2>4, QuietStep
<1>6. CASE U!Processed \/ U!NextPhase
  <2>1. UNCHANGED <<conn, unblocked, twice>> /\ cur' = None
    BY <1>6 DEF U!Processed, U!NextPhase
  <2> QED BY <1>0, <2>1 DEF ListInv, Entered
<1>7. CASE U!NextUnblocked
  <2> DEFINE c == Head(unblocked)
             r == [conn[c] EXCEPT !.unb = FALSE, !.buf = conn[c].buf /\ conn[c].blocked]
  <2>0. /\ phase = "drain" /\ unblocked # << >> /\ unblocked' = Tail(unblocked)
        /\ UNCHANGED <<phase, twice>>
        /\ cur' = IF conn[c].buf /\ ~conn[c].blocked THEN c ELSE None
    BY <1>7 DEF U!NextUnblocked
  <2>1. /\ c \in Clients /\ unblocked' \in Seq(Clients)
        /\ \A b \in Clients \ {c} :
              (Listed(unblocked', b) <=> Listed(unblocked, b)) /\ (Lone(unblocked, b) => Lone(unblocked', b))
        /\ Lone(unblocked, c) => ~Listed(unblocked', c)
    BY <1>0, <2>0, HeadTaken
  <2>2. conn' = [conn EXCEPT ![c] = [conn[c] EXCEPT !.unb = FALSE, !.buf = conn[c].buf /\ conn[c].blocked]]
    BY <1>0, <1>7, <2>1 DEF U!NextUnblocked
  <2>a. conn[c] \in Connection
    BY <1>0, <2>1
  <2>3. r \in Connection /\ r.unb = FALSE /\ r.conn = conn[c].conn /\ r.blocked = conn[c].blocked
    BY <2>a DEF Connection
  <2>4. r.buf = (conn[c].buf /\ conn[c].blocked)
    BY <2>a DEF Connection
  <2>5. conn' = [conn EXCEPT ![c] = r] /\ conn'[c] = r
    BY <1>0, <2>1, <2>2
  <2> HIDE DEF r, c
  <2>b. Entered(c)
    BY <1>0, <2>1
  <2>6. r.blocked \/ r.unb \/ r.buf => r.conn
    BY <2>3, <2>4, <2>b DEF Entered
  <2>7. cur' \in Clients \cup {None} /\ (cur' # None => conn'[cur'].conn /\ ~conn'[cur'].blocked)
    BY <2>0, <2>1, <2>3, <2>5, <2>b DEF Entered
  <2>8. c \notin twice' => ~Listed(unblocked', c) /\ Lone(unblocked', c)
    BY <2>0, <2>1, <2>b DEF Entered, Listed, Lone
  <2>9. /\ r.unb => Listed(unblocked', c)
        /\ c \notin twice' => (Listed(unblocked', c) => r.unb) /\ Lone(unblocked', c)
    BY <2>3, <2>8
  <2>10. phase' = "cron" => cur' = None
    BY <2>0
  <2>11. twice' \subseteq Clients /\ \A b \in Clients \ {c} : b \in twice' <=> b \in twice
    BY <1>0, <2>0
  <2> QED BY <2>1, <2>3, <2>5, <2>6, <2>7, <2>9, <2>10, <2>11, EntryStep
<1>8. CASE U!Sleep
  <2>1. unblocked = << >> /\ twice' = {} /\ cur = None /\ UNCHANGED <<conn, unblocked, cur>>
    BY <1>8 DEF U!Sleep
  <2>2. 1..Len(unblocked) = {}
    BY <2>1, EmptySeq
  <2>3. \A c \in Clients : Entered(c)'
    BY <1>0, <2>1, <2>2 DEF Entered, Listed, Lone
  <2> QED BY <1>0, <2>1, <2>3 DEF ListInv
<1>9. CASE UNCHANGED U!vars
  BY <1>9 DEF U!vars, ListInv, Entered
<1> QED BY <1>1, <1>2, <1>3, <1>4, <1>5, <1>6, <1>7, <1>8, <1>9 DEF U!Next

(* ClientUnblocking: for any clients, beforeSleep meets no freed client    *)
(* and REDIS_UNBLOCKED tells who is on the list, except for clients that   *)
(* were unblocked while on the list.                                       *)
THEOREM UnblockedAreListed == U!Spec => []FreedNotListed
<1>1. ListInv => FreedNotListed
  <2> SUFFICES ASSUME ListInv PROVE FreedNotListed
    OBVIOUS
  <2>1. U!FreedNotListed
    <3> SUFFICES ASSUME NEW i \in 1..Len(unblocked), unblocked[i] \notin twice
                 PROVE  conn[unblocked[i]].conn
      BY DEF U!FreedNotListed
    <3>1. unblocked[i] \in Clients
      BY ElementOfSeq DEF ListInv
    <3>2. Entered(unblocked[i]) /\ Listed(unblocked, unblocked[i])
      BY <3>1 DEF ListInv, Listed
    <3> QED BY <3>2 DEF Entered
  <2>2. U!FlagMeansListed
    <3>1. DOMAIN unblocked = 1..Len(unblocked)
      BY LenProperties DEF ListInv
    <3>2. \A c : c \in U!ToSet(unblocked) <=> Listed(unblocked, c)
      BY <3>1 DEF U!ToSet, Listed
    <3>3. \A c \in Clients : Entered(c) /\ conn[c].unb \in BOOLEAN
      BY DEF ListInv, Connection
    <3> QED BY <3>2, <3>3 DEF U!FlagMeansListed, Entered
  <2> QED BY <2>1, <2>2 DEF FreedNotListed
<1> QED BY <1>1, ListInit, ListStep, PTL DEF U!Spec

-----------------------------------------------------------------------------
(* Blocking lists *)

Waiter == [keys : SUBSET Keys, target : Keys \cup {None}, end : B!Ends]
Loop == [on : BOOLEAN, local : Seq(Keys), key : Keys \cup {None}, left : Nat]
Items == 1..MaxPush
Values == Seq(Items) \cup {Str}

ListTypes ==
    /\ db \in [Keys -> Values]
    /\ blocking \in [Keys -> Seq(Clients)]
    /\ waiter \in [Clients -> Waiter]
    /\ ready \in Seq(Keys) /\ readyDict \in SUBSET Keys
    /\ serve \in Loop
    /\ batch \in Clients \cup {None}
    /\ pushed \in 0..MaxPush

(* The two sides of a block *)
Matched ==
    \A k \in Keys, c \in Clients : /\ Listed(blocking[k], c) <=> k \in waiter[c].keys
                                   /\ Lone(blocking[k], c)

(* The server serves between commands, and does so when keys are queued;   *)
(* of the key it serves as many clients are left as wait.                  *)
Turn ==
    /\ ~serve.on => serve = B!Off /\ (batch = None => ready = << >>)
    /\ serve.on => batch = None
    /\ serve.key # None =>
          /\ serve.local # << >> /\ Head(serve.local) = serve.key
          /\ serve.left = Len(blocking[serve.key])
          /\ db[serve.key] # Str

ToServe == IF serve.key = None THEN serve.local ELSE Tail(serve.local)

(* A key in db->ready_keys is on one of the two lists. *)
Queued == \A k \in readyDict : Listed(ready, k) \/ Listed(ToServe, k)

(* A key with elements and waiting clients is queued, or being served. *)
InHand ==
    \A k \in Keys \ renamed :
        B!IsList(k) /\ blocking[k] # << >> => k \in readyDict \/ k = serve.key

ListsInv == ListTypes /\ Matched /\ Turn /\ Queued /\ InHand

-----------------------------------------------------------------------------
(* The lists and their ends *)

LEMMA PushedAt ==
    ASSUME B!BlockingAssumption, NEW d \in [Keys -> Values], NEW k \in Keys, d[k] # Str,
           NEW e \in Items, NEW end
    PROVE  /\ B!Push(d, k, e, end) \in [Keys -> Values]
           /\ \A q \in Keys \ {k} : B!Push(d, k, e, end)[q] = d[q]
           /\ B!Push(d, k, e, end)[k] # << >> /\ B!Push(d, k, e, end)[k] # Str
<1> DEFINE n == IF end = "head" THEN <<e>> \o d[k] ELSE Append(d[k], e)
<1>1. d[k] \in Seq(Items)
  BY DEF Values
<1>2. <<e>> \o d[k] \in Seq(Items) /\ Append(d[k], e) \in Seq(Items)
  BY <1>1
<1>3. Len(<<e>> \o d[k]) = 1 + Len(d[k]) /\ Len(Append(d[k], e)) = Len(d[k]) + 1 /\ Len(d[k]) \in Nat
  BY <1>1
<1>4. n \in Seq(Items) /\ n # << >>
  <2>1. Len(<< >>) = 0
    BY EmptySeq
  <2>2. <<e>> \o d[k] # << >> /\ Append(d[k], e) # << >>
    BY <1>3, <2>1
  <2> QED BY <1>2, <2>2
<1>5. Items \subseteq Nat
  BY DEF Items, B!BlockingAssumption
<1>6. n \in Seq(Nat)
  BY <1>4, <1>5, SeqMonotonic
<1>7. n # Str
  BY <1>6 DEF B!BlockingAssumption
<1>8. B!Push(d, k, e, end) = [d EXCEPT ![k] = n]
  BY DEF B!Push
<1> HIDE DEF n
<1>9. B!Push(d, k, e, end) \in [Keys -> Values] /\ B!Push(d, k, e, end)[k] = n
  BY <1>4, <1>8 DEF Values
<1>10. \A q \in Keys \ {k} : B!Push(d, k, e, end)[q] = d[q]
  BY <1>8
<1> QED BY <1>4, <1>7, <1>9, <1>10 DEF n

LEMMA PoppedAt ==
    ASSUME B!BlockingAssumption, NEW d \in [Keys -> Values], NEW k \in Keys, d[k] # Str, d[k] # << >>,
           NEW end
    PROVE  /\ B!Pop(d, k, end) \in [Keys -> Values]
           /\ \A q \in Keys \ {k} : B!Pop(d, k, end)[q] = d[q]
           /\ B!Pop(d, k, end)[k] = IF end = "head" THEN Tail(d[k]) ELSE B!Front(d[k])
           /\ B!Pop(d, k, end)[k] # Str
           /\ Head(d[k]) \in Items /\ B!Last(d[k]) \in Items
<1> DEFINE n == IF end = "head" THEN Tail(d[k]) ELSE B!Front(d[k])
<1>1. d[k] \in Seq(Items)
  BY DEF Values
<1>2. Len(d[k]) \in Nat \ {0} /\ \A i \in 1..Len(d[k]) : d[k][i] \in Items
  BY <1>1, EmptySeq, LenProperties, ElementOfSeq
<1>3. Tail(d[k]) \in Seq(Items) /\ Head(d[k]) \in Items
  BY <1>1, HeadTailProperties
<1>4. \A i \in 1..(Len(d[k]) - 1) : d[k][i] \in Items
  BY <1>2
<1>5. B!Front(d[k]) \in Seq(Items) /\ B!Last(d[k]) \in Items
  <2>1. SubSeq(d[k], 1, Len(d[k]) - 1) \in Seq(Items)
    BY <1>1, <1>2, <1>4, SubSeqProperties
  <2>2. d[k][Len(d[k])] \in Items
    BY <1>2
  <2> QED BY <2>1, <2>2 DEF B!Front, B!Last
<1>6. n \in Seq(Items)
  BY <1>3, <1>5
<1>7. n # Str
  <2>1. Items \subseteq Nat
    BY DEF Items, B!BlockingAssumption
  <2>2. n \in Seq(Nat)
    BY <1>6, <2>1, SeqMonotonic
  <2> QED BY <2>2 DEF B!BlockingAssumption
<1>8. B!Pop(d, k, end) = [d EXCEPT ![k] = n]
  BY DEF B!Pop
<1> HIDE DEF n
<1>9. B!Pop(d, k, end) \in [Keys -> Values] /\ B!Pop(d, k, end)[k] = n
  BY <1>6, <1>8 DEF Values
<1>10. \A q \in Keys \ {k} : B!Pop(d, k, end)[q] = d[q]
  BY <1>8
<1> QED BY <1>3, <1>5, <1>6, <1>7, <1>9, <1>10 DEF n

-----------------------------------------------------------------------------
(* Commands *)

(* A command that signals nothing is one that has created no list. *)
LEMMA NothingSignalled ==
    ASSUME ListsInv, ~serve.on, UNCHANGED <<readyDict, ready, serve>>, NEW k
    PROVE  B!SignalReady(k, FALSE) /\ B!AfterCommand
  BY DEF ListsInv, Turn, B!SignalReady, B!AfterCommand

(* What every command does that is not about waiting: k is the key whose   *)
(* list it may have created.                                               *)
LEMMA CommandStep ==
    ASSUME B!BlockingAssumption, ListsInv, ~serve.on, UNCHANGED <<blocking, waiter, batch>>,
           pushed' \in 0..MaxPush, db' \in [Keys -> Values],
           NEW k \in Keys, NEW created \in BOOLEAN,
           B!SignalReady(k, created), B!AfterCommand,
           \A q \in Keys \ renamed' :
              B!IsList(q)' => (q \notin renamed /\ B!IsList(q)) \/ (q = k /\ created)
    PROVE  ListsInv'
<1>1. serve = B!Off
  BY DEF ListsInv, Turn
<1>2. serve.local = << >> /\ serve.key = None /\ ToServe = << >>
  BY <1>1 DEF B!Off, ToServe
<1>3. serve' \in Loop /\ serve'.key = None /\ serve'.local = << >>
      /\ (serve'.on <=> (batch = None /\ ready' # << >>)) /\ (~serve'.on => serve' = B!Off)
  <2>1. << >> \in Seq(Keys)
    BY EmptySeq
  <2>2. CASE batch = None /\ ready' # << >>
    <3>1. serve' = [on |-> TRUE, local |-> << >>, key |-> None, left |-> 0]
      BY <2>2 DEF B!AfterCommand, B!Off
    <3> QED BY <2>1, <2>2, <3>1 DEF Loop
  <2>3. CASE ~(batch = None /\ ready' # << >>)
    <3>1. serve' = B!Off
      BY <2>3 DEF B!AfterCommand
    <3>2. serve' = [on |-> FALSE, local |-> << >>, key |-> None, left |-> 0]
      BY <3>1 DEF B!Off
    <3> QED BY <2>1, <2>3, <3>1, <3>2 DEF Loop
  <2> QED BY <2>2, <2>3
<1>4. ready' \in Seq(Keys) /\ readyDict' \in SUBSET Keys /\ readyDict \subseteq readyDict'
      /\ (created /\ blocking[k] # << >> => k \in readyDict')
      /\ \A q \in readyDict' : Listed(ready', q)
  <2>1. \A q \in readyDict : Listed(ready, q)
    <3>1. \A q : ~Listed(<< >>, q)
      <4>1. Len(<< >>) = 0
        BY EmptySeq
      <4> QED BY <4>1 DEF Listed
    <3> QED BY <1>2, <3>1 DEF ListsInv, Queued
  <2>2. ready \in Seq(Keys) /\ readyDict \in SUBSET Keys
    BY DEF ListsInv, ListTypes
  <2>3. CASE created /\ blocking[k] # << >> /\ k \notin readyDict
    <3>1. readyDict' = readyDict \cup {k} /\ ready' = Append(ready, k)
      BY <2>3 DEF B!SignalReady
    <3>2. /\ Append(ready, k) \in Seq(Keys) /\ Listed(Append(ready, k), k)
          /\ \A q \in Keys \ {k} : Listed(Append(ready, k), q) <=> Listed(ready, q)
      BY <2>2, LastAdded
    <3> QED BY <2>1, <2>2, <2>3, <3>1, <3>2
  <2>4. CASE ~(created /\ blocking[k] # << >> /\ k \notin readyDict)
    <3>1. readyDict' = readyDict /\ ready' = ready
      BY <2>4 DEF B!SignalReady
    <3> QED BY <2>1, <2>2, <2>4, <3>1
  <2> QED BY <2>3, <2>4
<1>5. ListTypes'
  BY <1>3, <1>4 DEF ListsInv, ListTypes
<1>6. Matched'
  BY DEF ListsInv, Matched
<1>7. Turn'
  BY <1>3 DEF ListsInv, Turn
<1>8. Queued'
  BY <1>4 DEF Queued
<1>9. InHand'
  <2> SUFFICES ASSUME NEW q \in Keys, q \notin renamed', B!IsList(q)', blocking[q] # << >>
               PROVE  q \in readyDict'
    BY DEF InHand
  <2>1. CASE q \notin renamed /\ B!IsList(q)
    <3>1. q # serve.key
      BY <1>2 DEF B!BlockingAssumption
    <3> QED BY <1>4, <2>1, <3>1 DEF ListsInv, InHand
  <2>2. CASE q = k /\ created
    BY <1>4, <2>2
  <2> QED BY <2>1, <2>2
<1> QED BY <1>5, <1>6, <1>7, <1>8, <1>9 DEF ListsInv

LEMMA PushStep ==
    ASSUME B!BlockingAssumption, ListsInv, NEW c \in Clients, NEW k \in Keys, NEW end \in B!Ends,
           B!PushCommand(c, k, end)
    PROVE  ListsInv'
<1>1. ~serve.on /\ UNCHANGED <<blocking, waiter, batch>> /\ B!SignalReady(k, db[k] = << >>)
      /\ B!AfterCommand /\ pushed' = pushed + 1 /\ pushed < MaxPush /\ db[k] # Str
      /\ db' = B!Push(db, k, pushed + 1, end) /\ B!KeepRenamed
  BY DEF B!PushCommand, B!MayRun
<1>2. db \in [Keys -> Values] /\ pushed \in 0..MaxPush /\ MaxPush \in Nat
  BY DEF ListsInv, ListTypes, B!BlockingAssumption
<1>3. pushed + 1 \in Items /\ pushed' \in 0..MaxPush
  BY <1>1, <1>2 DEF Items
<1>4. db' \in [Keys -> Values] /\ \A q \in Keys \ {k} : db'[q] = db[q]
  <2> DEFINE n == B!Push(db, k, pushed + 1, end)
  <2>1. n \in [Keys -> Values] /\ \A q \in Keys \ {k} : n[q] = db[q]
    BY <1>1, <1>2, <1>3, PushedAt
  <2>2. db' = n
    BY <1>1
  <2> HIDE DEF n
  <2> QED BY <2>1, <2>2
<1>5. ASSUME NEW q \in Keys \ renamed', B!IsList(q)'
      PROVE  (q \notin renamed /\ B!IsList(q)) \/ (q = k /\ db[k] = << >>)
  <2>1. q \notin renamed
    BY <1>1, <1>5 DEF B!KeepRenamed, B!IsList
  <2>2. q # k => B!IsList(q)
    BY <1>4, <1>5 DEF B!IsList
  <2>3. db[k] # << >> => B!IsList(k)
    BY <1>1 DEF B!IsList
  <2> QED BY <2>1, <2>2, <2>3
<1> QED BY <1>1, <1>3, <1>4, <1>5, CommandStep

(* The lists do not grow where db' has no list or the one it had. *)
LEMMA NoListAdded ==
    ASSUME B!BlockingAssumption, ListsInv, ~serve.on,
           UNCHANGED <<blocking, waiter, batch, readyDict, ready, serve, pushed>>,
           db' \in [Keys -> Values],
           \A q \in Keys \ renamed' : B!IsList(q)' => q \notin renamed /\ B!IsList(q)
    PROVE  ListsInv'
<1>1. pushed' \in 0..MaxPush
  BY DEF ListsInv, ListTypes
<1>2. ASSUME NEW k \in Keys PROVE ListsInv'
  <2>1. B!SignalReady(k, FALSE) /\ B!AfterCommand
    BY NothingSignalled
  <2> QED BY <1>1, <2>1, CommandStep
<1>3. CASE Keys = {}
  <2>1. ListTypes' /\ Matched' /\ Queued' /\ InHand'
    BY <1>3 DEF ListsInv, ListTypes, Matched, Queued, InHand, ToServe
  <2>2. Turn'
    <3>1. serve'.key = None
      BY DEF ListsInv, Turn, B!Off
    <3> QED BY <3>1 DEF ListsInv, Turn
  <2> QED BY <2>1, <2>2 DEF ListsInv
<1> QED BY <1>2, <1>3

LEMMA PopStep ==
    ASSUME B!BlockingAssumption, ListsInv, ~serve.on,
           UNCHANGED <<blocking, waiter, batch, readyDict, ready, serve, pushed>>,
           NEW k \in Keys, NEW end, B!IsList(k), db' = B!Pop(db, k, end), B!KeepRenamed
    PROVE  ListsInv'
<1>1. db \in [Keys -> Values]
  BY DEF ListsInv, ListTypes
<1>2. db' \in [Keys -> Values] /\ \A q \in Keys \ {k} : db'[q] = db[q]
  BY <1>1, PoppedAt DEF B!IsList
<1>3. \A q \in Keys \ renamed' : B!IsList(q)' => q \notin renamed /\ B!IsList(q)
  BY <1>2 DEF B!KeepRenamed, B!IsList
<1> QED BY <1>2, <1>3, NoListAdded

LEMMA OverwriteStep ==
    ASSUME B!BlockingAssumption, ListsInv, NEW c \in Clients, NEW k \in Keys, NEW v \in {<< >>, Str},
           B!Overwrite(c, k, v)
    PROVE  ListsInv'
<1>1. ~serve.on /\ UNCHANGED <<blocking, waiter, batch, readyDict, ready, serve, pushed>>
      /\ db' = [db EXCEPT ![k] = v] /\ B!KeepRenamed
  BY DEF B!Overwrite, B!MayRun
<1>2. db \in [Keys -> Values] /\ v \in Values
  BY EmptySeq DEF ListsInv, ListTypes, Values
<1>3. db' \in [Keys -> Values] /\ \A q \in Keys : db'[q] = IF q = k THEN v ELSE db[q]
  BY <1>1, <1>2
<1>4. \A q \in Keys \ renamed' : B!IsList(q)' => q \notin renamed /\ B!IsList(q)
  BY <1>1, <1>3 DEF B!KeepRenamed, B!IsList
<1> QED BY <1>1, <1>3, <1>4, NoListAdded

LEMMA RenameStep ==
    ASSUME B!BlockingAssumption, ListsInv, NEW c \in Clients, NEW src \in Keys, NEW dst \in Keys,
           B!Rename(c, src, dst)
    PROVE  ListsInv'
<1>1. ~serve.on /\ UNCHANGED <<blocking, waiter, batch, readyDict, ready, serve, pushed>>
      /\ db' = [db EXCEPT ![dst] = db[src], ![src] = << >>] /\ src # dst
      /\ renamed' = {k \in renamed \cup {dst} : db'[k] # << >> /\ db'[k] # Str}
  BY DEF B!Rename, B!MayRun
<1>2. db \in [Keys -> Values] /\ << >> \in Values /\ db[src] \in Values
  BY EmptySeq DEF ListsInv, ListTypes, Values
<1>3. /\ db' \in [Keys -> Values]
      /\ \A q \in Keys : db'[q] = IF q = src THEN << >> ELSE IF q = dst THEN db[src] ELSE db[q]
  BY <1>1, <1>2
<1>4. \A q \in Keys \ renamed' : B!IsList(q)' => q \notin renamed /\ B!IsList(q)
  BY <1>1, <1>3 DEF B!IsList
<1> QED BY <1>1, <1>3, <1>4, NoListAdded

LEMMA MoveStep ==
    ASSUME B!BlockingAssumption, ListsInv, ~serve.on, UNCHANGED <<blocking, waiter, batch, pushed>>,
           NEW src \in Keys, NEW dst \in Keys, B!IsList(src), db[dst] # Str,
           B!SignalReady(dst, db[dst] = << >>), B!AfterCommand, B!KeepRenamed,
           db' = B!Push(B!Pop(db, src, "tail"), dst, B!Last(db[src]), "head")
    PROVE  ListsInv'
<1> DEFINE d == B!Pop(db, src, "tail")
<1>1. db \in [Keys -> Values] /\ pushed' \in 0..MaxPush
  BY DEF ListsInv, ListTypes
<1>2. /\ d \in [Keys -> Values] /\ d[dst] # Str /\ B!Last(db[src]) \in Items
      /\ \A q \in Keys \ {src} : d[q] = db[q]
  BY <1>1, PoppedAt DEF B!IsList
<1> HIDE DEF d
<1>3. db' \in [Keys -> Values] /\ \A q \in Keys \ {dst} : db'[q] = d[q]
  <2> DEFINE n == B!Push(d, dst, B!Last(db[src]), "head")
  <2>1. n \in [Keys -> Values] /\ \A q \in Keys \ {dst} : n[q] = d[q]
    BY <1>2, PushedAt
  <2>2. db' = n
    BY DEF d
  <2> HIDE DEF n
  <2> QED BY <2>1, <2>2
<1>4. ASSUME NEW q \in Keys \ renamed', B!IsList(q)'
      PROVE  (q \notin renamed /\ B!IsList(q)) \/ (q = dst /\ db[dst] = << >>)
  <2>1. q \notin renamed
    BY <1>4 DEF B!KeepRenamed, B!IsList
  <2>2. q # dst => B!IsList(q)
    BY <1>2, <1>3, <1>4 DEF B!IsList
  <2>3. db[dst] # << >> => B!IsList(dst)
    BY DEF B!IsList
  <2> QED BY <2>1, <2>2, <2>3
<1> QED BY <1>1, <1>3, <1>4, CommandStep

-----------------------------------------------------------------------------
(* Waiting *)

(* blockForKeys: the keys have no list. *)
LEMMA BlockStep ==
    ASSUME B!BlockingAssumption, ListsInv, NEW c \in Clients, NEW ks \in SUBSET Keys,
           NEW target \in Keys \cup {None}, NEW end \in B!Ends,
           B!MayRun(c), B!BlockForKeys(c, ks, target, end), \A k \in ks : ~B!IsList(k)
    PROVE  ListsInv'
<1>1. ~serve.on /\ waiter[c].keys = {}
  BY DEF B!MayRun, B!Blocked
<1>2. /\ blocking' = [k \in Keys |-> IF k \in ks THEN Append(blocking[k], c) ELSE blocking[k]]
      /\ waiter' = [waiter EXCEPT ![c].keys = ks, ![c].target = target, ![c].end = end]
      /\ UNCHANGED <<db, readyDict, ready, serve, batch, pushed, renamed>>
  BY DEF B!BlockForKeys
<1>3. blocking \in [Keys -> Seq(Clients)] /\ waiter \in [Clients -> Waiter]
  BY DEF ListsInv, ListTypes
<1>4. serve.key = None
  BY <1>1 DEF ListsInv, Turn, B!Off
<1>5. /\ waiter' \in [Clients -> Waiter] /\ waiter'[c].keys = ks
      /\ \A o \in Clients \ {c} : waiter'[o].keys = waiter[o].keys
  BY <1>2, <1>3 DEF Waiter
<1>6. ASSUME NEW k \in Keys
      PROVE  /\ blocking'[k] \in Seq(Clients)
             /\ \A o \in Clients : /\ Listed(blocking'[k], o) <=> k \in waiter'[o].keys
                                    /\ Lone(blocking'[k], o)
  <2>1. \A o \in Clients : (Listed(blocking[k], o) <=> k \in waiter[o].keys) /\ Lone(blocking[k], o)
    BY DEF ListsInv, Matched
  <2>2. ~Listed(blocking[k], c)
    BY <1>1, <2>1
  <2>3. CASE k \in ks
    <3>1. blocking'[k] = Append(blocking[k], c)
      BY <1>2, <2>3
    <3>2. /\ Append(blocking[k], c) \in Seq(Clients)
          /\ \A o \in Clients \ {c} :
                (Listed(Append(blocking[k], c), o) <=> Listed(blocking[k], o))
                /\ (Lone(blocking[k], o) => Lone(Append(blocking[k], c), o))
          /\ Listed(Append(blocking[k], c), c)
          /\ Lone(Append(blocking[k], c), c)
      BY <1>3, <2>2, LastAdded
    <3> QED BY <1>5, <2>1, <2>3, <3>1, <3>2
  <2>4. CASE k \notin ks
    <3>1. blocking'[k] = blocking[k]
      BY <1>2, <2>4
    <3> QED BY <1>3, <1>5, <2>1, <2>2, <2>4, <3>1
  <2> QED BY <2>3, <2>4
<1>7. ListTypes'
  <2>1. blocking' \in [Keys -> Seq(Clients)]
    BY <1>2, <1>6
  <2> QED BY <1>2, <1>5, <2>1 DEF ListsInv, ListTypes
<1>8. Matched'
  BY <1>6 DEF Matched, Listed, Lone
<1>9. Turn'
  BY <1>2, <1>4 DEF ListsInv, Turn
<1>10. Queued'
  BY <1>2 DEF ListsInv, Queued, ToServe
<1>11. InHand'
  <2>1. \A k \in Keys \ ks : blocking'[k] = blocking[k]
    BY <1>2
  <2>2. \A k \in Keys : B!IsList(k)' <=> B!IsList(k)
    BY <1>2 DEF B!IsList
  <2> QED BY <1>2, <2>1, <2>2 DEF ListsInv, InHand
<1> QED BY <1>7, <1>8, <1>9, <1>10, <1>11 DEF ListsInv

(* unblockClientWaitingData: the client leaves every list, and from a list *)
(* that it is on one client leaves.                                        *)
LEMMA Unblocked ==
    ASSUME ListsInv, NEW c \in Clients, B!Unblock(c)
    PROVE  /\ blocking' \in [Keys -> Seq(Clients)] /\ waiter' \in [Clients -> Waiter]
           /\ Matched'
           /\ \A k \in Keys : blocking'[k] # << >> => blocking[k] # << >>
           /\ \A k \in Keys : Listed(blocking[k], c) => Len(blocking'[k]) = Len(blocking[k]) - 1
<1>1. blocking \in [Keys -> Seq(Clients)] /\ waiter \in [Clients -> Waiter] /\ None \in Keys \cup {None}
  BY DEF ListsInv, ListTypes
<1>2. /\ blocking' = [k \in Keys |-> IF k \in waiter[c].keys THEN U!RemoveFirst(blocking[k], c)
                                     ELSE blocking[k]]
      /\ waiter' = [waiter EXCEPT ![c] = B!NotBlocked]
  BY SameRemoval DEF B!Unblock, B!WithoutClient
<1>3. /\ waiter' \in [Clients -> Waiter] /\ waiter'[c].keys = {}
      /\ \A o \in Clients \ {c} : waiter'[o].keys = waiter[o].keys
  <2>1. B!NotBlocked \in Waiter /\ B!NotBlocked.keys = {}
    BY DEF B!NotBlocked, Waiter, B!Ends
  <2> QED BY <1>1, <1>2, <2>1
<1>4. ASSUME NEW k \in Keys
      PROVE  /\ blocking'[k] \in Seq(Clients)
             /\ \A o \in Clients : /\ Listed(blocking'[k], o) <=> k \in waiter'[o].keys
                                    /\ Lone(blocking'[k], o)
             /\ blocking'[k] # << >> => blocking[k] # << >>
             /\ Listed(blocking[k], c) => Len(blocking'[k]) = Len(blocking[k]) - 1
  <2>1. \A o \in Clients : (Listed(blocking[k], o) <=> k \in waiter[o].keys) /\ Lone(blocking[k], o)
    BY DEF ListsInv, Matched
  <2>2. CASE k \in waiter[c].keys
    <3> DEFINE r == U!RemoveFirst(blocking[k], c)
    <3>1. blocking'[k] = r
      BY <1>2, <2>2
    <3>2. /\ r \in Seq(Clients)
          /\ \A o \in Clients \ {c} :
                (Listed(r, o) <=> Listed(blocking[k], o)) /\ (Lone(blocking[k], o) => Lone(r, o))
          /\ Lone(blocking[k], c) => ~Listed(r, c)
          /\ Listed(blocking[k], c) => Len(r) = Len(blocking[k]) - 1
      BY <1>1, FirstRemoved
    <3> HIDE DEF r
    <3>3. Listed(blocking[k], c) /\ ~Listed(r, c)
      BY <2>1, <2>2, <3>2
    <3>4. Lone(r, c)
      BY <3>3 DEF Lone, Listed
    <3>5. blocking[k] # << >>
      <4>1. Len(<< >>) = 0
        BY EmptySeq
      <4> QED BY <3>3, <4>1 DEF Listed
    <3> QED BY <1>3, <2>1, <2>2, <3>1, <3>2, <3>3, <3>4, <3>5
  <2>3. CASE k \notin waiter[c].keys
    <3>1. blocking'[k] = blocking[k]
      BY <1>2, <2>3
    <3> QED BY <1>1, <1>3, <2>1, <2>3, <3>1
  <2> QED BY <2>2, <2>3
<1>5. blocking' \in [Keys -> Seq(Clients)]
  BY <1>2, <1>4
<1>6. Matched'
  BY <1>4 DEF Matched, Listed, Lone
<1> QED BY <1>3, <1>4, <1>5, <1>6

LEMMA GiveUpStep ==
    ASSUME B!BlockingAssumption, ListsInv, NEW c \in Clients, B!GiveUp(c)
    PROVE  ListsInv'
<1>1. ~serve.on /\ B!Unblock(c) /\ UNCHANGED <<db, readyDict, ready, serve, batch, pushed, renamed>>
  BY DEF B!GiveUp, B!Quiet
<1>2. /\ blocking' \in [Keys -> Seq(Clients)] /\ waiter' \in [Clients -> Waiter] /\ Matched'
      /\ \A k \in Keys : blocking'[k] # << >> => blocking[k] # << >>
  <2>1. B!Unblock(c)
    BY <1>1
  <2>2. Matched'
    BY <2>1, Unblocked
  <2>3. blocking' \in [Keys -> Seq(Clients)] /\ waiter' \in [Clients -> Waiter]
    BY <2>1, Unblocked
  <2>4. \A k \in Keys : blocking'[k] # << >> => blocking[k] # << >>
    BY <2>1, Unblocked
  <2> QED BY <2>2, <2>3, <2>4
<1>3. serve.key = None
  BY <1>1 DEF ListsInv, Turn, B!Off
<1>4. ListTypes'
  BY <1>1, <1>2 DEF ListsInv, ListTypes
<1>5. Turn'
  BY <1>1, <1>3 DEF ListsInv, Turn
<1>6. Queued'
  BY <1>1 DEF ListsInv, Queued, ToServe
<1>7. InHand'
  <2>1. \A k \in Keys : B!IsList(k)' <=> B!IsList(k)
    BY <1>1 DEF B!IsList
  <2> QED BY <1>1, <1>2, <2>1 DEF ListsInv, InHand
<1> QED BY <1>2, <1>4, <1>5, <1>6, <1>7 DEF ListsInv

(* BLPOP and BRPOP *)
LEMMA BlockingPopStep ==
    ASSUME B!BlockingAssumption, ListsInv, NEW c \in Clients, NEW ks \in Waits, NEW end \in B!Ends,
           B!BlockingPop(c, ks, end)
    PROVE  ListsInv'
<1>1. B!MayRun(c) /\ ~serve.on
  BY DEF B!BlockingPop, B!MayRun
<1>2. ks \in Seq(Keys) /\ Len(ks) \in Nat /\ \A i \in 1..Len(ks) : ks[i] \in Keys
  BY ElementOfSeq, LenProperties DEF B!BlockingAssumption
<1>3. CASE (\A i \in 1..Len(ks) : db[ks[i]] = << >>) /\ B!BlockForKeys(c, B!ToSet(ks), None, end)
  <2> DEFINE on == B!ToSet(ks)
  <2>1. DOMAIN ks = 1..Len(ks)
    BY <1>2, LenProperties
  <2>2. on \in SUBSET Keys /\ \A k \in on : ~B!IsList(k)
    BY <1>2, <1>3, <2>1 DEF B!ToSet, B!IsList
  <2>3. B!BlockForKeys(c, on, None, end) /\ None \in Keys \cup {None}
    BY <1>3
  <2> HIDE DEF on
  <2> QED BY <1>1, <2>2, <2>3, BlockStep
<1>4. CASE \E i \in 1..Len(ks) :
              /\ B!IsList(ks[i])
              /\ db' = B!Pop(db, ks[i], end)
              /\ B!KeepRenamed
              /\ UNCHANGED <<blocking, readyDict, ready, serve, waiter, batch, pushed>>
  <2>1. PICK i \in 1..Len(ks) :
              /\ B!IsList(ks[i])
              /\ db' = B!Pop(db, ks[i], end)
              /\ B!KeepRenamed
              /\ UNCHANGED <<blocking, readyDict, ready, serve, waiter, batch, pushed>>
    BY <1>4
  <2>2. ks[i] \in Keys
    BY <1>2
  <2> QED BY <1>1, <2>1, <2>2, PopStep
<1> QED BY <1>3, <1>4 DEF B!BlockingPop

LEMMA BrpoplpushStep ==
    ASSUME B!BlockingAssumption, ListsInv, NEW c \in Clients, NEW src \in Keys, NEW dst \in Keys,
           B!Brpoplpush(c, src, dst)
    PROVE  ListsInv'
<1>1. B!MayRun(c) /\ ~serve.on
  BY DEF B!Brpoplpush, B!MayRun
<1>2. CASE db[src] = << >> /\ B!BlockForKeys(c, {src}, dst, "tail")
  <2>1. \A k \in {src} : ~B!IsList(k)
    BY <1>2 DEF B!IsList
  <2>2. {src} \in SUBSET Keys /\ dst \in Keys \cup {None} /\ "tail" \in B!Ends
    BY DEF B!Ends
  <2> QED BY <1>1, <1>2, <2>1, <2>2, BlockStep
<1>3. CASE /\ B!IsList(src) /\ db[dst] # Str
           /\ B!SignalReady(dst, db[dst] = << >>)
           /\ db' = B!Push(B!Pop(db, src, "tail"), dst, B!Last(db[src]), "head")
           /\ B!AfterCommand
           /\ B!KeepRenamed
           /\ UNCHANGED <<blocking, waiter, batch, pushed>>
  BY <1>1, <1>3, MoveStep
<1> QED BY <1>2, <1>3 DEF B!Brpoplpush

LEMMA BatchStep ==
    ASSUME B!BlockingAssumption, ListsInv, NEW c \in Clients, B!BeginBatch(c) \/ B!EndBatch(c)
    PROVE  ListsInv'
<1>1. UNCHANGED <<db, blocking, readyDict, ready, waiter, pushed, renamed>>
      /\ batch' \in Clients \cup {None} /\ ~serve.on
  <2>1. CASE B!BeginBatch(c)
    BY <2>1 DEF B!BeginBatch, B!MayRun
  <2>2. CASE B!EndBatch(c)
    BY <2>2 DEF B!EndBatch, ListsInv, Turn, B!BlockingAssumption
  <2> QED BY <2>1, <2>2
<1>2. /\ serve' \in Loop /\ serve'.key = None /\ serve'.local = << >>
      /\ (serve'.on => batch' = None)
      /\ (~serve'.on => serve' = B!Off /\ (batch' = None => ready = << >>))
  <2>1. << >> \in Seq(Keys)
    BY EmptySeq
  <2>2. CASE B!BeginBatch(c)
    <3>1. serve' = B!Off /\ batch' # None
      BY <1>1, <2>2 DEF B!BeginBatch, ListsInv, Turn, B!BlockingAssumption
    <3> QED BY <2>1, <3>1 DEF B!Off, Loop
  <2>3. CASE B!EndBatch(c)
    <3>1. CASE ready # << >>
      <4>1. serve' = [on |-> TRUE, local |-> << >>, key |-> None, left |-> 0] /\ batch' = None
        BY <2>3, <3>1 DEF B!EndBatch, B!Off
      <4> QED BY <2>1, <4>1 DEF Loop
    <3>2. CASE ready = << >>
      <4>1. serve' = B!Off
        BY <2>3, <3>2 DEF B!EndBatch
      <4> QED BY <2>1, <3>2, <4>1 DEF B!Off, Loop
    <3> QED BY <3>1, <3>2
  <2> QED BY <2>2, <2>3
<1>3. serve.key = None /\ serve.local = << >>
  BY <1>1 DEF ListsInv, Turn, B!Off
<1>4. ListTypes'
  BY <1>1, <1>2 DEF ListsInv, ListTypes
<1>5. Matched'
  BY <1>1 DEF ListsInv, Matched
<1>6. Turn'
  BY <1>1, <1>2 DEF Turn
<1>7. Queued'
  BY <1>1, <1>2, <1>3 DEF ListsInv, Queued, ToServe
<1>8. InHand'
  <2>1. \A k \in Keys : B!IsList(k)' <=> B!IsList(k)
    BY <1>1 DEF B!IsList
  <2> QED BY <1>1, <1>2, <1>3, <2>1 DEF ListsInv, InHand
<1> QED BY <1>4, <1>5, <1>6, <1>7, <1>8 DEF ListsInv

-----------------------------------------------------------------------------
(* The loops that serve *)

LEMMA TakeReadyStep ==
    ASSUME B!BlockingAssumption, ListsInv, B!TakeReady
    PROVE  ListsInv'
<1>1. /\ UNCHANGED <<db, blocking, readyDict, waiter, batch, pushed, renamed>>
      /\ serve.on /\ serve.local = << >> /\ ready' = << >>
      /\ serve' = IF ready = << >> THEN B!Off ELSE [serve EXCEPT !.local = ready]
  BY DEF B!TakeReady
<1>2. serve.key = None /\ batch = None
  BY <1>1 DEF ListsInv, Turn
<1>3. serve \in Loop /\ ready \in Seq(Keys) /\ << >> \in Seq(Keys)
  BY EmptySeq DEF ListsInv, ListTypes
<1>4. /\ serve' \in Loop /\ serve'.key = None /\ serve'.local = ready
      /\ ~serve'.on => serve' = B!Off
  <2>1. CASE ready = << >>
    BY <1>1, <1>3, <2>1 DEF B!Off, Loop
  <2>2. CASE ready # << >>
    <3>1. serve' = [serve EXCEPT !.local = ready]
      BY <1>1, <2>2
    <3> QED BY <1>1, <1>2, <1>3, <3>1 DEF Loop
  <2> QED BY <2>1, <2>2
<1>5. ListTypes'
  BY <1>1, <1>3, <1>4 DEF ListsInv, ListTypes
<1>6. Matched'
  BY <1>1 DEF ListsInv, Matched
<1>7. Turn'
  BY <1>1, <1>2, <1>4 DEF Turn
<1>8. Queued'
  <2>1. \A q : ~Listed(<< >>, q)
    <3>1. Len(<< >>) = 0
      BY EmptySeq
    <3> QED BY <3>1 DEF Listed
  <2>2. ToServe = << >> /\ ToServe' = ready
    BY <1>1, <1>2, <1>4 DEF ToServe
  <2>3. \A k \in readyDict : Listed(ready, k)
    BY <2>1, <2>2 DEF ListsInv, Queued
  <2> QED BY <1>1, <2>2, <2>3 DEF Queued
<1>9. InHand'
  <2>1. \A k \in Keys : B!IsList(k)' <=> B!IsList(k)
    BY <1>1 DEF B!IsList
  <2> QED BY <1>1, <1>2, <1>4, <2>1 DEF ListsInv, InHand
<1> QED BY <1>5, <1>6, <1>7, <1>8, <1>9 DEF ListsInv

LEMMA NextKeyStep ==
    ASSUME B!BlockingAssumption, ListsInv, B!NextKey
    PROVE  ListsInv'
<1> DEFINE k == Head(serve.local)
<1>1. /\ UNCHANGED <<db, blocking, ready, waiter, batch, pushed, renamed>>
      /\ serve.local # << >> /\ serve.key = None
      /\ readyDict' = readyDict \ {k}
      /\ serve' = IF B!IsList(k) THEN [serve EXCEPT !.key = k, !.left = Len(blocking[k])]
                  ELSE [serve EXCEPT !.local = Tail(serve.local)]
  BY DEF B!NextKey
<1>2. serve.on /\ batch = None
  <2>1. B!Off.local = << >>
    BY DEF B!Off
  <2> QED BY <1>1, <2>1 DEF ListsInv, Turn
<1>3. serve \in Loop /\ serve.local \in Seq(Keys) /\ readyDict \in SUBSET Keys
  BY DEF ListsInv, ListTypes, Loop
<1>4. k \in Keys /\ Tail(serve.local) \in Seq(Keys)
  BY <1>1, <1>3, HeadTailProperties
<1>5. Len(blocking[k]) \in Nat
  BY <1>4, LenProperties DEF ListsInv, ListTypes
<1>6. k # None
  BY <1>4 DEF B!BlockingAssumption
<1>7. \A q \in Keys \ {k} : Listed(Tail(serve.local), q) <=> Listed(serve.local, q)
  BY <1>1, <1>3, HeadTaken
<1> HIDE DEF k
<1>8. /\ serve' \in Loop /\ serve'.on /\ ToServe' = Tail(serve.local)
      /\ serve'.key = IF B!IsList(k) THEN k ELSE None
      /\ B!IsList(k) => serve'.local = serve.local /\ serve'.left = Len(blocking[k])
  <2>1. CASE B!IsList(k)
    <3>1. serve' = [serve EXCEPT !.key = k, !.left = Len(blocking[k])]
      BY <1>1, <2>1
    <3>2. /\ serve' \in Loop /\ serve'.on /\ serve'.key = k /\ serve'.local = serve.local
          /\ serve'.left = Len(blocking[k])
      BY <1>2, <1>3, <1>4, <1>5, <3>1 DEF Loop
    <3> QED BY <1>6, <2>1, <3>2 DEF ToServe
  <2>2. CASE ~B!IsList(k)
    <3>1. serve' = [serve EXCEPT !.local = Tail(serve.local)]
      BY <1>1, <2>2
    <3>2. /\ serve' \in Loop /\ serve'.on /\ serve'.key = None /\ serve'.local = Tail(serve.local)
      BY <1>1, <1>2, <1>3, <1>4, <3>1 DEF Loop
    <3> QED BY <2>2, <3>2 DEF ToServe
  <2> QED BY <2>1, <2>2
<1>9. ListTypes'
  BY <1>1, <1>3, <1>8 DEF ListsInv, ListTypes
<1>10. Matched'
  BY <1>1 DEF ListsInv, Matched
<1>11. Turn'
  <2>1. B!IsList(k) => db[k] # Str
    BY DEF B!IsList
  <2> QED BY <1>1, <1>2, <1>8, <2>1 DEF Turn, k
<1>12. Queued'
  <2> SUFFICES ASSUME NEW q \in readyDict' PROVE Listed(ready', q) \/ Listed(ToServe', q)
    BY DEF Queued
  <2>1. q \in readyDict /\ q \in Keys \ {k}
    BY <1>1, <1>3
  <2>2. Listed(ready, q) \/ Listed(serve.local, q)
    BY <1>1, <2>1 DEF ListsInv, Queued, ToServe
  <2> QED BY <1>1, <1>7, <1>8, <2>1, <2>2
<1>13. InHand'
  <2> SUFFICES ASSUME NEW q \in Keys, q \notin renamed', B!IsList(q)', blocking'[q] # << >>
               PROVE  q \in readyDict' \/ q = serve'.key
    BY DEF InHand
  <2>1. B!IsList(q) /\ q \notin renamed /\ blocking[q] # << >> /\ q # None
    BY <1>1 DEF B!IsList, B!BlockingAssumption
  <2>2. q \in readyDict
    BY <1>1, <2>1 DEF ListsInv, InHand
  <2> QED BY <1>1, <1>8, <2>1, <2>2
<1> QED BY <1>9, <1>10, <1>11, <1>12, <1>13 DEF ListsInv

LEMMA KeyServedStep ==
    ASSUME B!BlockingAssumption, ListsInv, B!KeyServed
    PROVE  ListsInv'
<1>1. /\ UNCHANGED <<db, blocking, readyDict, ready, waiter, batch, pushed, renamed>>
      /\ serve.key # None
      /\ serve.left = 0 \/ db[serve.key] = << >>
      /\ serve' = [serve EXCEPT !.key = None, !.left = 0, !.local = Tail(serve.local)]
  BY DEF B!KeyServed
<1>2. /\ serve \in Loop /\ serve.local \in Seq(Keys) /\ serve.local # << >> /\ serve.on /\ batch = None
      /\ serve.key \in Keys /\ serve.left = Len(blocking[serve.key])
  <2>1. serve.on
    BY <1>1 DEF ListsInv, Turn, B!Off
  <2> QED BY <1>1, <2>1 DEF ListsInv, ListTypes, Turn, Loop
<1>3. Tail(serve.local) \in Seq(Keys)
  BY <1>2, HeadTailProperties
<1>4. serve' \in Loop /\ serve'.on /\ serve'.key = None /\ serve'.local = Tail(serve.local)
  BY <1>1, <1>2, <1>3 DEF Loop
<1>5. ToServe' = ToServe
  BY <1>1, <1>4 DEF ToServe
<1>6. ListTypes'
  BY <1>1, <1>4 DEF ListsInv, ListTypes
<1>7. Matched'
  BY <1>1 DEF ListsInv, Matched
<1>8. Turn'
  BY <1>1, <1>2, <1>4 DEF Turn
<1>9. Queued'
  BY <1>1, <1>5 DEF ListsInv, Queued
<1>10. InHand'
  <2> SUFFICES ASSUME NEW q \in Keys, q \notin renamed', B!IsList(q)', blocking'[q] # << >>
               PROVE  q \in readyDict'
    BY DEF InHand
  <2>1. B!IsList(q) /\ q \notin renamed /\ blocking[q] # << >>
    BY <1>1 DEF B!IsList
  <2>2. q \in readyDict \/ q = serve.key
    BY <2>1 DEF ListsInv, InHand
  <2>3. q # serve.key
    <3>1. blocking[q] \in Seq(Clients)
      BY DEF ListsInv, ListTypes
    <3>2. Len(blocking[q]) # 0
      BY <2>1, <3>1, EmptySeq
    <3> QED BY <1>1, <1>2, <2>1, <3>2 DEF B!IsList
  <2> QED BY <1>1, <2>2, <2>3
<1> QED BY <1>6, <1>7, <1>8, <1>9, <1>10 DEF ListsInv

(* The client that is served is the first of those that wait for the key, *)
LEMMA ServedClient ==
    ASSUME B!BlockingAssumption, ListsInv, serve.key # None, serve.left > 0
    PROVE  /\ serve.key \in Keys /\ Head(blocking[serve.key]) \in Clients
           /\ Listed(blocking[serve.key], Head(blocking[serve.key]))
           /\ db[serve.key] # Str /\ serve.on /\ batch = None
<1>1. /\ serve.key \in Keys /\ serve.left = Len(blocking[serve.key]) /\ db[serve.key] # Str
      /\ serve.on /\ batch = None
  BY DEF ListsInv, ListTypes, Loop, Turn, B!Off
<1>2. blocking[serve.key] \in Seq(Clients)
  BY <1>1 DEF ListsInv, ListTypes
<1>3. blocking[serve.key] # << >>
  <2>1. Len(<< >>) = 0
    BY EmptySeq
  <2> QED BY <1>1, <2>1
<1> QED BY <1>1, <1>2, <1>3, HeadTaken

(* and what serving it does to the lists creates at most one, which is     *)
(* queued.                                                                 *)
LEMMA Served ==
    ASSUME B!BlockingAssumption, ListsInv, NEW c \in Clients, NEW k \in Keys,
           db[k] # Str, db[k] # << >>,
           B!ServePop(c, k) \/ B!ServePush(c, k) \/ B!ServeFailed(c, k)
    PROVE  /\ db' \in [Keys -> Values] /\ db'[k] # Str
           /\ \E dst \in Keys, created \in BOOLEAN :
                 /\ B!SignalReady(dst, created)
                 /\ \A q \in Keys : B!IsList(q)' => B!IsList(q) \/ (q = dst /\ created)
<1>1. db \in [Keys -> Values] /\ waiter[c].target \in Keys \cup {None}
  BY DEF ListsInv, ListTypes, Waiter
<1>2. B!IsList(k)
  BY DEF B!IsList
<1>3. CASE B!ServePop(c, k)
  <2>1. db' = B!Pop(db, k, waiter[c].end) /\ UNCHANGED <<readyDict, ready>>
    BY <1>3 DEF B!ServePop
  <2>2. db' \in [Keys -> Values] /\ db'[k] # Str /\ \A q \in Keys \ {k} : db'[q] = db[q]
    BY <1>1, <2>1, PoppedAt
  <2>3. \A q \in Keys : B!IsList(q)' => B!IsList(q)
    BY <1>2, <2>2 DEF B!IsList
  <2>4. B!SignalReady(k, FALSE)
    BY <2>1 DEF B!SignalReady
  <2> QED BY <2>2, <2>3, <2>4
<1>4. CASE B!ServePush(c, k)
  <2> DEFINE dst == waiter[c].target
             d == B!Pop(db, k, "tail")
             e == B!Last(db[k])
             n == B!Push(d, dst, e, "head")
             created == db[dst] = << >> /\ dst # k
  <2>1. dst \in Keys /\ db[dst] # Str /\ db' = n /\ B!SignalReady(dst, created)
    BY <1>1, <1>4 DEF B!ServePush
  <2>2. created \in BOOLEAN
    OBVIOUS
  <2>3. d \in [Keys -> Values] /\ d[dst] # Str /\ d[k] # Str /\ e \in Items
        /\ \A q \in Keys \ {k} : d[q] = db[q]
    BY <1>1, <2>1, PoppedAt
  <2> HIDE DEF dst, d, e
  <2>4. n \in [Keys -> Values] /\ n[dst] # Str /\ \A q \in Keys \ {dst} : n[q] = d[q]
    BY <2>1, <2>3, PushedAt
  <2>5. db' = n
    BY <2>1
  <2> HIDE DEF n
  <2>6. \A q \in Keys : B!IsList(q)' => B!IsList(q) \/ (q = dst /\ created)
    BY <1>2, <2>1, <2>3, <2>4, <2>5 DEF B!IsList
  <2>7. db' \in [Keys -> Values] /\ db'[k] # Str
    BY <2>3, <2>4, <2>5
  <2> HIDE DEF created
  <2> QED BY <2>1, <2>2, <2>6, <2>7
<1>5. CASE B!ServeFailed(c, k)
  <2>1. UNCHANGED <<db, readyDict, ready>>
    BY <1>5 DEF B!ServeFailed
  <2>2. B!SignalReady(k, FALSE) /\ \A q \in Keys : B!IsList(q)' => B!IsList(q)
    BY <2>1 DEF B!SignalReady, B!IsList
  <2> QED BY <1>1, <2>1, <2>2
<1> QED BY <1>3, <1>4, <1>5

LEMMA ServeClientStep ==
    ASSUME B!BlockingAssumption, ListsInv, B!ServeClient
    PROVE  ListsInv'
<1> DEFINE k == serve.key
           c == Head(blocking[k])
<1>1. /\ k # None /\ serve.left > 0 /\ db[k] # << >> /\ B!Unblock(c)
      /\ B!ServePop(c, k) \/ B!ServePush(c, k) \/ B!ServeFailed(c, k)
      /\ serve' = [serve EXCEPT !.left = serve.left - 1]
      /\ B!KeepRenamed /\ UNCHANGED <<batch, pushed>>
  BY DEF B!ServeClient
<1>2. /\ k \in Keys /\ c \in Clients /\ Listed(blocking[k], c) /\ db[k] # Str /\ serve.on
      /\ batch = None
  BY <1>1, ServedClient
<1>3. /\ serve \in Loop /\ serve.local # << >> /\ Head(serve.local) = k /\ serve.left = Len(blocking[k])
      /\ ready \in Seq(Keys) /\ readyDict \in SUBSET Keys
  BY <1>1 DEF ListsInv, ListTypes, Turn
<1> HIDE DEF c
<1>4. /\ blocking' \in [Keys -> Seq(Clients)] /\ waiter' \in [Clients -> Waiter] /\ Matched'
      /\ \A q \in Keys : blocking'[q] # << >> => blocking[q] # << >>
  <2>1. B!Unblock(c)
    BY <1>1
  <2> HIDE DEF k
  <2> QED BY <1>2, <2>1, Unblocked
<1>5. Len(blocking'[k]) = Len(blocking[k]) - 1
  <2>1. B!Unblock(c)
    BY <1>1
  <2>2. \A q \in Keys : Listed(blocking[q], c) => Len(blocking'[q]) = Len(blocking[q]) - 1
    BY <1>2, <2>1, Unblocked
  <2> QED BY <1>2, <2>2
<1>6. db' \in [Keys -> Values] /\ db'[k] # Str
  <2> HIDE DEF k
  <2> QED BY <1>1, <1>2, Served
<1>7. PICK dst \in Keys, created \in BOOLEAN :
          /\ B!SignalReady(dst, created)
          /\ \A q \in Keys : B!IsList(q)' => B!IsList(q) \/ (q = dst /\ created)
  <2> HIDE DEF k
  <2> QED BY <1>1, <1>2, Served
<1>8. /\ serve' \in Loop /\ serve'.on /\ serve'.key = k /\ serve'.local = serve.local
      /\ serve'.left = Len(blocking'[k])
  <2>1. serve.left \in Nat /\ serve.left - 1 \in Nat
    BY <1>1, <1>3 DEF Loop
  <2>2. /\ serve' \in Loop /\ serve'.on /\ serve'.key = k /\ serve'.local = serve.local
        /\ serve'.left = serve.left - 1
    BY <1>1, <1>2, <1>3, <2>1 DEF Loop
  <2> QED BY <1>3, <1>5, <2>2
<1>9. ToServe' = ToServe /\ ToServe = Tail(serve.local)
  BY <1>1, <1>8 DEF ToServe
<1>10. /\ ready' \in Seq(Keys) /\ readyDict' \in SUBSET Keys /\ readyDict \subseteq readyDict'
       /\ created /\ blocking[dst] # << >> => dst \in readyDict'
       /\ \A q \in readyDict' : Listed(ready', q) \/ Listed(ToServe, q)
  <2>1. \A q \in readyDict : Listed(ready, q) \/ Listed(ToServe, q)
    BY DEF ListsInv, Queued
  <2>2. CASE created /\ blocking[dst] # << >> /\ dst \notin readyDict
    <3>1. readyDict' = readyDict \cup {dst} /\ ready' = Append(ready, dst)
      BY <1>7, <2>2 DEF B!SignalReady
    <3>2. /\ Append(ready, dst) \in Seq(Keys) /\ Listed(Append(ready, dst), dst)
          /\ \A q \in Keys \ {dst} : Listed(Append(ready, dst), q) <=> Listed(ready, q)
      BY <1>3, LastAdded
    <3> QED BY <1>3, <2>1, <2>2, <3>1, <3>2
  <2>3. CASE ~(created /\ blocking[dst] # << >> /\ dst \notin readyDict)
    <3>1. readyDict' = readyDict /\ ready' = ready
      BY <1>7, <2>3 DEF B!SignalReady
    <3> QED BY <1>3, <2>1, <2>3, <3>1
  <2> QED BY <2>2, <2>3
<1>11. ListTypes'
  BY <1>1, <1>4, <1>6, <1>8, <1>10 DEF ListsInv, ListTypes
<1>12. Turn'
  BY <1>1, <1>2, <1>3, <1>6, <1>8 DEF Turn
<1>13. Queued'
  BY <1>9, <1>10 DEF Queued
<1>14. InHand'
  <2> SUFFICES ASSUME NEW q \in Keys, q \notin renamed', B!IsList(q)', blocking'[q] # << >>
               PROVE  q \in readyDict' \/ q = serve'.key
    BY DEF InHand
  <2>1. blocking[q] # << >> /\ q \notin renamed
    BY <1>1, <1>4 DEF B!KeepRenamed, B!IsList
  <2>2. CASE B!IsList(q)
    BY <1>8, <1>10, <2>1, <2>2 DEF ListsInv, InHand
  <2>3. CASE q = dst /\ created
    BY <1>10, <2>1, <2>3
  <2> QED BY <1>7, <2>2, <2>3
<1> QED BY <1>4, <1>11, <1>12, <1>13, <1>14 DEF ListsInv

-----------------------------------------------------------------------------
LEMMA ListsInit == ASSUME B!BlockingAssumption, B!Init PROVE ListsInv
<1>1. << >> \in Seq(Clients) /\ << >> \in Seq(Keys) /\ << >> \in Values
  BY EmptySeq DEF Values
<1>2. serve = [on |-> FALSE, local |-> << >>, key |-> None, left |-> 0] /\ serve = B!Off
  BY DEF B!Init, B!Off
<1>3. ListTypes
  <2>1. B!NotBlocked \in Waiter
    BY DEF B!NotBlocked, Waiter, B!Ends
  <2>2. serve \in Loop
    BY <1>1, <1>2 DEF Loop
  <2>3. 0 \in 0..MaxPush
    BY DEF B!BlockingAssumption
  <2> QED BY <1>1, <2>1, <2>2, <2>3 DEF B!Init, ListTypes
<1>4. Matched
  <2>1. \A c \in Clients : waiter[c].keys = {}
    BY DEF B!Init, B!NotBlocked
  <2>2. Len(<< >>) = 0 /\ \A k \in Keys : blocking[k] = << >>
    BY EmptySeq DEF B!Init
  <2> SUFFICES ASSUME NEW k \in Keys, NEW c \in Clients
               PROVE  (Listed(blocking[k], c) <=> k \in waiter[c].keys) /\ Lone(blocking[k], c)
    BY DEF Matched
  <2>3. \A i : i \notin 1..Len(blocking[k])
    BY <2>2
  <2> QED BY <2>1, <2>3 DEF Listed, Lone
<1>5. Turn
  <2>1. ready = << >> /\ batch = None
    BY DEF B!Init
  <2> QED BY <1>2, <2>1 DEF Turn
<1>6. Queued
  BY DEF B!Init, Queued
<1>7. InHand
  BY DEF B!Init, InHand, B!IsList
<1> QED BY <1>3, <1>4, <1>5, <1>6, <1>7 DEF ListsInv

LEMMA ListsStep == ASSUME B!BlockingAssumption, ListsInv, [B!Next]_B!vars PROVE ListsInv'
<1>1. CASE UNCHANGED B!vars
  BY <1>1 DEF B!vars, ListsInv, ListTypes, Matched, Turn, Queued, ToServe, InHand, B!IsList
<1>2. ASSUME NEW c \in Clients, NEW k \in Keys, NEW end \in B!Ends, B!PushCommand(c, k, end)
      PROVE  ListsInv'
  BY <1>2, PushStep
<1>3. ASSUME NEW c \in Clients, NEW k \in Keys, NEW dst \in Keys, B!Brpoplpush(c, k, dst)
      PROVE  ListsInv'
  BY <1>3, BrpoplpushStep
<1>4. ASSUME NEW c \in Clients, NEW k \in Keys, NEW dst \in Keys, B!Rename(c, k, dst)
      PROVE  ListsInv'
  BY <1>4, RenameStep
<1>5. ASSUME NEW c \in Clients, NEW k \in Keys, NEW v \in {<< >>, Str}, B!Overwrite(c, k, v)
      PROVE  ListsInv'
  BY <1>5, OverwriteStep
<1>6. ASSUME NEW c \in Clients, NEW ks \in Waits, NEW end \in B!Ends, B!BlockingPop(c, ks, end)
      PROVE  ListsInv'
  BY <1>6, BlockingPopStep
<1>7. ASSUME NEW c \in Clients, B!BeginBatch(c) \/ B!EndBatch(c) PROVE ListsInv'
  BY <1>7, BatchStep
<1>8. ASSUME NEW c \in Clients, B!GiveUp(c) PROVE ListsInv'
  BY <1>8, GiveUpStep
<1>9. CASE B!Serving
  BY <1>9, TakeReadyStep, NextKeyStep, ServeClientStep, KeyServedStep DEF B!Serving
<1> QED BY <1>1, <1>2, <1>3, <1>4, <1>5, <1>6, <1>7, <1>8, <1>9 DEF B!Next

(* BlockingLists: for any clients, keys and elements, the lists of waiting *)
(* clients and what clients wait for agree, and when the server is done    *)
(* with a command nobody waits on a key that has elements, a RENAME apart. *)
THEOREM NobodyIsStarved == B!Spec => []NoneStarved
<1>1. ListsInv => NoneStarved
  <2> SUFFICES ASSUME ListsInv PROVE NoneStarved
    OBVIOUS
  <2>1. B!BlockedMatch
    <3> SUFFICES ASSUME NEW k \in Keys
                 PROVE  /\ B!ToSet(blocking[k]) = {c \in Clients : k \in waiter[c].keys}
                        /\ B!IsInjective(blocking[k])
      BY DEF B!BlockedMatch
    <3>1. blocking[k] \in Seq(Clients)
      BY DEF ListsInv, ListTypes
    <3>2. DOMAIN blocking[k] = 1..Len(blocking[k])
          /\ \A i \in 1..Len(blocking[k]) : blocking[k][i] \in Clients
      BY <3>1, LenProperties, ElementOfSeq
    <3>3. \A c \in Clients : (Listed(blocking[k], c) <=> k \in waiter[c].keys) /\ Lone(blocking[k], c)
      BY DEF ListsInv, Matched
    <3>4. B!IsInjective(blocking[k])
      BY <3>2, <3>3 DEF B!IsInjective, Lone
    <3> QED BY <3>2, <3>3, <3>4 DEF B!ToSet, Listed
  <2>2. B!NoneStarved
    <3> SUFFICES ASSUME B!Quiet, NEW k \in Keys \ renamed, B!IsList(k) PROVE blocking[k] = << >>
      BY DEF B!NoneStarved
    <3>1. serve = B!Off /\ ready = << >>
      BY DEF B!Quiet, ListsInv, Turn
    <3>2. serve.key = None /\ ToServe = << >>
      BY <3>1 DEF ToServe, B!Off
    <3>3. \A q : ~Listed(<< >>, q)
      <4>1. Len(<< >>) = 0
        BY EmptySeq
      <4> QED BY <4>1 DEF Listed
    <3>4. readyDict = {}
      BY <3>1, <3>2, <3>3 DEF ListsInv, Queued
    <3>5. k # None
      BY ListsAssumption DEF B!BlockingAssumption
    <3> QED BY <3>2, <3>4, <3>5 DEF ListsInv, InHand
  <2> QED BY <2>1, <2>2 DEF NoneStarved
<1> QED BY <1>1, ListsAssumption, ListsInit, ListsStep, PTL DEF B!Spec

-----------------------------------------------------------------------------
(* Where the elements are. Once(d, E): the lists of d hold exactly the     *)
(* elements of E, each at one place.                                       *)

Sits(d, k, i, e) == d[k] # Str /\ i \in 1..Len(d[k]) /\ d[k][i] = e

Once(d, E) ==
    /\ \A e : e \in E <=> \E k \in Keys, i \in Nat : Sits(d, k, i, e)
    /\ \A e : \A j, k \in Keys, h, i \in Nat : Sits(d, j, h, e) /\ Sits(d, k, i, e) => j = k /\ h = i

(* The list r is s with an entry more, at place p. *)
Entry(s, r, p) ==
    /\ s \in Seq(Items) /\ r \in Seq(Items)
    /\ Len(r) = Len(s) + 1 /\ p \in 1..Len(r)
    /\ \A i \in 1..Len(s) : s[i] = r[IF i < p THEN i ELSE i + 1]

(* The places in the longer list *)
LEMMA EntryPlaces ==
    ASSUME NEW d, NEW r, NEW k \in Keys, d[k] # Str, r[k] # Str, \A q \in Keys \ {k} : r[q] = d[q],
           NEW p, Entry(d[k], r[k], p)
    PROVE  LET up(i) == IF i < p THEN i ELSE i + 1 IN
           /\ Sits(r, k, p, r[k][p]) /\ p \in Nat
           /\ \A e : \A i \in Nat : Sits(d, k, i, e) => up(i) \in Nat /\ up(i) # p /\ Sits(r, k, up(i), e)
           /\ \A e : \A j \in Nat : Sits(r, k, j, e) =>
                  (j = p /\ e = r[k][p]) \/ \E i \in Nat : j = up(i) /\ Sits(d, k, i, e)
           /\ \A h, i \in Nat : up(h) = up(i) => h = i
           /\ \A q \in Keys \ {k} : \A i, e : Sits(r, q, i, e) <=> Sits(d, q, i, e)
<1> DEFINE up(i) == IF i < p THEN i ELSE i + 1
<1>1. Len(d[k]) \in Nat /\ Len(r[k]) = Len(d[k]) + 1 /\ p \in 1..Len(r[k]) /\ p \in Nat
  BY LenProperties DEF Entry
<1>2. \A i \in 1..Len(d[k]) : up(i) \in 1..Len(r[k]) /\ up(i) # p
  BY <1>1
<1>3. \A i \in 1..Len(d[k]) : d[k][i] = r[k][up(i)]
  BY DEF Entry
<1>4. \A j \in 1..Len(r[k]) : j # p => \E i \in 1..Len(d[k]) : j = up(i)
  <2> SUFFICES ASSUME NEW j \in 1..Len(r[k]), j # p PROVE \E i \in 1..Len(d[k]) : j = up(i)
    OBVIOUS
  <2>1. CASE j < p
    <3>1. j \in 1..Len(d[k]) /\ j = up(j)
      BY <1>1, <2>1
    <3> QED BY <3>1
  <2>2. CASE ~(j < p)
    <3>1. j - 1 \in 1..Len(d[k]) /\ j = up(j - 1)
      BY <1>1, <2>2
    <3> QED BY <3>1
  <2> QED BY <2>1, <2>2
<1>5. \A h, i \in Nat : up(h) = up(i) => h = i
  BY <1>1
<1>6. 1..Len(d[k]) \subseteq Nat /\ 1..Len(r[k]) \subseteq Nat
  OBVIOUS
<1> HIDE DEF up
<1>7. \A e : \A i \in Nat : Sits(d, k, i, e) => up(i) \in Nat /\ up(i) # p /\ Sits(r, k, up(i), e)
  BY <1>2, <1>3, <1>6 DEF Sits
<1>8. \A e : \A j \in Nat : Sits(r, k, j, e) =>
         (j = p /\ e = r[k][p]) \/ \E i \in Nat : j = up(i) /\ Sits(d, k, i, e)
  BY <1>3, <1>4, <1>6 DEF Sits
<1>9. \A q \in Keys \ {k} : \A i, e : Sits(r, q, i, e) <=> Sits(d, q, i, e)
  BY DEF Sits
<1>10. Sits(r, k, p, r[k][p])
  BY <1>1 DEF Sits
<1> QED BY <1>1, <1>5, <1>7, <1>8, <1>9, <1>10 DEF up

(* An element put somewhere *)
LEMMA EntryAdded ==
    ASSUME NEW d, NEW r, NEW k \in Keys, d[k] # Str, r[k] # Str, \A q \in Keys \ {k} : r[q] = d[q],
           NEW p, Entry(d[k], r[k], p), NEW E, Once(d, E), r[k][p] \notin E
    PROVE  Once(r, E \cup {r[k][p]})
<1> DEFINE up(i) == IF i < p THEN i ELSE i + 1
           x == r[k][p]
<1>1. /\ Sits(r, k, p, x) /\ p \in Nat
      /\ \A e : \A i \in Nat : Sits(d, k, i, e) => up(i) \in Nat /\ up(i) # p /\ Sits(r, k, up(i), e)
      /\ \A e : \A j \in Nat : Sits(r, k, j, e) =>
             (j = p /\ e = x) \/ \E i \in Nat : j = up(i) /\ Sits(d, k, i, e)
      /\ \A q \in Keys \ {k} : \A i, e : Sits(r, q, i, e) <=> Sits(d, q, i, e)
  BY EntryPlaces
<1> HIDE DEF up, x
<1>2. /\ \A e : e \in E <=> \E q \in Keys, i \in Nat : Sits(d, q, i, e)
      /\ \A e : \A j, q \in Keys, h, i \in Nat : Sits(d, j, h, e) /\ Sits(d, q, i, e) => j = q /\ h = i
      /\ x \notin E
  BY DEF Once, x
<1>3. \A e : \A q \in Keys, j \in Nat : Sits(r, q, j, e) => e \in E \/ (e = x /\ q = k /\ j = p)
  BY <1>1, <1>2
<1>4. ASSUME NEW e \in E PROVE \E q \in Keys, i \in Nat : Sits(r, q, i, e)
  <2>1. PICK q \in Keys, i \in Nat : Sits(d, q, i, e)
    BY <1>2
  <2>2. CASE q = k
    BY <1>1, <2>1, <2>2
  <2>3. CASE q # k
    BY <1>1, <2>1, <2>3
  <2> QED BY <2>2, <2>3
<1>5. ASSUME NEW e, NEW j \in Keys, NEW q \in Keys, NEW h \in Nat, NEW i \in Nat,
             Sits(r, j, h, e), Sits(r, q, i, e)
      PROVE  j = q /\ h = i
  <2>1. CASE e = x
    <3>1. e \notin E
      BY <1>2, <2>1
    <3>2. j = k /\ h = p
      BY <1>3, <1>5, <3>1
    <3>3. q = k /\ i = p
      BY <1>3, <1>5, <3>1
    <3> QED BY <3>2, <3>3
  <2>2. CASE e # x
    <3>1. j = k => \E a \in Nat : h = up(a) /\ Sits(d, j, a, e)
      BY <1>1, <1>5, <2>2
    <3>2. q = k => \E a \in Nat : i = up(a) /\ Sits(d, q, a, e)
      BY <1>1, <1>5, <2>2
    <3>3. j # k => Sits(d, j, h, e)
      BY <1>1, <1>5
    <3>4. q # k => Sits(d, q, i, e)
      BY <1>1, <1>5
    <3> QED BY <1>2, <3>1, <3>2, <3>3, <3>4
  <2> QED BY <2>1, <2>2
<1>6. \A e : e \in E \cup {x} <=> \E q \in Keys, i \in Nat : Sits(r, q, i, e)
  <2>1. \E q \in Keys, i \in Nat : Sits(r, q, i, x)
    BY <1>1
  <2>2. ASSUME NEW e, NEW q \in Keys, NEW i \in Nat, Sits(r, q, i, e) PROVE e \in E \cup {x}
    BY <1>3, <2>2
  <2> QED BY <1>4, <2>1, <2>2
<1>7. Once(r, E \cup {x})
  BY <1>5, <1>6 DEF Once
<1> QED BY <1>7 DEF x

(* An element taken away *)
LEMMA EntryTaken ==
    ASSUME NEW d, NEW r, NEW k \in Keys, d[k] # Str, r[k] # Str, \A q \in Keys \ {k} : r[q] = d[q],
           NEW p, Entry(d[k], r[k], p), NEW E, Once(r, E)
    PROVE  r[k][p] \in E /\ Once(d, E \ {r[k][p]})
<1> DEFINE up(i) == IF i < p THEN i ELSE i + 1
           x == r[k][p]
<1>1. /\ Sits(r, k, p, x) /\ p \in Nat
      /\ \A e : \A i \in Nat : Sits(d, k, i, e) => up(i) \in Nat /\ up(i) # p /\ Sits(r, k, up(i), e)
      /\ \A e : \A j \in Nat : Sits(r, k, j, e) =>
             (j = p /\ e = x) \/ \E i \in Nat : j = up(i) /\ Sits(d, k, i, e)
      /\ \A h, i \in Nat : up(h) = up(i) => h = i
      /\ \A q \in Keys \ {k} : \A i, e : Sits(r, q, i, e) <=> Sits(d, q, i, e)
  BY EntryPlaces
<1> HIDE DEF up, x
<1>2. /\ \A e : e \in E <=> \E q \in Keys, i \in Nat : Sits(r, q, i, e)
      /\ \A e : \A j, q \in Keys, h, i \in Nat : Sits(r, j, h, e) /\ Sits(r, q, i, e) => j = q /\ h = i
  BY DEF Once
<1>3. x \in E
  BY <1>1, <1>2
<1>4. ASSUME NEW e, NEW q \in Keys, NEW i \in Nat, Sits(d, q, i, e) PROVE e \in E \ {x}
  <2>1. CASE q = k
    <3>1. Sits(r, k, up(i), e) /\ up(i) \in Nat /\ up(i) # p
      BY <1>1, <1>4, <2>1
    <3> QED BY <1>1, <1>2, <3>1
  <2>2. CASE q # k
    <3>1. Sits(r, q, i, e)
      BY <1>1, <1>4, <2>2
    <3> QED BY <1>1, <1>2, <2>2, <3>1
  <2> QED BY <2>1, <2>2
<1>5. ASSUME NEW e \in E \ {x} PROVE \E q \in Keys, i \in Nat : Sits(d, q, i, e)
  <2>1. PICK q \in Keys, i \in Nat : Sits(r, q, i, e)
    BY <1>2
  <2>2. CASE q = k
    BY <1>1, <2>1, <2>2
  <2>3. CASE q # k
    BY <1>1, <2>1, <2>3
  <2> QED BY <2>2, <2>3
<1>6. ASSUME NEW e, NEW j \in Keys, NEW q \in Keys, NEW h \in Nat, NEW i \in Nat,
             Sits(d, j, h, e), Sits(d, q, i, e)
      PROVE  j = q /\ h = i
  <2>1. j = k => Sits(r, j, up(h), e) /\ up(h) \in Nat
    BY <1>1, <1>6
  <2>2. q = k => Sits(r, q, up(i), e) /\ up(i) \in Nat
    BY <1>1, <1>6
  <2>3. j # k => Sits(r, j, h, e)
    BY <1>1, <1>6
  <2>4. q # k => Sits(r, q, i, e)
    BY <1>1, <1>6
  <2>5. j = q
    BY <1>2, <2>1, <2>2, <2>3, <2>4
  <2>6. CASE j = k
    <3>1. up(h) = up(i)
      BY <1>2, <2>1, <2>2, <2>5, <2>6
    <3> QED BY <1>1, <2>5, <3>1
  <2>7. CASE j # k
    BY <1>2, <2>3, <2>4, <2>5, <2>7
  <2> QED BY <2>5, <2>6, <2>7
<1>7. Once(d, E \ {x})
  BY <1>4, <1>5, <1>6 DEF Once
<1> QED BY <1>3, <1>7 DEF x

LEMMA PushedOnce ==
    ASSUME B!BlockingAssumption, NEW d \in [Keys -> Values], NEW k \in Keys, d[k] # Str,
           NEW e \in Items, NEW end, NEW E, Once(d, E), e \notin E
    PROVE  Once(B!Push(d, k, e, end), E \cup {e})
<1> DEFINE r == B!Push(d, k, e, end)
           p == IF end = "head" THEN 1 ELSE Len(d[k]) + 1
<1>1. d[k] \in Seq(Items) /\ Len(d[k]) \in Nat
  BY LenProperties DEF Values
<1>2. r \in [Keys -> Values] /\ r[k] # Str /\ \A q \in Keys \ {k} : r[q] = d[q]
  BY PushedAt
<1>3. r[k] = IF end = "head" THEN <<e>> \o d[k] ELSE Append(d[k], e)
  BY DEF B!Push
<1>4. Entry(d[k], r[k], p) /\ r[k][p] = e
  <2>1. CASE end = "head"
    <3>1. r[k] = <<e>> \o d[k] /\ p = 1
      BY <1>3, <2>1
    <3>2. /\ <<e>> \o d[k] \in Seq(Items) /\ Len(<<e>> \o d[k]) = Len(d[k]) + 1
          /\ (<<e>> \o d[k])[1] = e
          /\ \A i \in 1..Len(d[k]) : (<<e>> \o d[k])[i + 1] = d[k][i]
      BY <1>1
    <3> HIDE DEF r, p
    <3> QED BY <1>1, <3>1, <3>2 DEF Entry
  <2>2. CASE end # "head"
    <3>1. r[k] = Append(d[k], e) /\ p = Len(d[k]) + 1
      BY <1>3, <2>2
    <3>2. /\ Append(d[k], e) \in Seq(Items) /\ Len(Append(d[k], e)) = Len(d[k]) + 1
          /\ Append(d[k], e)[Len(d[k]) + 1] = e
          /\ \A i \in 1..Len(d[k]) : Append(d[k], e)[i] = d[k][i]
      BY <1>1, AppendProperties
    <3> HIDE DEF r, p
    <3> QED BY <1>1, <3>1, <3>2 DEF Entry
  <2> QED BY <2>1, <2>2
<1> HIDE DEF r, p
<1>5. Once(r, E \cup {r[k][p]})
  BY <1>2, <1>4, EntryAdded
<1> QED BY <1>4, <1>5 DEF r

LEMMA PoppedOnce ==
    ASSUME B!BlockingAssumption, NEW d \in [Keys -> Values], NEW k \in Keys, d[k] # Str, d[k] # << >>,
           NEW end, NEW E, Once(d, E)
    PROVE  LET e == IF end = "head" THEN Head(d[k]) ELSE B!Last(d[k]) IN
           e \in E /\ Once(B!Pop(d, k, end), E \ {e})
<1> DEFINE e == IF end = "head" THEN Head(d[k]) ELSE B!Last(d[k])
           r == B!Pop(d, k, end)
           p == IF end = "head" THEN 1 ELSE Len(d[k])
<1>1. d[k] \in Seq(Items) /\ Len(d[k]) \in Nat \ {0}
  BY EmptySeq, LenProperties DEF Values
<1>2. r \in [Keys -> Values] /\ r[k] # Str /\ \A q \in Keys \ {k} : r[q] = d[q]
  BY PoppedAt
<1>3. r[k] = IF end = "head" THEN Tail(d[k]) ELSE B!Front(d[k])
  BY DEF B!Pop
<1>4. Entry(r[k], d[k], p) /\ d[k][p] = e
  <2>1. CASE end = "head"
    <3>1. r[k] = Tail(d[k]) /\ p = 1 /\ e = Head(d[k])
      BY <1>3, <2>1
    <3>2. /\ Tail(d[k]) \in Seq(Items) /\ Len(Tail(d[k])) = Len(d[k]) - 1 /\ Head(d[k]) = d[k][1]
          /\ \A i \in 1..Len(Tail(d[k])) : Tail(d[k])[i] = d[k][i + 1]
      BY <1>1, HeadTailProperties
    <3> HIDE DEF r, p, e
    <3> QED BY <1>1, <3>1, <3>2 DEF Entry
  <2>2. CASE end # "head"
    <3> DEFINE n == Len(d[k]) - 1
               f == SubSeq(d[k], 1, n)
    <3>1. r[k] = f /\ p = Len(d[k]) /\ e = d[k][Len(d[k])]
      BY <1>3, <2>2 DEF B!Front, B!Last
    <3>2. \A i \in 1..n : d[k][i] \in Items
      BY <1>1, ElementOfSeq
    <3>3. f \in Seq(Items) /\ Len(f) = n /\ \A i \in 1..n : f[i] = d[k][i]
        <4>1. n \in Nat /\ 1..n \subseteq 1..Len(d[k]) /\ 1 \in Nat
        BY <1>1
      <4> HIDE DEF n
      <4>2. f \in Seq(Items) /\ Len(f) = IF 1 <= n THEN n - 1 + 1 ELSE 0
        BY <1>1, <3>2, <4>1, SubSeqProperties
      <4>3. \A i \in 1..n : f[i] = d[k][1 + i - 1]
        BY <1>1, <3>2, <4>1, SubSeqProperties
      <4> QED BY <4>1, <4>2, <4>3
    <3> HIDE DEF r, p, e, f
    <3> QED BY <1>1, <3>1, <3>3 DEF Entry
  <2> QED BY <2>1, <2>2
<1> HIDE DEF r, p, e
<1>5. d[k][p] \in E /\ Once(r, E \ {d[k][p]})
  BY <1>2, <1>4, EntryTaken
<1> QED BY <1>4, <1>5 DEF r, e

(* What a key held is gone with it. *)
LEMMA ClearedOnce ==
    ASSUME NEW d, NEW r, NEW k \in Keys, r[k] \in {<< >>, Str}, \A q \in Keys \ {k} : r[q] = d[q],
           NEW E, Once(d, E)
    PROVE  Once(r, E \ {e \in E : \E i \in Nat : Sits(d, k, i, e)})
<1>1. \A i, e : ~Sits(r, k, i, e)
  <2>1. Len(<< >>) = 0
    BY EmptySeq
  <2> QED BY <2>1 DEF Sits
<1>2. \A q \in Keys \ {k} : \A i, e : Sits(r, q, i, e) <=> Sits(d, q, i, e)
  BY DEF Sits
<1>3. /\ \A e : e \in E <=> \E q \in Keys, i \in Nat : Sits(d, q, i, e)
      /\ \A e : \A j, q \in Keys, h, i \in Nat : Sits(d, j, h, e) /\ Sits(d, q, i, e) => j = q /\ h = i
  BY DEF Once
<1> DEFINE F == E \ {e \in E : \E i \in Nat : Sits(d, k, i, e)}
<1>4. ASSUME NEW e \in F PROVE \E q \in Keys, i \in Nat : Sits(r, q, i, e)
  BY <1>2, <1>3
<1>5. ASSUME NEW e, NEW q \in Keys, NEW i \in Nat, Sits(r, q, i, e) PROVE e \in F
  <2>1. q # k /\ Sits(d, q, i, e)
    BY <1>1, <1>2, <1>5
  <2>2. e \in E /\ \A h \in Nat : ~Sits(d, k, h, e)
    BY <1>3, <2>1
  <2> QED BY <2>2
<1> HIDE DEF F
<1>6. ASSUME NEW e, NEW j \in Keys, NEW q \in Keys, NEW h \in Nat, NEW i \in Nat,
             Sits(r, j, h, e), Sits(r, q, i, e)
      PROVE  j = q /\ h = i
  <2>1. j # k /\ q # k
    BY <1>1, <1>6
  <2> QED BY <1>2, <1>3, <1>6, <2>1
<1>7. Once(r, F)
  BY <1>4, <1>5, <1>6 DEF Once
<1> QED BY <1>7 DEF F

Moved(d, r, src, dst) ==
    /\ src # dst /\ r[src] = << >> /\ r[dst] = d[src]
    /\ \A q \in Keys \ {src, dst} : r[q] = d[q]

LEMMA RenamedOnce ==
    ASSUME NEW d, NEW r, NEW src \in Keys, NEW dst \in Keys, Moved(d, r, src, dst), NEW E, Once(d, E)
    PROVE  Once(r, E \ {e \in E : \E i \in Nat : Sits(d, dst, i, e)})
<1>1. \A i, e : ~Sits(r, src, i, e)
  <2>1. Len(<< >>) = 0
    BY EmptySeq
  <2> QED BY <2>1 DEF Sits, Moved
<1> DEFINE was(q) == IF q = dst THEN src ELSE q
<1>2. \A q \in Keys \ {src} : \A i, e : Sits(r, q, i, e) <=> Sits(d, was(q), i, e)
  BY DEF Sits, Moved
<1>3. \A q \in Keys \ {src} : was(q) \in Keys \ {dst}
  BY DEF Moved
<1>4. \A j, q \in Keys \ {src} : was(j) = was(q) => j = q
  BY DEF Moved
<1>5. \A q \in Keys \ {dst} : \E j \in Keys \ {src} : was(j) = q
  BY DEF Moved
<1> HIDE DEF was
<1>6. /\ \A e : e \in E <=> \E q \in Keys, i \in Nat : Sits(d, q, i, e)
      /\ \A e : \A j, q \in Keys, h, i \in Nat : Sits(d, j, h, e) /\ Sits(d, q, i, e) => j = q /\ h = i
  BY DEF Once
<1> DEFINE F == E \ {e \in E : \E i \in Nat : Sits(d, dst, i, e)}
<1>7. ASSUME NEW e \in F PROVE \E q \in Keys, i \in Nat : Sits(r, q, i, e)
  <2>1. PICK q \in Keys, i \in Nat : Sits(d, q, i, e)
    BY <1>6
  <2>2. q # dst
    BY <2>1
  <2>3. PICK j \in Keys \ {src} : was(j) = q
    BY <1>5, <2>2
  <2> QED BY <1>2, <2>1, <2>3
<1>8. ASSUME NEW e, NEW q \in Keys, NEW i \in Nat, Sits(r, q, i, e) PROVE e \in F
  <2>1. q # src
    BY <1>1, <1>8
  <2>2. was(q) \in Keys \ {dst} /\ Sits(d, was(q), i, e)
    BY <1>2, <1>3, <1>8, <2>1
  <2>3. e \in E /\ \A h \in Nat : ~Sits(d, dst, h, e)
    BY <1>6, <2>2
  <2> QED BY <2>3
<1> HIDE DEF F
<1>9. ASSUME NEW e, NEW j \in Keys, NEW q \in Keys, NEW h \in Nat, NEW i \in Nat,
             Sits(r, j, h, e), Sits(r, q, i, e)
      PROVE  j = q /\ h = i
  <2>1. j # src /\ q # src
    BY <1>1, <1>9
  <2>2. Sits(d, was(j), h, e) /\ Sits(d, was(q), i, e) /\ was(j) \in Keys /\ was(q) \in Keys
    BY <1>2, <1>3, <1>9, <2>1
  <2>3. was(j) = was(q) /\ h = i
    BY <1>6, <2>2
  <2> QED BY <1>4, <2>1, <2>3
<1>10. Once(r, F)
  BY <1>7, <1>8, <1>9 DEF Once
<1> QED BY <1>10 DEF F

-----------------------------------------------------------------------------
(* The elements that were pushed and not popped or deleted are those that  *)
(* the lists hold.                                                         *)

Present == {e \in 1..pushed : out[e] = None}

Held ==
    /\ out \in [Items -> Clients \cup {None, "gone"}]
    /\ \A e \in Items : e > pushed => out[e] = None
    /\ Once(db, Present)

LEMMA HeldPop ==
    ASSUME B!BlockingAssumption, ListsInv, Held, NEW c \in Clients, NEW k \in Keys, B!IsList(k), NEW end,
           db' = B!Pop(db, k, end), out' = [out EXCEPT ![B!Popped(k, end)] = c], pushed' = pushed
    PROVE  Held'
<1> DEFINE e == B!Popped(k, end)
<1>1. e = IF end = "head" THEN Head(db[k]) ELSE B!Last(db[k])
  BY DEF B!Popped
<1>2. db \in [Keys -> Values] /\ db[k] # Str /\ db[k] # << >> /\ Once(db, Present)
      /\ pushed \in 0..MaxPush /\ out \in [Items -> Clients \cup {None, "gone"}]
      /\ \A x \in Items : x > pushed => out[x] = None
  BY DEF ListsInv, ListTypes, B!IsList, Held
<1>3. e \in Present /\ Once(B!Pop(db, k, end), Present \ {e})
  BY <1>1, <1>2, PoppedOnce
<1> HIDE DEF e
<1>4. e \in Items /\ e \in 1..pushed /\ ~(e > pushed)
  BY <1>2, <1>3 DEF Present, Items, B!BlockingAssumption
<1>5. out' = [out EXCEPT ![e] = c]
  BY DEF e
<1>6. out' \in [Items -> Clients \cup {None, "gone"}] /\ \A x \in Items : out'[x] = IF x = e THEN c ELSE out[x]
  BY <1>2, <1>5
<1>7. Present' = Present \ {e}
  <2>1. c # None
    BY DEF B!BlockingAssumption
  <2>2. \A x \in 1..pushed : x \in Items
    BY <1>2 DEF Items, B!BlockingAssumption
  <2> QED BY <1>6, <2>1, <2>2 DEF Present
<1>8. \A x \in Items : x > pushed' => out'[x] = None
  BY <1>2, <1>4, <1>6
<1>9. Once(db', Present')
  BY <1>3, <1>7
<1> QED BY <1>6, <1>8, <1>9 DEF Held, Once, Sits

LEMMA HeldMove ==
    ASSUME B!BlockingAssumption, ListsInv, Held, NEW src \in Keys, B!IsList(src),
           NEW dst \in Keys, db[dst] # Str,
           db' = B!Push(B!Pop(db, src, "tail"), dst, B!Last(db[src]), "head"), UNCHANGED <<out, pushed>>
    PROVE  Held'
<1> DEFINE e == B!Last(db[src])
           d == B!Pop(db, src, "tail")
<1>1. db \in [Keys -> Values] /\ db[src] # Str /\ db[src] # << >> /\ Once(db, Present)
  BY DEF ListsInv, ListTypes, B!IsList, Held
<1>2. /\ d \in [Keys -> Values] /\ d[src] # Str /\ e \in Items
      /\ \A q \in Keys \ {src} : d[q] = db[q]
  BY <1>1, PoppedAt
<1>3. e \in Present /\ Once(d, Present \ {e})
  BY <1>1, PoppedOnce
<1>4. d[dst] # Str
  BY <1>2
<1>5. db' = B!Push(d, dst, e, "head")
  OBVIOUS
<1> HIDE DEF d, e
<1>6. Once(B!Push(d, dst, e, "head"), (Present \ {e}) \cup {e})
  BY <1>2, <1>3, <1>4, PushedOnce
<1>7. (Present \ {e}) \cup {e} = Present /\ Present' = Present
  BY <1>3 DEF Present
<1>8. Once(db', Present')
  BY <1>5, <1>6, <1>7
<1> QED BY <1>8 DEF Held, Once, Sits

LEMMA HeldPush ==
    ASSUME B!BlockingAssumption, ListsInv, Held, NEW k \in Keys, db[k] # Str, pushed < MaxPush, NEW end,
           pushed' = pushed + 1, db' = B!Push(db, k, pushed + 1, end), UNCHANGED out
    PROVE  Held'
<1> DEFINE e == pushed + 1
<1>1. db \in [Keys -> Values] /\ Once(db, Present) /\ pushed \in 0..MaxPush
      /\ out \in [Items -> Clients \cup {None, "gone"}] /\ \A x \in Items : x > pushed => out[x] = None
  BY DEF ListsInv, ListTypes, Held
<1>2. e \in Items /\ e > pushed /\ e \notin 1..pushed /\ 1..e = (1..pushed) \cup {e}
      /\ \A x \in Items : x > e => x > pushed
  BY <1>1 DEF Items, B!BlockingAssumption
<1>3. e \notin Present /\ Present' = Present \cup {e}
  BY <1>1, <1>2 DEF Present
<1>4. \A x \in Items : x > pushed' => out'[x] = None
  BY <1>1, <1>2
<1>5. db' = B!Push(db, k, e, end)
  OBVIOUS
<1> HIDE DEF e
<1>6. Once(B!Push(db, k, e, end), Present \cup {e})
  BY <1>1, <1>2, <1>3, PushedOnce
<1>7. Once(db', Present')
  BY <1>3, <1>5, <1>6
<1> QED BY <1>1, <1>4, <1>7 DEF Held, Once, Sits

(* The elements of a key that is deleted or overwritten *)
LEMMA HeldGone ==
    ASSUME B!BlockingAssumption, ListsInv, Held, NEW k \in Keys, pushed' = pushed,
           out' = [e \in 1..MaxPush |-> IF e \in B!Elements(k) THEN "gone" ELSE out[e]],
           Once(db', Present \ {e \in Present : \E i \in Nat : Sits(db, k, i, e)})
    PROVE  Held'
<1> DEFINE G == {e \in Present : \E i \in Nat : Sits(db, k, i, e)}
<1>1. db \in [Keys -> Values] /\ Once(db, Present) /\ pushed \in 0..MaxPush
      /\ out \in [Items -> Clients \cup {None, "gone"}] /\ \A x \in Items : x > pushed => out[x] = None
  BY DEF ListsInv, ListTypes, Held
<1>2. B!Elements(k) = G
  <2>1. \A e : \A i \in Nat : Sits(db, k, i, e) => e \in Present
    BY <1>1 DEF Once
  <2>2. CASE B!IsList(k)
    <3>1. db[k] \in Seq(Items) /\ db[k] # Str
      BY <1>1, <2>2 DEF Values, B!IsList
    <3>2. DOMAIN db[k] = 1..Len(db[k]) /\ 1..Len(db[k]) \subseteq Nat
      BY <3>1, LenProperties
    <3>3. B!Elements(k) = {db[k][i] : i \in 1..Len(db[k])}
      BY <2>2, <3>2 DEF B!Elements, B!ToSet
    <3> QED BY <2>1, <3>1, <3>2, <3>3 DEF Sits
  <2>3. CASE ~B!IsList(k)
    <3>1. B!Elements(k) = {}
      BY <2>3 DEF B!Elements
    <3>2. \A i, e : ~Sits(db, k, i, e)
      <4>1. Len(<< >>) = 0
        BY EmptySeq
      <4> QED BY <2>3, <4>1 DEF B!IsList, Sits
    <3> QED BY <3>1, <3>2
  <2> QED BY <2>2, <2>3
<1>3. G \subseteq Present
  OBVIOUS
<1> HIDE DEF G
<1>4. out' \in [Items -> Clients \cup {None, "gone"}]
      /\ \A x \in Items : out'[x] = IF x \in G THEN "gone" ELSE out[x]
  BY <1>1, <1>2 DEF Items
<1>5. 1..pushed \subseteq Items /\ \A x \in Items : x > pushed => x \notin Present
  BY <1>1 DEF Items, Present, B!BlockingAssumption
<1>6. Present' = Present \ G
  <2>1. None # "gone"
    BY DEF B!BlockingAssumption
  <2> QED BY <1>4, <1>5, <2>1 DEF Present
<1>7. \A x \in Items : x > pushed' => out'[x] = None
  BY <1>1, <1>3, <1>4, <1>5
<1>8. Once(db', Present')
  BY <1>6 DEF G
<1> QED BY <1>4, <1>7, <1>8 DEF Held, Once, Sits

LEMMA HeldStep ==
    ASSUME B!BlockingAssumption, ListsInv, Held, [B!Next]_B!vars
    PROVE  Held'
<1>1. ASSUME UNCHANGED <<db, pushed, out>> PROVE Held'
  <2>1. Present' = Present
    BY <1>1 DEF Present
  <2>2. Once(db', Present')
    BY <1>1, <2>1 DEF Held
  <2> QED BY <1>1, <2>2 DEF Held, Once, Sits
<1>2. ASSUME NEW c \in Clients, NEW k \in Keys, NEW end \in B!Ends, B!PushCommand(c, k, end)
      PROVE  Held'
  <2>1. db[k] # Str /\ pushed < MaxPush /\ pushed' = pushed + 1 /\ db' = B!Push(db, k, pushed + 1, end)
        /\ UNCHANGED out
    BY <1>2 DEF B!PushCommand
  <2> QED BY <2>1, HeldPush
<1>3. ASSUME NEW c \in Clients, NEW src \in Keys, NEW dst \in Keys, B!Brpoplpush(c, src, dst)
      PROVE  Held'
  <2>1. CASE B!BlockForKeys(c, {src}, dst, "tail")
    BY <1>1, <2>1 DEF B!BlockForKeys
  <2>2. CASE /\ B!IsList(src) /\ db[dst] # Str /\ UNCHANGED <<out, pushed>>
             /\ db' = B!Push(B!Pop(db, src, "tail"), dst, B!Last(db[src]), "head")
    BY <2>2, HeldMove
  <2> QED BY <1>3, <2>1, <2>2 DEF B!Brpoplpush
<1>4. ASSUME NEW c \in Clients, NEW src \in Keys, NEW dst \in Keys, B!Rename(c, src, dst)
      PROVE  Held'
  <2>1. /\ src # dst /\ db' = [db EXCEPT ![dst] = db[src], ![src] = << >>] /\ pushed' = pushed
        /\ out' = [e \in 1..MaxPush |-> IF e \in B!Elements(dst) THEN "gone" ELSE out[e]]
    BY <1>4 DEF B!Rename
  <2>2. db \in [Keys -> Values] /\ Once(db, Present)
    BY DEF ListsInv, ListTypes, Held
  <2>3. Moved(db, db', src, dst)
    BY <2>1, <2>2 DEF Moved
  <2>4. Once(db', Present \ {e \in Present : \E i \in Nat : Sits(db, dst, i, e)})
    BY <2>2, <2>3, RenamedOnce
  <2> QED BY <2>1, <2>4, HeldGone
<1>5. ASSUME NEW c \in Clients, NEW k \in Keys, NEW v \in {<< >>, Str}, B!Overwrite(c, k, v)
      PROVE  Held'
  <2>1. /\ db' = [db EXCEPT ![k] = v] /\ pushed' = pushed
        /\ out' = [e \in 1..MaxPush |-> IF e \in B!Elements(k) THEN "gone" ELSE out[e]]
    BY <1>5 DEF B!Overwrite
  <2>2. db \in [Keys -> Values] /\ Once(db, Present)
    BY DEF ListsInv, ListTypes, Held
  <2>3. db'[k] \in {<< >>, Str} /\ \A q \in Keys \ {k} : db'[q] = db[q]
    BY <2>1, <2>2
  <2>4. Once(db', Present \ {e \in Present : \E i \in Nat : Sits(db, k, i, e)})
    BY <2>2, <2>3, ClearedOnce
  <2> QED BY <2>1, <2>4, HeldGone
<1>6. ASSUME NEW c \in Clients, NEW ks \in Waits, NEW end \in B!Ends, B!BlockingPop(c, ks, end)
      PROVE  Held'
  <2>1. CASE B!BlockForKeys(c, B!ToSet(ks), None, end)
    BY <1>1, <2>1 DEF B!BlockForKeys
  <2>2. CASE \E i \in 1..Len(ks) :
                /\ B!IsList(ks[i]) /\ db' = B!Pop(db, ks[i], end) /\ pushed' = pushed
                /\ out' = [out EXCEPT ![B!Popped(ks[i], end)] = c]
    <3>1. PICK i \in 1..Len(ks) :
                /\ B!IsList(ks[i]) /\ db' = B!Pop(db, ks[i], end) /\ pushed' = pushed
                /\ out' = [out EXCEPT ![B!Popped(ks[i], end)] = c]
      BY <2>2
    <3>2. ks[i] \in Keys
      BY ElementOfSeq DEF B!BlockingAssumption
    <3> QED BY <3>1, <3>2, HeldPop
  <2> QED BY <1>6, <2>1, <2>2 DEF B!BlockingPop
<1>7. ASSUME B!ServeClient PROVE Held'
  <2> DEFINE k == serve.key
             c == Head(blocking[k])
  <2>1. /\ k # None /\ serve.left > 0 /\ db[k] # << >> /\ pushed' = pushed
        /\ B!ServePop(c, k) \/ B!ServePush(c, k) \/ B!ServeFailed(c, k)
    BY <1>7 DEF B!ServeClient
  <2>2. k \in Keys /\ c \in Clients /\ B!IsList(k)
    BY <2>1, ServedClient DEF B!IsList
  <2> HIDE DEF k, c
  <2>3. CASE B!ServePop(c, k)
    <3>1. db' = B!Pop(db, k, waiter[c].end) /\ out' = [out EXCEPT ![B!Popped(k, waiter[c].end)] = c]
      BY <2>3 DEF B!ServePop
    <3> QED BY <2>1, <2>2, <3>1, HeldPop
  <2>4. CASE B!ServePush(c, k)
    <3> DEFINE dst == waiter[c].target
    <3>1. /\ dst # None /\ db[dst] # Str /\ UNCHANGED out
          /\ db' = B!Push(B!Pop(db, k, "tail"), dst, B!Last(db[k]), "head")
      BY <2>4 DEF B!ServePush
    <3>2. dst \in Keys
      BY <2>2, <3>1 DEF ListsInv, ListTypes, Waiter
    <3> HIDE DEF dst
    <3> QED BY <2>1, <2>2, <3>1, <3>2, HeldMove
  <2>5. CASE B!ServeFailed(c, k)
    BY <1>1, <2>1, <2>5 DEF B!ServeFailed
  <2> QED BY <2>1, <2>3, <2>4, <2>5
<1>8. ASSUME NEW c \in Clients, B!BeginBatch(c) \/ B!EndBatch(c) \/ B!GiveUp(c) PROVE Held'
  BY <1>1, <1>8 DEF B!BeginBatch, B!EndBatch, B!GiveUp
<1>9. ASSUME B!TakeReady \/ B!NextKey \/ B!KeyServed PROVE Held'
  BY <1>1, <1>9 DEF B!TakeReady, B!NextKey, B!KeyServed
<1>10. CASE UNCHANGED B!vars
  BY <1>1, <1>10 DEF B!vars
<1> QED
  BY <1>2, <1>3, <1>4, <1>5, <1>6, <1>7, <1>8, <1>9, <1>10 DEF B!Next, B!Serving

LEMMA SameCardinality ==
    ASSUME NEW S
    PROVE  B!Cardinality(S) = Cardinality(S) /\ P!Cardinality(S) = Cardinality(S)
  BY DEF B!Cardinality, P!Cardinality, Cardinality

(* BlockingLists: for any clients, keys and elements, every element that   *)
(* was pushed is in one list at one place, or was given to one client, or  *)
(* went with a deleted key.                                                *)
THEOREM ElementsAreKept == B!Spec => []EveryElementOnce
<1>1. B!Init => Held
  <2> SUFFICES ASSUME B!Init PROVE Held
    OBVIOUS
  <2>1. 1..pushed = {} /\ Present = {}
    BY DEF B!Init, Present
  <2>2. Len(<< >>) = 0
    BY EmptySeq
  <2>3. Once(db, {})
    BY <2>2 DEF B!Init, Once, Sits
  <2> QED BY <2>1, <2>3 DEF B!Init, Held, Items
<1>2. ListsInv /\ Held => EveryElementOnce
  <2> SUFFICES ASSUME ListsInv, Held PROVE B!EveryElementOnce
    BY DEF EveryElementOnce
  <2> SUFFICES ASSUME NEW e \in 1..pushed
               PROVE  Cardinality(B!PlacesOf(e)) = IF out[e] = None THEN 1 ELSE 0
    BY SameCardinality DEF B!EveryElementOnce
  <2> DEFINE S == B!PlacesOf(e)
  <2>1. S = {p \in Keys \X Nat : Sits(db, p[1], p[2], e)}
    <3>1. \A k \in Keys : B!IsList(k) => DOMAIN db[k] = 1..Len(db[k]) /\ 1..Len(db[k]) \subseteq Nat
      BY LenProperties DEF ListsInv, ListTypes, Values, B!IsList
    <3>2. ASSUME NEW p \in S PROVE p \in Keys \X Nat /\ Sits(db, p[1], p[2], e)
      <4>1. PICK k \in Keys : B!IsList(k) /\ p \in {k} \X DOMAIN db[k]
        BY DEF B!Places, B!PlacesOf
      <4>2. db[p[1]][p[2]] = e
        BY DEF B!PlacesOf
      <4>3. p \in Keys \X Nat /\ p[1] = k /\ p[2] \in 1..Len(db[k]) 
        BY <3>1, <4>1
      <4> QED BY <4>1, <4>2, <4>3 DEF Sits, B!IsList
    <3>3. ASSUME NEW k \in Keys, NEW i \in Nat, Sits(db, k, i, e) PROVE <<k, i>> \in S
      <4>1. B!IsList(k)
        <5>1. Len(<< >>) = 0
          BY EmptySeq
        <5> QED BY <3>3, <5>1 DEF Sits, B!IsList
      <4>2. <<k, i>> \in {k} \X DOMAIN db[k] /\ db[k][i] = e
        BY <3>1, <3>3, <4>1 DEF Sits
      <4>3. <<k, i>> \in B!Places
        BY <4>1, <4>2 DEF B!Places
      <4> QED BY <4>2, <4>3 DEF B!PlacesOf
    <3> QED BY <3>2, <3>3
  <2> HIDE DEF S
  <2>2. e \in Present <=> out[e] = None
    BY DEF Present
  <2>3. CASE out[e] = None
    <3>1. PICK k \in Keys, i \in Nat : Sits(db, k, i, e)
      BY <2>2, <2>3 DEF Held, Once
    <3>2. \A j \in Keys, h \in Nat : Sits(db, j, h, e) => j = k /\ h = i
      BY <3>1 DEF Held, Once
    <3>3. S = {<<k, i>>}
      BY <2>1, <3>1, <3>2
    <3> QED BY <2>3, <3>3, FS_Singleton DEF S
  <2>4. CASE out[e] # None
    <3>1. S = {}
      BY <2>1, <2>2, <2>4 DEF Held, Once
    <3> QED BY <2>4, <3>1, FS_EmptySet DEF S
  <2> QED BY <2>3, <2>4
<1>3. ListsInv /\ Held /\ [B!Next]_B!vars => (ListsInv /\ Held)'
  BY ListsAssumption, ListsStep, HeldStep
<1>4. B!Init => ListsInv
  BY ListsAssumption, ListsInit
<1> QED BY <1>1, <1>2, <1>3, <1>4, PTL DEF B!Spec

(* BlockingLists: the AOF and the slaves, told what was pushed and popped, *)
(* have the lists the server has.                                          *)
THEOREM RepliesAreReplicated == B!Spec => []ListsReplicated
<1>1. B!Init => repl = db
  BY DEF B!Init
<1>2. ASSUME repl = db, [B!Next]_B!vars PROVE repl' = db'
  <2>1. ASSUME UNCHANGED <<db, repl>> PROVE repl' = db'
    BY <1>2, <2>1
  <2>2. ASSUME NEW c, NEW k, NEW end, B!PushCommand(c, k, end) PROVE repl' = db'
    BY <1>2, <2>2 DEF B!PushCommand
  <2>3. ASSUME NEW c, NEW src, NEW dst, B!Brpoplpush(c, src, dst) \/ B!Rename(c, src, dst)
        PROVE  repl' = db'
    BY <1>2, <2>3 DEF B!Brpoplpush, B!BlockForKeys, B!Rename
  <2>4. ASSUME NEW c, NEW k, NEW v, B!Overwrite(c, k, v) PROVE repl' = db'
    BY <1>2, <2>4 DEF B!Overwrite
  <2>5. ASSUME NEW c, NEW ks, NEW end, B!BlockingPop(c, ks, end) PROVE repl' = db'
    BY <1>2, <2>5 DEF B!BlockingPop, B!BlockForKeys
  <2>6. ASSUME NEW c, B!BeginBatch(c) \/ B!EndBatch(c) \/ B!GiveUp(c) PROVE repl' = db'
    BY <2>1, <2>6 DEF B!BeginBatch, B!EndBatch, B!GiveUp
  <2>7. ASSUME B!ServeClient PROVE repl' = db'
    <3>1. PICK k, c : B!ServePop(c, k) \/ B!ServePush(c, k) \/ B!ServeFailed(c, k)
      BY <2>7 DEF B!ServeClient
    <3> QED BY <1>2, <3>1 DEF B!ServePop, B!ServePush, B!ServeFailed
  <2>8. ASSUME B!TakeReady \/ B!NextKey \/ B!KeyServed PROVE repl' = db'
    BY <2>1, <2>8 DEF B!TakeReady, B!NextKey, B!KeyServed
  <2>9. CASE UNCHANGED B!vars
    BY <2>1, <2>9 DEF B!vars
  <2> QED
    BY <1>2, <2>2, <2>3, <2>4, <2>5, <2>6, <2>7, <2>8, <2>9 DEF B!Next, B!Serving
<1>3. repl = db /\ [B!Next]_B!vars => (repl = db)'
  BY <1>2
<1>4. repl = db => ListsReplicated
  BY DEF ListsReplicated, B!ReplicaAgrees
<1> QED BY <1>1, <1>3, <1>4, PTL DEF B!Spec

-----------------------------------------------------------------------------
(* Publish and subscribe *)

PubTypes ==
    /\ chans \in [Subscribers -> SUBSET Channels]
    /\ pats \in [Subscribers -> Seq(Patterns)]
    /\ subs \in [Channels -> Seq(Subscribers)]
    /\ patSubs \in Seq(Subscribers \X Patterns)
    /\ status \in [Subscribers -> {"connected", "closing", "gone"}]

(* The two sides of a subscription, to a channel and to a pattern *)
ChannelsMatch ==
    \A ch \in Channels, c \in Subscribers :
        /\ Listed(subs[ch], c) <=> ch \in chans[c]
        /\ Lone(subs[ch], c)

PatternsMatch ==
    \A c \in Subscribers, p \in Patterns :
        /\ Listed(patSubs, <<c, p>>) <=> Listed(pats[c], p)
        /\ Lone(patSubs, <<c, p>>)
        /\ Lone(pats[c], p)

GoneSilent == \A c \in Subscribers : status[c] = "gone" => chans[c] = {} /\ pats[c] = << >>

PubInv ==
    /\ PubTypes /\ ChannelsMatch /\ PatternsMatch /\ GoneSilent
    /\ queue = owed

LEMMA NothingListed == \A e : ~Listed(<< >>, e) /\ Lone(<< >>, e)
<1>1. Len(<< >>) = 0
  BY EmptySeq
<1>2. \A i : i \notin 1..Len(<< >>)
  BY <1>1
<1> QED BY <1>2 DEF Listed, Lone

(* All entries of a client are taken out. *)
LEMMA PatternsDropped ==
    ASSUME PubTypes, NEW c \in Subscribers, P!DropPatterns(c)
    PROVE  /\ patSubs' \in Seq(Subscribers \X Patterns)
           /\ \A d \in Subscribers, p \in Patterns :
                 /\ Listed(patSubs', <<d, p>>) <=> Listed(patSubs, <<d, p>>) /\ d # c
                 /\ Lone(patSubs, <<d, p>>) => Lone(patSubs', <<d, p>>)
<1> DEFINE s == patSubs
           r == patSubs'
           kept == {i \in DOMAIN s : s[i][1] # c}
           n == P!Cardinality(kept)
<1>1. s \in Seq(Subscribers \X Patterns) /\ Len(s) \in Nat /\ DOMAIN s = 1..Len(s)
      /\ \A i \in 1..Len(s) : s[i] \in Subscribers \X Patterns
  BY LenProperties, ElementOfSeq DEF PubTypes
<1>2. IsFiniteSet(kept)
  <2>1. IsFiniteSet(1..Len(s)) /\ kept \in SUBSET (1..Len(s))
    BY <1>1, FS_Interval
  <2> QED BY <2>1, FS_Subset
<1>3. n \in Nat
  BY <1>2, FS_CardinalityType, SameCardinality
<1>4. PICK order \in [1..n -> kept] :
          /\ \A i \in kept : \E j \in DOMAIN order : order[j] = i
          /\ \A i, j \in DOMAIN order : i < j => order[i] < order[j]
          /\ r = [j \in DOMAIN order |-> s[order[j]]]
  BY DEF P!DropPatterns
<1>5. DOMAIN order = 1..n /\ kept \subseteq 1..Len(s)
  BY <1>1, <1>4
<1> HIDE DEF n
<1>6. r \in [1..n -> Subscribers \X Patterns]
  BY <1>1, <1>4, <1>5
<1>7. r \in Seq(Subscribers \X Patterns) /\ Len(r) = n
  BY <1>3, <1>6
<1>8. \A i, j \in 1..n : order[i] = order[j] => i = j
  <2>1. \A i \in 1..n : order[i] \in Nat
    BY <1>1, <1>4, <1>5
  <2>2. \A i, j \in 1..n : i < j \/ j < i \/ i = j
    BY <1>3
  <2> QED BY <1>4, <1>5, <2>1, <2>2
<1>9. \A j \in 1..n : order[j] \in 1..Len(s) /\ r[j] = s[order[j]] /\ s[order[j]][1] # c
  BY <1>4, <1>5
<1>10. \A i \in 1..Len(s) : s[i][1] # c => \E j \in 1..n : r[j] = s[i]
  BY <1>1, <1>4, <1>5
<1> HIDE DEF r, s, kept
<1>11. ASSUME NEW d \in Subscribers, NEW p \in Patterns
       PROVE  /\ Listed(r, <<d, p>>) <=> Listed(s, <<d, p>>) /\ d # c
              /\ Lone(s, <<d, p>>) => Lone(r, <<d, p>>)
  <2>1. Listed(r, <<d, p>>) => Listed(s, <<d, p>>) /\ d # c
    <3>1. <<d, p>>[1] = d
      OBVIOUS
    <3> SUFFICES ASSUME NEW j \in 1..n, r[j] = <<d, p>> PROVE Listed(s, <<d, p>>) /\ d # c
      BY <1>7 DEF Listed
    <3> QED BY <1>9, <3>1 DEF Listed
  <2>2. Listed(s, <<d, p>>) /\ d # c => Listed(r, <<d, p>>)
    BY <1>7, <1>10 DEF Listed
  <2>3. Lone(s, <<d, p>>) => Lone(r, <<d, p>>)
    <3> SUFFICES ASSUME Lone(s, <<d, p>>), NEW i \in 1..n, NEW j \in 1..n, r[i] = <<d, p>>, r[j] = <<d, p>>
                 PROVE  i = j
      BY <1>7 DEF Lone
    <3>1. order[i] = order[j]
      BY <1>9 DEF Lone
    <3> QED BY <1>8, <3>1
  <2> QED BY <2>1, <2>2, <2>3
<1> QED BY <1>7, <1>11 DEF r, s

(* The loops over the two lists serve a client as often as its own         *)
(* subscriptions say.                                                      *)
LEMMA CopiesAreOwed ==
    ASSUME PubInv, NEW c \in Subscribers, NEW ch \in Channels
    PROVE  P!Copies(c, ch) = (IF ch \in chans[c] THEN 1 ELSE 0)
                             + P!Cardinality({p \in P!ToSet(pats[c]) : <<p, ch>> \in Matching})
<1> DEFINE A == {i \in DOMAIN subs[ch] : subs[ch][i] = c}
           I == {i \in DOMAIN patSubs : patSubs[i][1] = c /\ <<patSubs[i][2], ch>> \in Matching}
           J == {p \in P!ToSet(pats[c]) : <<p, ch>> \in Matching}
<1>1. Cardinality(A) = IF ch \in chans[c] THEN 1 ELSE 0
  <2>1. subs[ch] \in Seq(Subscribers)
    BY DEF PubInv, PubTypes
  <2>2. DOMAIN subs[ch] = 1..Len(subs[ch])
    BY <2>1, LenProperties
  <2>3. (Listed(subs[ch], c) <=> ch \in chans[c]) /\ Lone(subs[ch], c)
    BY DEF PubInv, ChannelsMatch
  <2>4. CASE ch \in chans[c]
    <3>1. PICK i \in 1..Len(subs[ch]) : subs[ch][i] = c
      BY <2>3, <2>4 DEF Listed
    <3>2. A = {i}
      BY <2>2, <2>3, <3>1 DEF Lone
    <3> QED BY <2>4, <3>2, FS_Singleton
  <2>5. CASE ch \notin chans[c]
    <3>1. A = {}
      BY <2>2, <2>3, <2>5 DEF Listed
    <3> QED BY <2>5, <3>1, FS_EmptySet
  <2> QED BY <2>4, <2>5
<1>2. Cardinality(I) = Cardinality(J)
  <2>1. /\ DOMAIN patSubs = 1..Len(patSubs) /\ Len(patSubs) \in Nat
        /\ \A i \in 1..Len(patSubs) : patSubs[i] \in Subscribers \X Patterns
    BY LenProperties, ElementOfSeq DEF PubInv, PubTypes
  <2>2. /\ DOMAIN pats[c] = 1..Len(pats[c])
        /\ \A i \in 1..Len(pats[c]) : pats[c][i] \in Patterns
    <3>1. pats[c] \in Seq(Patterns)
      BY DEF PubInv, PubTypes
    <3> QED BY <3>1, LenProperties, ElementOfSeq
  <2>3. \A p \in Patterns : /\ Listed(patSubs, <<c, p>>) <=> Listed(pats[c], p)
                            /\ Lone(patSubs, <<c, p>>)
    BY DEF PubInv, PatternsMatch
  <2>4. \A p : p \in P!ToSet(pats[c]) <=> p \in Patterns /\ Listed(pats[c], p)
    BY <2>2 DEF P!ToSet, Listed
  <2> DEFINE f == [i \in I |-> patSubs[i][2]]
  <2>5. \A i \in I : i \in 1..Len(patSubs) /\ patSubs[i] = <<c, patSubs[i][2]>> /\ patSubs[i][2] \in Patterns
                     /\ <<patSubs[i][2], ch>> \in Matching
    BY <2>1
  <2>6. \A i \in I : f[i] \in J
    <3> SUFFICES ASSUME NEW i \in I PROVE patSubs[i][2] \in P!ToSet(pats[c])
      BY <2>5
    <3>1. Listed(patSubs, <<c, patSubs[i][2]>>)
      BY <2>5 DEF Listed
    <3> QED BY <2>3, <2>4, <2>5, <3>1
  <2>7. \A i, j \in I : f[i] = f[j] => i = j
    <3> SUFFICES ASSUME NEW i \in I, NEW j \in I, patSubs[i][2] = patSubs[j][2] PROVE i = j
      OBVIOUS
    <3>1. patSubs[i] = patSubs[j] /\ patSubs[i] = <<c, patSubs[i][2]>>
      BY <2>5
    <3> QED BY <2>3, <2>5, <3>1 DEF Lone
  <2>8. \A p \in J : \E i \in I : f[i] = p
    <3> SUFFICES ASSUME NEW p \in J PROVE \E i \in I : f[i] = p
      OBVIOUS
    <3>1. PICK i \in 1..Len(patSubs) : patSubs[i] = <<c, p>>
      BY <2>3, <2>4 DEF Listed
    <3>2. patSubs[i][1] = c /\ patSubs[i][2] = p
      BY <3>1
    <3>3. i \in I
      BY <2>1, <3>2
    <3> QED BY <3>2, <3>3
  <2>9. IsFiniteSet(I)
    <3>1. IsFiniteSet(1..Len(patSubs)) /\ I \in SUBSET (1..Len(patSubs))
      BY <2>1, FS_Interval
    <3> QED BY <3>1, FS_Subset
  <2>10. f \in Bijection(I, J)
    <3>1. f \in [I -> J]
      BY <2>6
    <3> HIDE DEF f, I, J
    <3> QED BY <2>7, <2>8, <3>1 DEF Bijection, Injection, Surjection, IsInjective
  <2>11. ExistsBijection(I, J)
    BY <2>10 DEF ExistsBijection
  <2> HIDE DEF I, J, f
  <2> QED BY <2>9, <2>11, FS_Bijection
<1> HIDE DEF A, I, J
<1>3. P!Copies(c, ch) = Cardinality(A) + Cardinality(I)
  BY SameCardinality DEF P!Copies, A, I
<1> QED BY <1>1, <1>2, <1>3, SameCardinality DEF J

-----------------------------------------------------------------------------
LEMMA SubscribeChannelStep ==
    ASSUME PubInv, NEW c \in Subscribers, NEW ch \in Channels, P!SubscribeChannel(c, ch)
    PROVE  PubInv'
<1>1. /\ status[c] = "connected" /\ ch \notin chans[c]
      /\ chans' = [chans EXCEPT ![c] = chans[c] \cup {ch}]
      /\ subs' = [subs EXCEPT ![ch] = Append(subs[ch], c)]
      /\ UNCHANGED <<pats, patSubs, queue, owed, status>>
  BY DEF P!SubscribeChannel
<1>2. chans \in [Subscribers -> SUBSET Channels] /\ subs \in [Channels -> Seq(Subscribers)]
  BY DEF PubInv, PubTypes
<1>3. /\ Append(subs[ch], c) \in Seq(Subscribers)
      /\ \A d \in Subscribers \ {c} :
            /\ Listed(Append(subs[ch], c), d) <=> Listed(subs[ch], d)
            /\ Lone(subs[ch], d) => Lone(Append(subs[ch], c), d)
      /\ Listed(Append(subs[ch], c), c)
      /\ ~Listed(subs[ch], c) => Lone(Append(subs[ch], c), c)
  BY <1>2, LastAdded
<1>4. PubTypes'
  BY <1>1, <1>2, <1>3 DEF PubInv, PubTypes
<1>5. ASSUME NEW q \in Channels, NEW d \in Subscribers
      PROVE  (Listed(subs'[q], d) <=> q \in chans'[d]) /\ Lone(subs'[q], d)
  <2>1. (Listed(subs[q], d) <=> q \in chans[d]) /\ Lone(subs[q], d)
    BY DEF PubInv, ChannelsMatch
  <2>2. q \in chans'[d] <=> q \in chans[d] \/ (q = ch /\ d = c)
    BY <1>1, <1>2
  <2>3. CASE q = ch
    <3>1. subs'[q] = Append(subs[ch], c)
      BY <1>1, <1>2, <2>3
    <3> QED BY <1>1, <1>3, <2>1, <2>2, <2>3, <3>1
  <2>4. CASE q # ch
    <3>1. subs'[q] = subs[q]
      BY <1>1, <1>2, <2>4
    <3> QED BY <2>1, <2>2, <2>4, <3>1
  <2> QED BY <2>3, <2>4
<1>6. ChannelsMatch'
  BY <1>5 DEF ChannelsMatch, Listed, Lone
<1>7. PatternsMatch'
  BY <1>1 DEF PubInv, PatternsMatch
<1>8. GoneSilent'
  BY <1>1, <1>2 DEF PubInv, GoneSilent
<1> QED BY <1>1, <1>4, <1>6, <1>7, <1>8 DEF PubInv

(* A client leaves channels that it is subscribed to. *)
LEMMA ChannelsLeft ==
    ASSUME PubInv, NEW c \in Subscribers, NEW chs \in SUBSET chans[c],
           chans' = [chans EXCEPT ![c] = chans[c] \ chs],
           subs' = [ch \in Channels |-> IF ch \in chs THEN P!RemoveFirst(subs[ch], c) ELSE subs[ch]]
    PROVE  /\ chans' \in [Subscribers -> SUBSET Channels] /\ subs' \in [Channels -> Seq(Subscribers)]
           /\ ChannelsMatch'
<1>1. chans \in [Subscribers -> SUBSET Channels] /\ subs \in [Channels -> Seq(Subscribers)]
  BY DEF PubInv, PubTypes
<1>2. chans' \in [Subscribers -> SUBSET Channels]
  BY <1>1
<1>3. ASSUME NEW q \in Channels
      PROVE  /\ subs'[q] \in Seq(Subscribers)
             /\ \A d \in Subscribers : (Listed(subs'[q], d) <=> q \in chans'[d]) /\ Lone(subs'[q], d)
  <2>1. \A d \in Subscribers : (Listed(subs[q], d) <=> q \in chans[d]) /\ Lone(subs[q], d)
    BY DEF PubInv, ChannelsMatch
  <2>2. \A d \in Subscribers : q \in chans'[d] <=> q \in chans[d] /\ ~(q \in chs /\ d = c)
    BY <1>1
  <2>3. CASE q \in chs
    <3> DEFINE r == U!RemoveFirst(subs[q], c)
    <3>1. subs'[q] = r
      BY <2>3, SameRemoval
    <3>2. /\ r \in Seq(Subscribers)
          /\ \A d \in Subscribers \ {c} :
                (Listed(r, d) <=> Listed(subs[q], d)) /\ (Lone(subs[q], d) => Lone(r, d))
          /\ Lone(subs[q], c) => ~Listed(r, c)
      BY <1>1, FirstRemoved
    <3> HIDE DEF r
    <3>3. ~Listed(r, c) /\ Lone(r, c)
      BY <2>1, <3>2 DEF Lone, Listed
    <3> QED BY <2>1, <2>2, <2>3, <3>1, <3>2, <3>3
  <2>4. CASE q \notin chs
    <3>1. subs'[q] = subs[q]
      BY <2>4
    <3> QED BY <1>1, <2>1, <2>2, <2>4, <3>1
  <2> QED BY <2>3, <2>4
<1>4. subs' \in [Channels -> Seq(Subscribers)]
  BY <1>3
<1>5. ChannelsMatch'
  BY <1>3 DEF ChannelsMatch, Listed, Lone
<1> QED BY <1>2, <1>4, <1>5

LEMMA UnsubscribeChannelsStep ==
    ASSUME PubInv, NEW c \in Subscribers, NEW chs, P!UnsubscribeChannels(c, chs)
    PROVE  PubInv'
<1>1. /\ chs \in SUBSET chans[c]
      /\ chans' = [chans EXCEPT ![c] = chans[c] \ chs]
      /\ subs' = [ch \in Channels |-> IF ch \in chs THEN P!RemoveFirst(subs[ch], c) ELSE subs[ch]]
      /\ UNCHANGED <<pats, patSubs, queue, owed, status>>
  BY DEF P!UnsubscribeChannels
<1>2. /\ chans' \in [Subscribers -> SUBSET Channels] /\ subs' \in [Channels -> Seq(Subscribers)]
      /\ ChannelsMatch'
  BY <1>1, ChannelsLeft
<1>3. PubTypes'
  BY <1>1, <1>2 DEF PubInv, PubTypes
<1>4. PatternsMatch'
  BY <1>1 DEF PubInv, PatternsMatch
<1>5. GoneSilent'
  <2>1. \A d \in Subscribers : chans'[d] \subseteq chans[d]
    BY <1>1 DEF PubInv, PubTypes
  <2> QED BY <1>1, <2>1 DEF PubInv, GoneSilent
<1> QED BY <1>1, <1>2, <1>3, <1>4, <1>5 DEF PubInv

LEMMA SubscribePatternStep ==
    ASSUME PubInv, NEW c \in Subscribers, NEW p \in Patterns, P!SubscribePattern(c, p)
    PROVE  PubInv'
<1>1. /\ status[c] = "connected" /\ p \notin P!ToSet(pats[c])
      /\ pats' = [pats EXCEPT ![c] = Append(pats[c], p)]
      /\ patSubs' = Append(patSubs, <<c, p>>)
      /\ UNCHANGED <<chans, subs, queue, owed, status>>
  BY DEF P!SubscribePattern
<1>2. /\ pats \in [Subscribers -> Seq(Patterns)] /\ pats[c] \in Seq(Patterns)
      /\ patSubs \in Seq(Subscribers \X Patterns)
  BY DEF PubInv, PubTypes
<1>3. ~Listed(pats[c], p)
  <2>1. DOMAIN pats[c] = 1..Len(pats[c])
    BY <1>2, LenProperties
  <2> QED BY <1>1, <2>1 DEF P!ToSet, Listed
<1> DEFINE r == Append(pats[c], p)
           s == Append(patSubs, <<c, p>>)
           T == Subscribers \X Patterns
<1>4. /\ r \in Seq(Patterns)
      /\ \A o \in Patterns \ {p} : (Listed(r, o) <=> Listed(pats[c], o)) /\ (Lone(pats[c], o) => Lone(r, o))
      /\ Listed(r, p) /\ Lone(r, p)
  BY <1>2, <1>3, LastAdded
<1>5. <<c, p>> \in T
  OBVIOUS
<1>6. /\ s \in Seq(T)
      /\ \A e \in T \ {<<c, p>>} : (Listed(s, e) <=> Listed(patSubs, e)) /\ (Lone(patSubs, e) => Lone(s, e))
      /\ Listed(s, <<c, p>>) /\ (~Listed(patSubs, <<c, p>>) => Lone(s, <<c, p>>))
  BY <1>2, <1>5, LastAdded
<1> HIDE DEF r, s
<1>7. pats' = [pats EXCEPT ![c] = r] /\ patSubs' = s
  BY <1>1 DEF r, s
<1>8. PubTypes'
  BY <1>1, <1>2, <1>4, <1>6, <1>7 DEF PubInv, PubTypes
<1>9. ASSUME NEW d \in Subscribers, NEW o \in Patterns
      PROVE  /\ Listed(patSubs', <<d, o>>) <=> Listed(pats'[d], o)
             /\ Lone(patSubs', <<d, o>>) /\ Lone(pats'[d], o)
  <2>1. /\ Listed(patSubs, <<d, o>>) <=> Listed(pats[d], o)
        /\ Lone(patSubs, <<d, o>>) /\ Lone(pats[d], o)
    BY DEF PubInv, PatternsMatch
  <2>2. pats'[d] = IF d = c THEN r ELSE pats[d]
    BY <1>2, <1>7
  <2>3. <<d, o>> \in T /\ (<<d, o>> = <<c, p>> <=> d = c /\ o = p)
    OBVIOUS
  <2>4. CASE d = c /\ o = p
    BY <1>3, <1>4, <1>6, <1>7, <2>1, <2>2, <2>4
  <2>5. CASE ~(d = c /\ o = p)
    <3>1. (Listed(s, <<d, o>>) <=> Listed(patSubs, <<d, o>>)) /\ Lone(s, <<d, o>>)
      BY <1>6, <2>1, <2>3, <2>5
    <3>2. (Listed(pats'[d], o) <=> Listed(pats[d], o)) /\ Lone(pats'[d], o)
      BY <1>4, <2>1, <2>2, <2>5
    <3> QED BY <1>7, <2>1, <3>1, <3>2
  <2> QED BY <2>4, <2>5
<1>10. PatternsMatch'
  BY <1>9 DEF PatternsMatch, Listed, Lone
<1>11. ChannelsMatch'
  BY <1>1 DEF PubInv, ChannelsMatch
<1>12. GoneSilent'
  BY <1>1, <1>2 DEF PubInv, GoneSilent
<1> QED BY <1>1, <1>8, <1>10, <1>11, <1>12 DEF PubInv

LEMMA UnsubscribePatternStep ==
    ASSUME PubInv, NEW c \in Subscribers, NEW p \in Patterns, P!UnsubscribePattern(c, p)
    PROVE  PubInv'
<1> DEFINE r == U!RemoveFirst(pats[c], p)
           s == U!RemoveFirst(patSubs, <<c, p>>)
           T == Subscribers \X Patterns
<1>1. /\ status[c] = "connected"
      /\ pats' = [pats EXCEPT ![c] = r]
      /\ patSubs' = s
      /\ UNCHANGED <<chans, subs, queue, owed, status>>
  BY SameRemoval DEF P!UnsubscribePattern
<1>2. /\ pats \in [Subscribers -> Seq(Patterns)] /\ pats[c] \in Seq(Patterns)
      /\ patSubs \in Seq(T)
  BY DEF PubInv, PubTypes
<1>3. \A d \in Subscribers, o \in Patterns :
         /\ Listed(patSubs, <<d, o>>) <=> Listed(pats[d], o)
         /\ Lone(patSubs, <<d, o>>) /\ Lone(pats[d], o)
  BY DEF PubInv, PatternsMatch
<1>4. /\ r \in Seq(Patterns)
      /\ \A o \in Patterns \ {p} : (Listed(r, o) <=> Listed(pats[c], o)) /\ (Lone(pats[c], o) => Lone(r, o))
      /\ Lone(pats[c], p) => ~Listed(r, p)
  BY <1>2, FirstRemoved
<1>5. <<c, p>> \in T
  OBVIOUS
<1>6. /\ s \in Seq(T)
      /\ \A e \in T \ {<<c, p>>} : (Listed(s, e) <=> Listed(patSubs, e)) /\ (Lone(patSubs, e) => Lone(s, e))
      /\ Lone(patSubs, <<c, p>>) => ~Listed(s, <<c, p>>)
  BY <1>2, <1>5, FirstRemoved
<1> HIDE DEF r, s
<1>7. ~Listed(r, p) /\ ~Listed(s, <<c, p>>)
  BY <1>3, <1>4, <1>6
<1>8. Lone(r, p) /\ Lone(s, <<c, p>>)
  BY <1>7 DEF Lone, Listed
<1>9. PubTypes'
  BY <1>1, <1>2, <1>4, <1>6 DEF PubInv, PubTypes
<1>10. ASSUME NEW d \in Subscribers, NEW o \in Patterns
      PROVE  /\ Listed(patSubs', <<d, o>>) <=> Listed(pats'[d], o)
             /\ Lone(patSubs', <<d, o>>) /\ Lone(pats'[d], o)
  <2>1. /\ Listed(patSubs, <<d, o>>) <=> Listed(pats[d], o)
        /\ Lone(patSubs, <<d, o>>) /\ Lone(pats[d], o)
    BY <1>3
  <2>2. pats'[d] = IF d = c THEN r ELSE pats[d]
    BY <1>1, <1>2
  <2>3. <<d, o>> \in T /\ (<<d, o>> = <<c, p>> <=> d = c /\ o = p)
    OBVIOUS
  <2>4. CASE d = c /\ o = p
    BY <1>1, <1>7, <1>8, <2>2, <2>4
  <2>5. CASE ~(d = c /\ o = p)
    <3>1. (Listed(s, <<d, o>>) <=> Listed(patSubs, <<d, o>>)) /\ Lone(s, <<d, o>>)
      BY <1>6, <2>1, <2>3, <2>5
    <3>2. (Listed(pats'[d], o) <=> Listed(pats[d], o)) /\ Lone(pats'[d], o)
      BY <1>4, <2>1, <2>2, <2>5
    <3> QED BY <1>1, <2>1, <3>1, <3>2
  <2> QED BY <2>4, <2>5
<1>11. PatternsMatch'
  BY <1>10 DEF PatternsMatch, Listed, Lone
<1>12. ChannelsMatch'
  BY <1>1 DEF PubInv, ChannelsMatch
<1>13. GoneSilent'
  BY <1>1, <1>2 DEF PubInv, GoneSilent
<1> QED BY <1>1, <1>9, <1>11, <1>12, <1>13 DEF PubInv

(* A client leaves all its patterns. *)
LEMMA PatternsLeft ==
    ASSUME PubInv, NEW c \in Subscribers, pats' = [pats EXCEPT ![c] = << >>], P!DropPatterns(c)
    PROVE  /\ pats' \in [Subscribers -> Seq(Patterns)] /\ patSubs' \in Seq(Subscribers \X Patterns)
           /\ PatternsMatch'
<1>1. pats \in [Subscribers -> Seq(Patterns)] /\ << >> \in Seq(Patterns)
  BY EmptySeq DEF PubInv, PubTypes
<1>2. pats' \in [Subscribers -> Seq(Patterns)]
  BY <1>1
<1>3. /\ patSubs' \in Seq(Subscribers \X Patterns)
      /\ \A d \in Subscribers, o \in Patterns :
             /\ Listed(patSubs', <<d, o>>) <=> Listed(patSubs, <<d, o>>) /\ d # c
             /\ Lone(patSubs, <<d, o>>) => Lone(patSubs', <<d, o>>)
  BY PatternsDropped DEF PubInv
<1>4. ASSUME NEW d \in Subscribers, NEW o \in Patterns
      PROVE  /\ Listed(patSubs', <<d, o>>) <=> Listed(pats'[d], o)
             /\ Lone(patSubs', <<d, o>>) /\ Lone(pats'[d], o)
  <2>1. /\ Listed(patSubs, <<d, o>>) <=> Listed(pats[d], o)
        /\ Lone(patSubs, <<d, o>>) /\ Lone(pats[d], o)
    BY DEF PubInv, PatternsMatch
  <2>2. pats'[d] = IF d = c THEN << >> ELSE pats[d]
    BY <1>1
  <2> QED BY <1>3, <2>1, <2>2, NothingListed
<1>5. PatternsMatch'
  BY <1>4 DEF PatternsMatch, Listed, Lone
<1> QED BY <1>2, <1>3, <1>5

LEMMA UnsubscribeAllPatternsStep ==
    ASSUME PubInv, NEW c \in Subscribers, P!UnsubscribeAllPatterns(c)
    PROVE  PubInv'
<1>1. /\ pats' = [pats EXCEPT ![c] = << >>] /\ P!DropPatterns(c)
      /\ UNCHANGED <<chans, subs, queue, owed, status>>
  BY DEF P!UnsubscribeAllPatterns
<1>2. /\ pats' \in [Subscribers -> Seq(Patterns)] /\ patSubs' \in Seq(Subscribers \X Patterns)
      /\ PatternsMatch'
  BY <1>1, PatternsLeft
<1>3. PubTypes'
  BY <1>1, <1>2 DEF PubInv, PubTypes
<1>4. ChannelsMatch'
  BY <1>1 DEF PubInv, ChannelsMatch
<1>5. GoneSilent'
  BY <1>1 DEF PubInv, PubTypes, GoneSilent
<1> QED BY <1>1, <1>2, <1>3, <1>4, <1>5 DEF PubInv

LEMMA FreeClientStep ==
    ASSUME PubInv, NEW c \in Subscribers, P!FreeClient(c)
    PROVE  PubInv'
<1>1. /\ chans' = [chans EXCEPT ![c] = {}] /\ pats' = [pats EXCEPT ![c] = << >>]
      /\ subs' = [ch \in Channels |-> IF ch \in chans[c] THEN P!RemoveFirst(subs[ch], c) ELSE subs[ch]]
      /\ P!DropPatterns(c)
      /\ status' = [status EXCEPT ![c] = "gone"]
      /\ UNCHANGED <<queue, owed>>
  BY DEF P!FreeClient
<1>2. /\ pats' \in [Subscribers -> Seq(Patterns)] /\ patSubs' \in Seq(Subscribers \X Patterns)
      /\ PatternsMatch'
  BY <1>1, PatternsLeft
<1>3. /\ chans' \in [Subscribers -> SUBSET Channels] /\ subs' \in [Channels -> Seq(Subscribers)]
      /\ ChannelsMatch'
  <2> DEFINE chs == chans[c]
  <2>1. chs \in SUBSET chans[c] /\ chans' = [chans EXCEPT ![c] = chans[c] \ chs]
    BY <1>1
  <2>2. subs' = [ch \in Channels |-> IF ch \in chs THEN P!RemoveFirst(subs[ch], c) ELSE subs[ch]]
    BY <1>1
  <2> HIDE DEF chs
  <2> QED BY <2>1, <2>2, ChannelsLeft
<1>4. PubTypes'
  BY <1>1, <1>2, <1>3 DEF PubInv, PubTypes
<1>5. GoneSilent'
  BY <1>1 DEF PubInv, PubTypes, GoneSilent
<1> QED BY <1>1, <1>2, <1>3, <1>4, <1>5 DEF PubInv

LEMMA PublishStep ==
    ASSUME PubInv, NEW ch \in Channels, P!Publish(ch)
    PROVE  PubInv'
<1> DEFINE copies(n) == [i \in 1..n |-> published + 1]
           due(c) == (IF ch \in chans[c] THEN 1 ELSE 0)
                     + P!Cardinality({p \in P!ToSet(pats[c]) : <<p, ch>> \in Matching})
           q == [c \in Subscribers |-> queue[c] \o copies(P!Copies(c, ch))]
<1>1. /\ queue' = q
      /\ owed' = [c \in Subscribers |-> owed[c] \o copies(due(c))]
      /\ status' = [c \in Subscribers |-> IF P!Copies(c, ch) > 0 THEN P!AfterReply(c, q[c]) ELSE status[c]]
      /\ UNCHANGED <<chans, pats, subs, patSubs>>
  BY DEF P!Publish
<1>2. \A c \in Subscribers : P!Copies(c, ch) = due(c)
  BY CopiesAreOwed
<1> HIDE DEF copies, due
<1>3. queue' = owed'
  BY <1>1, <1>2 DEF PubInv
<1> HIDE DEF q
<1>4. \A c \in Subscribers : status'[c] = status[c] \/ (status'[c] = "closing" /\ status[c] = "connected")
  BY <1>1 DEF P!AfterReply
<1>5. status' \in [Subscribers -> {"connected", "closing", "gone"}]
  <2>1. \A c \in Subscribers : status'[c] \in {"connected", "closing", "gone"}
    BY <1>4 DEF PubInv, PubTypes
  <2>2. status' = [c \in Subscribers |-> status'[c]]
    BY <1>1
  <2> QED BY <2>1, <2>2
<1>6. PubTypes'
  BY <1>1, <1>5 DEF PubInv, PubTypes
<1>7. ChannelsMatch'
  BY <1>1 DEF PubInv, ChannelsMatch
<1>8. PatternsMatch'
  BY <1>1 DEF PubInv, PatternsMatch
<1>9. GoneSilent'
  BY <1>1, <1>4 DEF PubInv, GoneSilent
<1> QED BY <1>3, <1>6, <1>7, <1>8, <1>9 DEF PubInv

LEMMA PubStep == PubInv /\ [P!Next]_P!pubsubVars => PubInv'
<1> SUFFICES ASSUME PubInv, [P!Next]_P!pubsubVars PROVE PubInv'
  OBVIOUS
<1>1. ASSUME UNCHANGED <<chans, pats, subs, patSubs, status, queue, owed>> PROVE PubInv'
  <2>1. ChannelsMatch'
    BY <1>1 DEF PubInv, ChannelsMatch
  <2>2. PatternsMatch'
    BY <1>1 DEF PubInv, PatternsMatch
  <2> QED BY <1>1, <2>1, <2>2 DEF PubInv, PubTypes, GoneSilent
<1>2. ASSUME NEW c \in Subscribers, NEW ch \in Channels, P!SubscribeChannel(c, ch) PROVE PubInv'
  BY <1>2, SubscribeChannelStep
<1>3. ASSUME NEW c \in Subscribers, NEW chs, P!UnsubscribeChannels(c, chs) PROVE PubInv'
  BY <1>3, UnsubscribeChannelsStep
<1>4. ASSUME NEW c \in Subscribers, NEW p \in Patterns, P!SubscribePattern(c, p) PROVE PubInv'
  BY <1>4, SubscribePatternStep
<1>5. ASSUME NEW c \in Subscribers, NEW p \in Patterns, P!UnsubscribePattern(c, p) PROVE PubInv'
  BY <1>5, UnsubscribePatternStep
<1>6. ASSUME NEW c \in Subscribers, P!UnsubscribeAllPatterns(c) PROVE PubInv'
  BY <1>6, UnsubscribeAllPatternsStep
<1>7. ASSUME NEW c \in Subscribers, P!Disconnect(c) \/ P!FreeAsync(c) PROVE PubInv'
  BY <1>7, FreeClientStep DEF P!Disconnect, P!FreeAsync
<1>8. ASSUME NEW c \in Subscribers, P!SendReply(c) PROVE PubInv'
  BY <1>1, <1>8 DEF P!SendReply
<1>9. ASSUME NEW ch \in Channels, P!Publish(ch) PROVE PubInv'
  BY <1>9, PublishStep
<1>10. CASE UNCHANGED P!pubsubVars
  BY <1>1, <1>10 DEF P!pubsubVars
<1> QED
  BY <1>2, <1>3, <1>4, <1>5, <1>6, <1>7, <1>8, <1>9, <1>10 DEF P!Next, P!UnsubscribeAllChannels

(* PubSub: for any subscribers, channels and patterns, whatever matches,   *)
(* the server's lists and the clients' own agree, and each message comes   *)
(* once for each subscription it matches, in order.                        *)
THEOREM MessagesAreDue == P!Spec => []EveryMessageDue
<1>1. P!Init => PubInv
  <2> SUFFICES ASSUME P!Init PROVE PubInv
    OBVIOUS
  <2>1. << >> \in Seq(Subscribers) /\ << >> \in Seq(Patterns) /\ << >> \in Seq(Subscribers \X Patterns)
    BY EmptySeq
  <2>2. PubTypes
    BY <2>1 DEF P!Init, PubTypes
  <2>3. ChannelsMatch
    BY NothingListed DEF P!Init, ChannelsMatch
  <2>4. PatternsMatch
    BY NothingListed DEF P!Init, PatternsMatch
  <2> QED BY <2>2, <2>3, <2>4 DEF P!Init, PubInv, GoneSilent
<1>2. PubInv => EveryMessageDue
  <2> SUFFICES ASSUME PubInv PROVE EveryMessageDue
    OBVIOUS
  <2>1. ASSUME NEW ch \in Channels
        PROVE  /\ P!ToSet(subs[ch]) = {c \in Subscribers : ch \in chans[c]}
               /\ P!IsInjective(subs[ch])
    <3>1. subs[ch] \in Seq(Subscribers)
      BY DEF PubInv, PubTypes
    <3>2. /\ DOMAIN subs[ch] = 1..Len(subs[ch])
          /\ \A i \in 1..Len(subs[ch]) : subs[ch][i] \in Subscribers
      BY <3>1, LenProperties, ElementOfSeq
    <3>3. \A c \in Subscribers : (Listed(subs[ch], c) <=> ch \in chans[c]) /\ Lone(subs[ch], c)
      BY DEF PubInv, ChannelsMatch
    <3>4. P!IsInjective(subs[ch])
      BY <3>2, <3>3 DEF P!IsInjective, Lone
    <3> QED BY <3>2, <3>3, <3>4 DEF P!ToSet, Listed
  <2>2. /\ DOMAIN patSubs = 1..Len(patSubs)
        /\ \A i \in 1..Len(patSubs) : patSubs[i] \in Subscribers \X Patterns
    BY LenProperties, ElementOfSeq DEF PubInv, PubTypes
  <2>3. \A c \in Subscribers, p \in Patterns : /\ Listed(patSubs, <<c, p>>) <=> Listed(pats[c], p)
                                               /\ Lone(patSubs, <<c, p>>)
    BY DEF PubInv, PatternsMatch
  <2>4. \A c \in Subscribers, p \in Patterns : p \in P!ToSet(pats[c]) <=> Listed(pats[c], p)
    <3>1. \A c \in Subscribers : DOMAIN pats[c] = 1..Len(pats[c])
      BY LenProperties DEF PubInv, PubTypes
    <3> QED BY <3>1 DEF P!ToSet, Listed
  <2>5. P!ToSet(patSubs) = {s \in Subscribers \X Patterns : s[2] \in P!ToSet(pats[s[1]])}
    <3>1. ASSUME NEW s \in Subscribers \X Patterns
          PROVE  s \in P!ToSet(patSubs) <=> s[2] \in P!ToSet(pats[s[1]])
      <4>1. PICK c \in Subscribers, p \in Patterns : s = <<c, p>>
        OBVIOUS
      <4>2. s[1] = c /\ s[2] = p
        BY <4>1
      <4>3. s \in P!ToSet(patSubs) <=> Listed(patSubs, s)
        BY <2>2 DEF P!ToSet, Listed
      <4> QED BY <2>3, <2>4, <4>1, <4>2, <4>3
    <3>2. P!ToSet(patSubs) \subseteq Subscribers \X Patterns
      BY <2>2 DEF P!ToSet
    <3> QED BY <3>1, <3>2
  <2>6. P!IsInjective(patSubs)
    <3> SUFFICES ASSUME NEW i \in 1..Len(patSubs), NEW j \in 1..Len(patSubs), patSubs[i] = patSubs[j]
                 PROVE  i = j
      BY <2>2 DEF P!IsInjective
    <3>1. PICK c \in Subscribers, p \in Patterns : patSubs[i] = <<c, p>>
      BY <2>2
    <3> QED BY <2>3, <3>1 DEF Lone
  <2>7. \A c \in Subscribers : status[c] = "gone" => ~P!Listening(c)
    BY DEF PubInv, GoneSilent, P!Listening
  <2>8. P!SubscribersMatch
    BY <2>1, <2>5, <2>6, <2>7 DEF P!SubscribersMatch
  <2>9. P!EveryMessageDue
    BY DEF PubInv, P!EveryMessageDue
  <2> QED BY <2>8, <2>9 DEF EveryMessageDue
<1> QED BY <1>1, <1>2, PubStep, PTL DEF P!Spec
=============================================================================
