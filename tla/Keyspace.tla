------------------------------- MODULE Keyspace -------------------------------
(***************************************************************************)
(* The keyspace of a Redis master with a replica (redis-stable/src/db.c,   *)
(* redis.c): commands are executed on the master by call(), and what       *)
(* changed the dataset is propagated to the replica, which executes it in  *)
(* the same order.  Keys expire on the master only: when a command looks   *)
(* them up, or by the active expire cycle, or they are evicted when memory *)
(* is short; the replica is sent a DEL.                                    *)
(*                                                                         *)
(* A command is a tuple of its name and arguments.  A client uses the      *)
(* commands on some types only, one of Mixes; those of "key" are on any.   *)
(***************************************************************************)
EXTENDS StringCommands, KeyCommands, HashCommands, SetCommands, ListCommands

CONSTANTS Fields, SetElements, Elements, Mixes

(* Elements are strings, as numbers or as lengths. *)
ASSUME KeyspaceAssumption ==
    /\ Elements \subseteq Int /\ SetElements \subseteq Int
    /\ MaxPacked \in Nat /\ MaxIntset \in Nat

VARIABLES
    master,      \* the dataset of the master
    replica,     \* the dataset of the replica
    dead,        \* the keys of the master with an expire in the past
    mix          \* the types whose commands are used

vars == <<master, replica, dead, mix>>

Empty == [val |-> [k \in Keys |-> Absent], ttl |-> [k \in Keys |-> FALSE]]

Init == master = Empty /\ replica = Empty /\ dead = {} /\ mix \in Mixes

-----------------------------------------------------------------------------
(* The commands, for the keys of database 0 *)

Local == {k \in Keys : k[1] = 0}
Pairs == {p \in Local \X Local : p[1] # p[2]}

StringCalls ==
    {<<"SET", k, s, cond, ex>> : k \in Local, s \in {1, -1}, cond \in {"ALWAYS", "NX", "XX"},
                                 ex \in BOOLEAN}
    \cup {<<"GETSET", k, 0>> : k \in Local}
    \cup {<<"MSET", p[1], 1, p[2], -1, nx>> : p \in Pairs, nx \in BOOLEAN}
    \cup {<<c, k, n>> : c \in {"INCRBY", "INCRBYFLOAT"}, k \in Local, n \in {1, -1}}
    \cup {<<"APPEND", k, s>> : k \in Local, s \in {1, -1}}
    \cup {<<"SETRANGE", k, n>> : k \in Local, n \in 0..MaxLength}
    \cup {<<"SETBIT", k>> : k \in Local}
    \cup {<<"BITOP", dst, srcs>> : dst \in Local, srcs \in SUBSET Local \ {{}}}

KeyCalls ==
    {<<"SET", k, -1, "ALWAYS", ex>> : k \in Local, ex \in BOOLEAN}
    \cup {<<"DEL", k>> : k \in Local}
    \cup {<<"FLUSHDB", 0>>, <<"FLUSHALL">>}
    \cup {<<"RENAME", p[1], p[2], nx>> : p \in Pairs, nx \in BOOLEAN}
    \cup {<<"MOVE", k, <<1, k[2]>>>> : k \in {l \in Local : <<1, l[2]>> \in Keys}}
    \cup {<<"EXPIRE", k, past>> : k \in Local, past \in BOOLEAN}
    \cup {<<"PERSIST", k>> : k \in Local}
    \cup {<<"SORT", p[1], p[2], nosort>> : p \in Local \X Local, nosort \in BOOLEAN}

HashCalls ==
    {<<c, k, f, s>> : c \in {"HSET", "HSETNX"}, k \in Local, f \in Fields, s \in {0, -2}}
    \cup {<<"HMSET", k, f, g, 0>> : k \in Local, f \in Fields, g \in Fields}
    \cup {<<c, k, f, 1>> : c \in {"HINCRBY", "HINCRBYFLOAT"}, k \in Local, f \in Fields}
    \cup {<<"HDEL", k, f>> : k \in Local, f \in Fields}

SetCalls ==
    {<<c, k, e>> : c \in {"SADD", "SREM"}, k \in Local, e \in SetElements}
    \cup {<<"SMOVE", p[1], p[2], e>> : p \in Pairs, e \in SetElements}
    \cup {<<"SPOP", k>> : k \in Local}
    \cup {<<c, d, p[1], p[2]>> : c \in {"SINTERSTORE", "SUNIONSTORE", "SDIFFSTORE"},
                                 d \in Local, p \in Local \X Local}

ListCalls ==
    {<<c, k, e, left>> : c \in {"PUSH", "PUSHX"}, k \in Local, e \in Elements, left \in BOOLEAN}
    \cup {<<"LINSERT", k, p, e, after>> : k \in Local, p \in Elements, e \in Elements, after \in BOOLEAN}
    \cup {<<"LSET", k, i, e>> : k \in Local, i \in -1..1, e \in Elements}
    \cup {<<"POP", k, left>> : k \in Local, left \in BOOLEAN}
    \cup {<<"LTRIM", k, i, j>> : k \in Local, i \in -1..1, j \in -2..1}
    \cup {<<"LREM", k, e>> : k \in Local, e \in Elements}
    \cup {<<"RPOPLPUSH", p[1], p[2]>> : p \in Local \X Local}

Commands ==
    (IF "key" \in mix THEN KeyCalls ELSE {})
    \cup (IF "string" \in mix THEN StringCalls ELSE {})
    \cup (IF "hash" \in mix THEN HashCalls ELSE {})
    \cup (IF "set" \in mix THEN SetCalls ELSE {})
    \cup (IF "list" \in mix THEN ListCalls ELSE {})

(* redisCommandTable: the results that command c may have on dataset D, by *)
(* the files the commands are in                                           *)
StringOutcomes(c, D) ==
    CASE c[1] = "SET" -> {SetCommand(D, c[2], c[3], c[4], c[5])}
      [] c[1] = "GETSET" -> {GetsetCommand(D, c[2], c[3])}
      [] c[1] = "MSET" -> {MsetCommand(D, c[2], c[3], c[4], c[5], c[6])}
      [] c[1] = "INCRBY" -> {IncrbyCommand(D, c[2], c[3])}
      [] c[1] = "INCRBYFLOAT" -> {IncrbyfloatCommand(D, c[2], c[3])}
      [] c[1] = "APPEND" -> {AppendCommand(D, c[2], c[3])}
      [] c[1] = "SETRANGE" -> {SetrangeCommand(D, c[2], c[3])}
      [] c[1] = "SETBIT" -> {SetbitCommand(D, c[2])}
      [] c[1] = "BITOP" -> {BitopCommand(D, c[2], c[3])}

KeyOutcomes(c, D) ==
    CASE c[1] = "DEL" -> {DelCommand(D, c[2])}
      [] c[1] = "FLUSHDB" -> {FlushdbCommand(D, c[2])}
      [] c[1] = "FLUSHALL" -> {FlushallCommand(D)}
      [] c[1] = "RENAME" -> {RenameCommand(D, c[2], c[3], c[4])}
      [] c[1] = "MOVE" -> {MoveCommand(D, c[2], c[3])}
      [] c[1] = "EXPIRE" -> {ExpireCommand(D, c[2], c[3])}
      [] c[1] = "PERSIST" -> {PersistCommand(D, c[2])}
      [] c[1] = "SORT" -> SortCommand(D, c[2], c[3], c[4])

HashOutcomes(c, D) ==
    CASE c[1] = "HSET" -> {HsetCommand(D, c[2], c[3], c[4])}
      [] c[1] = "HSETNX" -> {HsetnxCommand(D, c[2], c[3], c[4])}
      [] c[1] = "HMSET" -> {HmsetCommand(D, c[2], c[3], c[4], c[5])}
      [] c[1] = "HINCRBY" -> {HincrbyCommand(D, c[2], c[3], c[4])}
      [] c[1] = "HINCRBYFLOAT" -> {HincrbyfloatCommand(D, c[2], c[3], c[4])}
      [] c[1] = "HDEL" -> {HdelCommand(D, c[2], c[3])}

SetOutcomes(c, D) ==
    CASE c[1] = "SADD" -> {SaddCommand(D, c[2], c[3])}
      [] c[1] = "SREM" -> {SremCommand(D, c[2], c[3])}
      [] c[1] = "SMOVE" -> {SmoveCommand(D, c[2], c[3], c[4])}
      [] c[1] = "SPOP" -> SpopCommand(D, c[2])
      [] c[1] = "SINTERSTORE" -> {SinterstoreCommand(D, c[2], c[3], c[4])}
      [] c[1] = "SUNIONSTORE" -> {SunionstoreCommand(D, c[2], c[3], c[4])}
      [] c[1] = "SDIFFSTORE" -> {SdiffstoreCommand(D, c[2], c[3], c[4])}

ListOutcomes(c, D) ==
    CASE c[1] = "PUSH" -> {PushCommand(D, c[2], c[3], c[4])}
      [] c[1] = "PUSHX" -> {PushxCommand(D, c[2], c[3], c[4])}
      [] c[1] = "LINSERT" -> {LinsertCommand(D, c[2], c[3], c[4], c[5])}
      [] c[1] = "LSET" -> {LsetCommand(D, c[2], c[3], c[4])}
      [] c[1] = "POP" -> {PopCommand(D, c[2], c[3])}
      [] c[1] = "LTRIM" -> {LtrimCommand(D, c[2], c[3], c[4])}
      [] c[1] = "LREM" -> {LremCommand(D, c[2], c[3])}
      [] c[1] = "RPOPLPUSH" -> {RpoplpushCommand(D, c[2], c[3])}

KeyNames == {"DEL", "FLUSHDB", "FLUSHALL", "RENAME", "MOVE", "EXPIRE", "PERSIST", "SORT"}
HashNames == {"HSET", "HSETNX", "HMSET", "HINCRBY", "HINCRBYFLOAT", "HDEL"}
SetNames == {"SADD", "SREM", "SMOVE", "SPOP", "SINTERSTORE", "SUNIONSTORE", "SDIFFSTORE"}
ListNames == {"PUSH", "PUSHX", "LINSERT", "LSET", "POP", "LTRIM", "LREM", "RPOPLPUSH"}

Outcomes(c, D) ==
    CASE c[1] \in KeyNames -> KeyOutcomes(c, D)
      [] c[1] \in HashNames -> HashOutcomes(c, D)
      [] c[1] \in SetNames -> SetOutcomes(c, D)
      [] c[1] \in ListNames -> ListOutcomes(c, D)
      [] OTHER -> StringOutcomes(c, D)

-----------------------------------------------------------------------------
(* The keys that command c looks up in dataset D (lookupKeyRead,           *)
(* lookupKeyWrite), given which of them are no longer alive.  DEL, PERSIST *)
(* and the FLUSH commands go to the tables themselves, and the target of a *)
(* set operation is just deleted.                                          *)
LookedUp(c, D, gone) ==
    LET alive(k) == Has(D, k) /\ k \notin gone
        thenTarget(ks, dst) ==
            IF \E r \in Outcomes(c, DeleteAll(D, ks \cap gone)) : r.dirty /\ Has(r.data, dst)
            THEN ks \cup {dst} ELSE ks
    IN CASE c[1] \in {"DEL", "PERSIST", "FLUSHDB", "FLUSHALL"} -> {}
         [] c[1] \in {"SUNIONSTORE", "SDIFFSTORE"} -> {c[3], c[4]}
         [] c[1] = "SINTERSTORE" -> IF Is(D, c[3], "set") /\ alive(c[3]) THEN {c[3], c[4]} ELSE {c[3]}
         [] c[1] \in {"RENAME", "MOVE"} -> IF alive(c[2]) THEN {c[2], c[3]} ELSE {c[2]}
         [] c[1] = "RPOPLPUSH" -> IF Is(D, c[2], "list") /\ alive(c[2]) THEN {c[2], c[3]} ELSE {c[2]}
         [] c[1] = "SMOVE" -> {c[2], c[3]}
         [] c[1] = "MSET" -> {c[2], c[4]}
         [] c[1] = "SORT" -> thenTarget({c[2]}, c[3])
         [] c[1] = "BITOP" -> thenTarget(c[3], c[2])
         [] OTHER -> {c[2]}

(* Bound: lists do not grow past MaxLength, and only strings are moved to  *)
(* another database.                                                       *)
Bounded(D) == \A k \in Keys :
    /\ Is(D, k, "list") => Len(D.val[k].content) <= MaxLength
    /\ k \notin Local => OfType(D, k, "string")

(* call() after expireIfNeeded: the keys in expired are deleted and the    *)
(* replica is sent a DEL for each; then the command is executed, and if    *)
(* server.dirty went up the replica executes it, or what it was rewritten  *)
(* as.  On a replica nothing expires.                                      *)
Call(c) ==
    LET expired == {k \in dead : k \in LookedUp(c, master, dead)}
        D == DeleteAll(master, expired)
        R == DeleteAll(replica, expired)
    IN \E r \in Outcomes(c, D) :
        /\ Bounded(r.data) /\ UNCHANGED mix
        /\ master' = r.data
        /\ dead' = {k \in dead \ expired : r.data.ttl[k]}
        /\ IF ~r.dirty THEN replica' = R
           ELSE \E q \in Outcomes(IF r.as = <<>> THEN c ELSE r.as, R) : replica' = q.data

(* A command that reads: lookupKeyRead may expire the key *)
Read(k) ==
    /\ k \in dead
    /\ master' = Delete(master, k)
    /\ replica' = Delete(replica, k)
    /\ dead' = dead \ {k} /\ UNCHANGED mix

(* activeExpireCycle, activeExpireCycleTryExpire *)
ActiveExpireCycle == \E k \in dead :
    /\ master' = Delete(master, k)
    /\ replica' = Delete(replica, k)
    /\ dead' = dead \ {k} /\ UNCHANGED mix

(* freeMemoryIfNeeded: the key that the policy picks *)
FreeMemoryIfNeeded == \E k \in Keys :
    /\ Has(master, k)
    /\ master' = Delete(master, k)
    /\ replica' = Delete(replica, k)
    /\ dead' = dead \ {k} /\ UNCHANGED mix

(* The expire of k passes. *)
TimePasses(k) ==
    /\ master.ttl[k] /\ k \notin dead
    /\ dead' = dead \cup {k}
    /\ UNCHANGED <<master, replica, mix>>

Next ==
    \/ \E c \in Commands : Call(c)
    \/ \E k \in Keys : Read(k) \/ TimePasses(k)
    \/ ActiveExpireCycle
    \/ FreeMemoryIfNeeded

Spec == Init /\ [][Next]_vars

-----------------------------------------------------------------------------
(* The replica holds the same values as the master, lists in the same      *)
(* order, whatever the master chose at random, and an expire only where    *)
(* the master has one: what call() propagates, rewritten commands          *)
(* included, replays to the same data.                                     *)
KeyspaceAgrees ==
    /\ \A k \in Keys : /\ replica.val[k].type = master.val[k].type
                       /\ Has(master, k) => replica.val[k].content = master.val[k].content
    /\ \A k \in Keys : replica.ttl[k] => master.ttl[k]

(* No key holds a list, set or hash without elements, and no expire stays  *)
(* behind for a key that is gone, on either side: the commands that take   *)
(* elements out of an aggregate delete the key with the last one.          *)
NoEmptyAggregate == \A D \in {master, replica} : \A k \in Keys :
    /\ D.val[k].type \in {"list", "set", "hash"} => Size(D.val[k]) > 0
    /\ D.ttl[k] => Has(D, k)

(* A packed aggregate is within the configured limits, and an intset holds *)
(* integers only, whichever commands built it (setTypeAdd, hashTypeSet,    *)
(* listTypeTryConversion).                                                 *)
PackedWithinLimits == \A D \in {master, replica} : \A k \in Keys :
    D.val[k].type \in {"list", "set", "hash"} /\ D.val[k].packed =>
        IF Is(D, k, "set")
        THEN Size(D.val[k]) <= MaxIntset /\ \A e \in D.val[k].content : IsNumber(e)
        ELSE Size(D.val[k]) <= MaxPacked

(* Both, for every value *)
ValuesSound == NoEmptyAggregate /\ PackedWithinLimits

Differs(D, E, k) ==
    \/ D.val[k].type # E.val[k].type
    \/ Has(D, k) /\ D.val[k].content # E.val[k].content
ChangesOf(c) == \A r \in Outcomes(c, master) : \A k \in Keys :
    Differs(master, r.data, k) => k \in r.signalled

(* A key whose value is different after a command was signalled to the     *)
(* clients that watch it (signalModifiedKey); MOVE is the exception.       *)
EveryChangeSignalled == \A c \in Commands : c[1] # "MOVE" => ChangesOf(c)
=============================================================================
