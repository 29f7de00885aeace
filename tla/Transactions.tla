---------------------------- MODULE Transactions ----------------------------
(***************************************************************************)
(* MULTI, EXEC, DISCARD, WATCH and UNWATCH of the Redis server in          *)
(* redis-stable (src/multi.c), with what they rest on: the checks at the   *)
(* head of processCommand that may refuse a command, call and propagate,   *)
(* which feed the AOF and the slaves (src/redis.c), and the key space      *)
(* functions that touch watched keys, expire and evict (src/db.c).         *)
(* A key stands for a key of one database, so SELECT is left out; MONITOR, *)
(* statistics and the slow log are left out. The loop of execCommand is    *)
(* one step for each queued command; while it runs nothing else does.      *)
(***************************************************************************)
EXTENDS Naturals, Sequences, FiniteSets

CONSTANTS
    Clients,
    Keys,
    DbOf,       \* the database of each key
    Values,
    None,       \* no value, no client
    Commands,   \* the commands clients send, besides the five above
    Conditions, \* the conditions of the server that refuse commands
    MaxQueue    \* bound: commands in one transaction

Writes == {"set", "del", "flushdb", "flushall"}
Names == Writes \cup {"get", "unwatch", "bad"}

ASSUME TransactionsAssumption ==
    /\ None \notin Values /\ None \notin Clients
    /\ DOMAIN DbOf = Keys
    /\ Commands \subseteq [name : Names, key : Keys, val : Values]
    /\ Conditions \subseteq {"oom", "misconf", "noreplicas", "readonly", "noauth",
                             "masterdown", "loading", "slowscript"}
    /\ MaxQueue \in Nat

VARIABLES
    data,      \* db->dict: the value of each key, or None
    due,       \* keys in the dict whose time to live is over
    watchers,  \* db->watched_keys: the clients watching each key
    cl,        \* the clients: REDIS_MULTI, DIRTY_CAS, DIRTY_EXEC, mstate, watched_keys
    repl,      \* what the AOF and the slaves have been fed: the data, and
               \* whether a MULTI is open
    mode,      \* the condition the server is in, or "ok"
    running    \* the client whose EXEC is under way, or None

vars == <<data, due, watchers, cl, repl, mode, running>>

NewClient == [multi |-> FALSE, cas |-> FALSE, err |-> FALSE, queue |-> << >>, watched |-> {},
              stale |-> {}, refused |-> "no"]

(* Of a client, stale and refused are not in the code: the watched keys    *)
(* that a command has changed, and whether a command was refused while the *)
(* transaction was being queued: "partly" if only by a server that was     *)
(* loading or, a write, by one that was a read-only slave.                 *)
ClientState == [multi : BOOLEAN, cas : BOOLEAN, err : BOOLEAN, queue : Seq(Commands),
                watched : SUBSET Keys, stale : SUBSET Keys,
                refused : {"no", "partly", "yes"}]

(* The types; only a client in MULTI has commands queued or an error noted.*)
TypeOK ==
    /\ data \in [Keys -> Values \cup {None}]
    /\ due \subseteq {k \in Keys : data[k] # None}
    /\ watchers \in [Keys -> SUBSET Clients]
    /\ cl \in [Clients -> ClientState]
    /\ repl \in [data : [Keys -> Values \cup {None}], multi : BOOLEAN]
    /\ mode \in {"ok"} \cup Conditions
    /\ running \in Clients \cup {None}
    /\ \A c \in Clients : cl[c].err \/ cl[c].queue # << >> => cl[c].multi

(* The server has loaded what was on disk. *)
Init ==
    /\ data \in [Keys -> Values \cup {None}]
    /\ due = {}
    /\ watchers = [k \in Keys |-> {}]
    /\ cl = [c \in Clients |-> NewClient]
    /\ repl = [data |-> data, multi |-> FALSE]
    /\ mode = "ok"
    /\ running = None

-----------------------------------------------------------------------------
(* The commands themselves. *)

Existing == {k \in Keys : data[k] # None}
IsSlave == mode \in {"readonly", "masterdown"}

(* expireIfNeeded, which lookupKeyRead and lookupKeyWrite begin with; a    *)
(* slave leaves expiry to its master.                                      *)
Expired(cmd) ==
    IF cmd.name \in {"get", "set"} /\ ~IsSlave /\ mode # "loading" THEN {cmd.key} \cap due ELSE {}

Without(d, ks) == [k \in Keys |-> IF k \in ks THEN None ELSE d[k]]

InDb(cmd) == {k \in Keys : DbOf[k] = DbOf[cmd.key]}

(* What the command proc leaves of the data d. *)
Effect(d, cmd) ==
    CASE cmd.name = "set" -> [d EXCEPT ![cmd.key] = cmd.val]
      [] cmd.name = "del" -> Without(d, {cmd.key})
      [] cmd.name = "flushdb" -> Without(d, InDb(cmd))
      [] cmd.name = "flushall" -> Without(d, Keys)
      [] OTHER -> d

(* signalModifiedKey: setKey always, DEL for what was there. *)
Touched(cmd) ==
    CASE cmd.name = "set" -> {cmd.key}
      [] cmd.name = "del" -> {cmd.key} \cap Existing
      [] OTHER -> {}

(* touchWatchedKeysOnFlush: the keys that are about to go. *)
Flushed(cmd) ==
    CASE cmd.name = "flushdb" -> InDb(cmd) \cap Existing
      [] cmd.name = "flushall" -> Existing
      [] OTHER -> {}

(* Whether server.dirty grows; FLUSHALL counts even on an empty server. *)
Dirty(cmd) ==
    \/ cmd.name \in {"set", "flushall"}
    \/ cmd.name = "del" /\ cmd.key \in Existing
    \/ cmd.name = "flushdb" /\ Flushed(cmd) # {}

(* touchWatchedKey goes through the list of the key's watchers, the flush  *)
(* through the keys each client watches.                                   *)
IsTouched(d, cmd) ==
    \/ \E k \in Touched(cmd) : d \in watchers[k]
    \/ cl[d].watched \cap Flushed(cmd) # {}

Changed(cmd) ==
    LET before == Without(data, Expired(cmd)) IN {k \in Keys : Effect(before, cmd)[k] # before[k]}

(* The client after another client's, or its own, command. *)
Notified(d, cmd) ==
    [cl[d] EXCEPT !.cas = @ \/ IsTouched(d, cmd),
                  !.stale = @ \cup (cl[d].watched \cap Changed(cmd))]

(* call: the proc, then propagation of the command if it dirtied the data. *)
(* propagateExpire has fed a DEL for an expired key before.                *)
Call(cmd) ==
    /\ data' = Effect(Without(data, Expired(cmd)), cmd)
    /\ due' = {k \in due \ (Expired(cmd) \cup Touched(cmd)) : data'[k] # None}
    /\ LET fed == Without(repl.data, Expired(cmd)) IN
          repl' = [data |-> IF Dirty(cmd) THEN Effect(fed, cmd) ELSE fed,
                   multi |-> repl.multi \/ (running # None /\ cmd.name # "get" /\ cmd.name # "unwatch")]

-----------------------------------------------------------------------------
(* processCommand *)

(* The variant that forgets one of the checks that have to flag. *)
FlagsTransactionNotOom == mode \notin {"readonly", "loading", "oom"}

(* Whether the check that refuses a command calls flagTransaction. *)
FlagsTransaction == mode \notin {"readonly", "loading"}

Refuses(name) ==
    \/ mode = "oom" /\ name = "set"
    \/ mode \in {"misconf", "noreplicas", "readonly"} /\ name \in Writes
    \/ mode \in {"noauth", "masterdown", "loading", "slowscript"}

(* The history of refusals with this one. *)
RefusedAs(c, name) ==
    IF name # "bad" /\ mode \in {"readonly", "loading"} /\ cl[c].refused # "yes" THEN "partly"
    ELSE "yes"

(* A command is refused; unknown names and wrong arity come first. *)
Refuse(c, name) ==
    /\ running = None
    /\ name = "bad" \/ Refuses(name)
    /\ cl' = [cl EXCEPT ![c].err = @ \/ (cl[c].multi /\ (name = "bad" \/ FlagsTransaction)),
                        ![c].refused = IF cl[c].multi THEN RefusedAs(c, name) ELSE @]
    /\ UNCHANGED <<data, due, watchers, repl, mode, running>>

Accepts(name) == running = None /\ name # "bad" /\ ~Refuses(name)

(* queueMultiCommand *)
QueueCommand(c, cmd) ==
    /\ Accepts(cmd.name)
    /\ cl[c].multi
    /\ Len(cl[c].queue) < MaxQueue
    /\ cl' = [cl EXCEPT ![c].queue = Append(@, cmd)]
    /\ UNCHANGED <<data, due, watchers, repl, mode, running>>

(* A command outside a transaction. *)
Execute(c, cmd) ==
    /\ Accepts(cmd.name)
    /\ cmd.name # "unwatch"
    /\ ~cl[c].multi
    /\ Call(cmd)
    /\ cl' = [d \in Clients |-> Notified(d, cmd)]
    /\ UNCHANGED <<watchers, mode, running>>

-----------------------------------------------------------------------------
(* src/multi.c *)

(* A nested MULTI is an error that does not spoil the transaction. *)
Multi(c) ==
    /\ Accepts("multi")
    /\ ~cl[c].multi
    /\ cl' = [cl EXCEPT ![c].multi = TRUE]
    /\ UNCHANGED <<data, due, watchers, repl, mode, running>>

(* watchForKey; inside MULTI it is an error. *)
Watch(c, k) ==
    /\ Accepts("watch")
    /\ ~cl[c].multi
    /\ k \notin cl[c].watched
    /\ watchers' = [watchers EXCEPT ![k] = @ \cup {c}]
    /\ cl' = [cl EXCEPT ![c].watched = @ \cup {k}]
    /\ UNCHANGED <<data, due, repl, mode, running>>

(* unwatchAllKeys *)
Unlisted(c) == [k \in Keys |-> IF k \in cl[c].watched THEN watchers[k] \ {c} ELSE watchers[k]]

(* unwatchCommand, which is queued like others inside MULTI. *)
Unwatch(c) ==
    /\ Accepts("unwatch")
    /\ ~cl[c].multi
    /\ watchers' = Unlisted(c)
    /\ cl' = [cl EXCEPT ![c].watched = {}, ![c].stale = {}, ![c].cas = FALSE]
    /\ UNCHANGED <<data, due, repl, mode, running>>

(* discardTransaction leaves the client as new. *)
Discard(c) ==
    /\ Accepts("discard")
    /\ cl[c].multi
    /\ watchers' = Unlisted(c)
    /\ cl' = [cl EXCEPT ![c] = NewClient]
    /\ UNCHANGED <<data, due, repl, mode, running>>

(* EXEC of a transaction that was spoilt: DIRTY_CAS or DIRTY_EXEC. *)
ExecAborted(c) ==
    /\ Accepts("exec")
    /\ cl[c].multi
    /\ cl[c].cas \/ cl[c].err
    /\ watchers' = Unlisted(c)
    /\ cl' = [cl EXCEPT ![c] = NewClient]
    /\ UNCHANGED <<data, due, repl, mode, running>>

(* The variant that looks at DIRTY_EXEC only. *)
ExecStartUnchecked(c) ==
    /\ Accepts("exec")
    /\ cl[c].multi
    /\ ~cl[c].err
    /\ running' = c
    /\ watchers' = Unlisted(c)
    /\ cl' = [cl EXCEPT ![c].watched = {}, ![c].stale = {}]
    /\ UNCHANGED <<data, due, repl, mode>>

ExecStart(c) ==
    /\ Accepts("exec")
    /\ cl[c].multi
    /\ ~cl[c].cas /\ ~cl[c].err
    /\ running' = c
    /\ watchers' = Unlisted(c)
    /\ cl' = [cl EXCEPT ![c].watched = {}, ![c].stale = {}]
    /\ UNCHANGED <<data, due, repl, mode>>

(* One turn of the loop. MULTI is fed before the first command that is not *)
(* flagged read-only. The condition of the server is not looked at again.  *)
ExecCommand(c) ==
    /\ running = c
    /\ cl[c].queue # << >>
    /\ LET cmd == Head(cl[c].queue) IN
          /\ Call(cmd)
          /\ cl' = [d \in Clients |->
                      IF d = c THEN [Notified(d, cmd) EXCEPT !.queue = Tail(@)] ELSE Notified(d, cmd)]
    /\ UNCHANGED <<watchers, mode, running>>

(* The variant without the server.dirty++ that makes call propagate EXEC.  *)
ExecEndNotDirty(c) ==
    /\ running = c
    /\ cl[c].queue = << >>
    /\ cl' = [cl EXCEPT ![c] = NewClient]
    /\ running' = None
    /\ UNCHANGED <<data, due, watchers, repl, mode>>

(* The end: discardTransaction, and EXEC is fed if MULTI was. *)
ExecEnd(c) ==
    /\ running = c
    /\ cl[c].queue = << >>
    /\ cl' = [cl EXCEPT ![c] = NewClient]
    /\ repl' = [repl EXCEPT !.multi = FALSE]
    /\ running' = None
    /\ UNCHANGED <<data, due, watchers, mode>>

-----------------------------------------------------------------------------
(* The rest of the server. *)

(* freeClient; a new client takes its place. *)
Disconnect(c) ==
    /\ running = None
    /\ watchers' = Unlisted(c)
    /\ cl' = [cl EXCEPT ![c] = NewClient]
    /\ UNCHANGED <<data, due, repl, mode, running>>

(* The time to live of a key ends. *)
Elapse(k) ==
    /\ running = None
    /\ k \in Existing \ due
    /\ due' = due \cup {k}
    /\ UNCHANGED <<data, watchers, cl, repl, mode, running>>

(* Deleted with a DEL fed to the AOF and the slaves, watchers untouched. *)
Reclaim(k) ==
    /\ running = None
    /\ data' = Without(data, {k})
    /\ due' = due \ {k}
    /\ repl' = [repl EXCEPT !.data = Without(@, {k})]
    /\ UNCHANGED <<watchers, cl, mode, running>>

(* activeExpireCycle, which serverCron runs on a master. *)
ActiveExpire(k) == k \in due /\ ~IsSlave /\ Reclaim(k)

(* freeMemoryIfNeeded, at the head of any client's processCommand, slave   *)
(* or not; which key goes is up to the policy.                             *)
Evict(k) == k \in Existing /\ Reclaim(k)

(* Memory fills up, a save fails, slaves go, SLAVEOF, a script hangs. *)
ChangeMode(m) ==
    /\ running = None
    /\ mode # m
    /\ mode' = m
    /\ UNCHANGED <<data, due, watchers, cl, repl, running>>

ClientStep(c) ==
    \/ \E cmd \in Commands : QueueCommand(c, cmd) \/ Execute(c, cmd) \/ Refuse(c, cmd.name)
    \/ \E name \in {"multi", "exec", "discard", "watch"} : Refuse(c, name)
    \/ \E k \in Keys : Watch(c, k)
    \/ Multi(c) \/ Unwatch(c) \/ Discard(c)
    \/ ExecAborted(c) \/ ExecStart(c) \/ ExecCommand(c) \/ ExecEnd(c)
    \/ Disconnect(c)

Next ==
    \/ \E c \in Clients : ClientStep(c)
    \/ \E k \in Keys : Elapse(k) \/ ActiveExpire(k) \/ Evict(k)
    \/ \E m \in {"ok"} \cup Conditions : ChangeMode(m)

Spec == Init /\ [][Next]_vars

-----------------------------------------------------------------------------
(* The two sides of WATCH agree: a key lists exactly the clients that have *)
(* it in their list, through EXEC, DISCARD and disconnections. unwatch-    *)
(* AllKeys asserts one half of it, touchWatchedKey relies on the other.    *)
WatchersMatch == \A k \in Keys : watchers[k] = {c \in Clients : k \in cl[c].watched}

(* A client whose watched key was changed by a command, of any client, is  *)
(* flagged DIRTY_CAS from then on.                                         *)
StaleIsDirty == \A c \in Clients : cl[c].stale # {} => cl[c].cas

(* EXEC runs its commands only if no command has changed a key the client  *)
(* watches, since it watched it (keys lost to expiry or eviction do not    *)
(* count).                                                                 *)
ExecOnFreshKeys ==
    [][\A c \in Clients : running = None /\ running' = c => cl[c].stale = {}]_vars

(* Between commands and transactions the AOF and the slaves have been fed  *)
(* what gives them the same data, and no MULTI is left open on the link.   *)
ReplicaAgrees == running = None => repl.data = data /\ ~repl.multi

(* multi.c: DIRTY_EXEC should be set "every time there is an error while   *)
(* queueing a command", so that no transaction runs without one of its     *)
(* commands.                                                               *)
RefusedIsFlagged == \A c \in Clients : cl[c].multi /\ cl[c].refused # "no" => cl[c].err

(* It is set every time but when a read-only slave refuses a write or a    *)
(* server that is loading a command, whatever the conditions before and    *)
(* after that one, and stays set until EXEC or DISCARD.                    *)
RefusalNoted == \A c \in Clients : cl[c].multi /\ cl[c].refused = "yes" => cl[c].err

(* What EXEC goes by is right: the two sides of WATCH agree, a client      *)
(* whose watched key a command changed is DIRTY_CAS, and one of whose      *)
(* commands was refused, other than for those two reasons, is DIRTY_EXEC.  *)
FlagsSound == WatchersMatch /\ StaleIsDirty /\ RefusalNoted
=============================================================================
