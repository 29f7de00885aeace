--------------------------- MODULE BlockingLists ----------------------------
(***************************************************************************)
(* BLPOP, BRPOP and BRPOPLPUSH (src/t_list.c of redis-stable), which is    *)
(* how Sidekiq's threads wait for jobs. A client blocks on keys that hold  *)
(* no list; a command that creates a list on such a key queues the key in  *)
(* server.ready_keys, and when the command, MULTI/EXEC block or script is  *)
(* over handleClientsBlockedOnLists serves the waiting clients in turn.    *)
(* Serving a BRPOPLPUSH pushes, which can make further keys ready. The     *)
(* server is one thread: while it serves, or runs a block of commands,     *)
(* nothing else happens; each turn of those loops is a step here. What     *)
(* becomes of a client after it is unblocked is module ClientUnblocking.   *)
(* One database; elements are numbered as they are pushed.                 *)
(***************************************************************************)
EXTENDS Integers, Sequences, FiniteSets, SequencesExt

CONSTANTS
    Clients, Keys,
    Waits,      \* the lists of keys clients block on
    None,       \* no client, no key, no target
    Str,        \* a value that is not a list
    MaxPush     \* bound: elements pushed

Ends == {"head", "tail"}

(* What the constants are *)
BlockingAssumption ==
    /\ Waits \subseteq Seq(Keys)
    /\ None \notin Clients /\ None \notin Keys /\ None # "gone"
    /\ Str \notin Seq(Nat)
    /\ MaxPush \in Nat

VARIABLES
    db,         \* each key: its list, << >> for no key, or Str
    repl,       \* the same as the AOF and the slaves have been told
    blocking,   \* db->blocking_keys: the clients waiting for each key
    readyDict,  \* db->ready_keys
    ready,      \* server.ready_keys
    serve,      \* handleClientsBlockedOnLists: the list it runs, the key and
                \* the clients still to be looked at
    cl,         \* clients: bpop.keys, bpop.target, the end they pop
    batch,      \* the client whose MULTI/EXEC block runs, or None
    pushed,     \* elements pushed so far
    out,        \* each element: the client it was popped for, "gone" with a
                \* deleted key, or None
    renamed     \* history: keys whose list came by a RENAME and is there yet

vars == <<db, repl, blocking, readyDict, ready, serve, cl, batch, pushed, out, renamed>>

Off == [on |-> FALSE, local |-> << >>, key |-> None, left |-> 0]
NotBlocked == [keys |-> {}, target |-> None, end |-> "tail"]
Blocked(c) == cl[c].keys # {}
IsList(k) == db[k] # Str /\ db[k] # << >>

(* The types; db->ready_keys holds the keys that are queued to be served,  *)
(* each queued once.                                                       *)
TypeOK ==
    /\ \A k \in Keys : db[k] = Str \/ db[k] \in Seq(1..MaxPush)
    /\ \A k \in Keys : blocking[k] \in Seq(Clients)
    /\ \A c \in Clients : cl[c] \in [keys : SUBSET Keys, target : Keys \cup {None}, end : Ends]
    /\ batch \in Clients \cup {None}
    /\ pushed \in 0..MaxPush
    /\ LET queued == ready \o IF serve.key = None THEN serve.local ELSE Tail(serve.local) IN
          readyDict = ToSet(queued) /\ IsInjective(queued)

Init ==
    /\ db = [k \in Keys |-> << >>]
    /\ repl = db
    /\ blocking = [k \in Keys |-> << >>]
    /\ readyDict = {} /\ ready = << >>
    /\ serve = Off
    /\ cl = [c \in Clients |-> NotBlocked]
    /\ batch = None
    /\ pushed = 0
    /\ out = [e \in 1..MaxPush |-> None]
    /\ renamed = {}

-----------------------------------------------------------------------------
(* Lists and their two ends. *)

Push(d, k, e, end) == [d EXCEPT ![k] = IF end = "head" THEN <<e>> \o @ ELSE Append(@, e)]
Pop(d, k, end) == [d EXCEPT ![k] = IF end = "head" THEN Tail(@) ELSE Front(@)]
Popped(k, end) == IF end = "head" THEN Head(db[k]) ELSE Last(db[k])

KeepRenamed == renamed' = {k \in renamed : db'[k] # << >> /\ db'[k] # Str}

(* Client c may have a command processed. *)
MayRun(c) ==
    /\ ~serve.on /\ ~Blocked(c)
    /\ batch \in {None, c}

(* What follows a command in processCommand: the keys that are ready are   *)
(* served, unless the command is one of a block.                           *)
AfterCommand == serve' = IF batch = None /\ ready' # << >> THEN [Off EXCEPT !.on = TRUE] ELSE Off

(* signalListAsReady, called when a list was created under key k: the key  *)
(* is queued if it has waiting clients and is not queued yet.              *)
SignalReady(k, created) ==
    IF created /\ blocking[k] # << >> /\ k \notin readyDict
    THEN readyDict' = readyDict \cup {k} /\ ready' = Append(ready, k)
    ELSE UNCHANGED <<readyDict, ready>>

(* unblockClientWaitingData takes the client off the list of every key. *)
WithoutClient(c) ==
    [q \in Keys |-> IF q \in cl[c].keys THEN RemoveFirst(blocking[q], c) ELSE blocking[q]]

Unblock(c) ==
    /\ blocking' = WithoutClient(c)
    /\ cl' = [cl EXCEPT ![c] = NotBlocked]

-----------------------------------------------------------------------------
(* Commands *)

(* LPUSH and RPUSH of one element. Only a push that creates the list       *)
(* signals the key.                                                        *)
PushCommand(c, k, end) ==
    /\ MayRun(c)
    /\ db[k] # Str
    /\ pushed < MaxPush
    /\ pushed' = pushed + 1
    /\ SignalReady(k, db[k] = << >>)
    /\ db' = Push(db, k, pushed + 1, end)
    /\ repl' = Push(repl, k, pushed + 1, end)
    /\ AfterCommand
    /\ KeepRenamed
    /\ UNCHANGED <<blocking, cl, batch, out>>

(* blockForKeys *)
BlockForKeys(c, ks, target, end) ==
    /\ batch = None
    /\ blocking' = [k \in Keys |-> IF k \in ks THEN Append(blocking[k], c) ELSE blocking[k]]
    /\ cl' = [cl EXCEPT ![c].keys = ks, ![c].target = target, ![c].end = end]
    /\ UNCHANGED <<db, repl, readyDict, ready, serve, batch, pushed, out, renamed>>

(* BLPOP and BRPOP: the first of the keys that exists decides. In a block  *)
(* with no list to pop the command is over, as after a timeout.            *)
BlockingPop(c, ks, end) ==
    /\ MayRun(c)
    /\ \/ /\ \A i \in 1..Len(ks) : db[ks[i]] = << >>
          /\ BlockForKeys(c, ToSet(ks), None, end)
       \/ \E i \in 1..Len(ks) :
            /\ IsList(ks[i])
            /\ \A j \in 1..(i - 1) : db[ks[j]] = << >>
            /\ db' = Pop(db, ks[i], end)
            /\ repl' = Pop(repl, ks[i], end)
            /\ out' = [out EXCEPT ![Popped(ks[i], end)] = c]
            /\ KeepRenamed
            /\ UNCHANGED <<blocking, readyDict, ready, serve, cl, batch, pushed>>

(* BRPOPLPUSH, which is RPOPLPUSH when there is something to pop. *)
Brpoplpush(c, src, dst) ==
    /\ MayRun(c)
    /\ \/ db[src] = << >> /\ BlockForKeys(c, {src}, dst, "tail")
       \/ /\ IsList(src) /\ db[dst] # Str
          /\ SignalReady(dst, db[dst] = << >>)
          /\ db' = Push(Pop(db, src, "tail"), dst, Last(db[src]), "head")
          /\ repl' = Push(Pop(repl, src, "tail"), dst, Last(repl[src]), "head")
          /\ AfterCommand
          /\ KeepRenamed
          /\ UNCHANGED <<blocking, cl, batch, pushed, out>>

Elements(k) == IF IsList(k) THEN ToSet(db[k]) ELSE {}

(* DEL, and SET, which replaces whatever the key held. *)
Overwrite(c, k, v) ==
    /\ MayRun(c)
    /\ db[k] # v
    /\ db' = [db EXCEPT ![k] = v]
    /\ repl' = [repl EXCEPT ![k] = v]
    /\ out' = [e \in 1..MaxPush |-> IF e \in Elements(k) THEN "gone" ELSE out[e]]
    /\ KeepRenamed
    /\ UNCHANGED <<blocking, readyDict, ready, serve, cl, batch, pushed>>

(* RENAME: dbAdd puts the list under the new name without any signal. *)
Rename(c, src, dst) ==
    /\ MayRun(c)
    /\ src # dst /\ db[src] # << >>
    /\ db' = [db EXCEPT ![dst] = db[src], ![src] = << >>]
    /\ repl' = [repl EXCEPT ![dst] = repl[src], ![src] = << >>]
    /\ out' = [e \in 1..MaxPush |-> IF e \in Elements(dst) THEN "gone" ELSE out[e]]
    /\ renamed' = {k \in renamed \cup {dst} : db'[k] # << >> /\ db'[k] # Str}
    /\ UNCHANGED <<blocking, readyDict, ready, serve, cl, batch, pushed>>

(* A MULTI/EXEC block or a script, and its end. *)
BeginBatch(c) ==
    /\ MayRun(c) /\ batch = None
    /\ batch' = c
    /\ UNCHANGED <<db, repl, blocking, readyDict, ready, serve, cl, pushed, out, renamed>>

EndBatch(c) ==
    /\ batch = c
    /\ batch' = None
    /\ serve' = IF ready # << >> THEN [Off EXCEPT !.on = TRUE] ELSE Off
    /\ UNCHANGED <<db, repl, blocking, readyDict, ready, cl, pushed, out, renamed>>

-----------------------------------------------------------------------------
(* handleClientsBlockedOnLists *)

(* The outer loop: a fresh list is put in place and the old one run, until *)
(* it is empty.                                                            *)
TakeReady ==
    /\ serve.on /\ serve.local = << >>
    /\ serve' = IF ready = << >> THEN Off ELSE [serve EXCEPT !.local = ready]
    /\ ready' = << >>
    /\ UNCHANGED <<db, repl, blocking, readyDict, cl, batch, pushed, out, renamed>>

(* The next key; it may have gone, or changed its type, since it was       *)
(* queued.                                                                 *)
NextKey ==
    /\ serve.local # << >> /\ serve.key = None
    /\ LET k == Head(serve.local) IN
          /\ readyDict' = readyDict \ {k}
          /\ serve' = IF IsList(k) THEN [serve EXCEPT !.key = k, !.left = Len(blocking[k])]
                      ELSE [serve EXCEPT !.local = Tail(@)]
    /\ UNCHANGED <<db, repl, blocking, ready, cl, batch, pushed, out, renamed>>

(* The variant that does not propagate the pop. *)
ServePopUntold(c, k) ==
    /\ cl[c].target = None
    /\ db' = Pop(db, k, cl[c].end)
    /\ out' = [out EXCEPT ![Popped(k, cl[c].end)] = c]
    /\ UNCHANGED <<repl, readyDict, ready>>

(* serveClientBlockedOnList, for BLPOP and BRPOP. *)
ServePop(c, k) ==
    /\ cl[c].target = None
    /\ db' = Pop(db, k, cl[c].end)
    /\ repl' = Pop(repl, k, cl[c].end)
    /\ out' = [out EXCEPT ![Popped(k, cl[c].end)] = c]
    /\ UNCHANGED <<readyDict, ready>>

(* The variant that pushes without a signal. *)
ServePushSilent(c, k) ==
    /\ cl[c].target # None
    /\ db[cl[c].target] # Str
    /\ db' = Push(Pop(db, k, "tail"), cl[c].target, Last(db[k]), "head")
    /\ repl' = Push(Pop(repl, k, "tail"), cl[c].target, Last(db[k]), "head")
    /\ UNCHANGED <<readyDict, ready, out>>

(* For BRPOPLPUSH. The list being served is there even when it is empty.   *)
ServePush(c, k) ==
    /\ cl[c].target # None
    /\ LET dst == cl[c].target
           e == Last(db[k]) IN
          /\ db[dst] # Str
          /\ SignalReady(dst, db[dst] = << >> /\ dst # k)
          /\ db' = Push(Pop(db, k, "tail"), dst, e, "head")
          /\ repl' = Push(Pop(repl, k, "tail"), dst, e, "head")
    /\ UNCHANGED out

(* The variant that does not push the element back. *)
ServeFailedPopped(c, k) ==
    /\ cl[c].target # None /\ db[cl[c].target] = Str
    /\ db' = Pop(db, k, "tail")
    /\ UNCHANGED <<repl, readyDict, ready, out>>

(* BRPOPLPUSH onto something else than a list: the client gets an error    *)
(* and the element is pushed back.                                         *)
ServeFailed(c, k) ==
    /\ cl[c].target # None /\ db[cl[c].target] = Str
    /\ UNCHANGED <<db, repl, readyDict, ready, out>>

(* The inner loop goes on while there are clients and elements. *)
ServeClient ==
    /\ serve.key # None
    /\ serve.left > 0 /\ db[serve.key] # << >>
    /\ LET k == serve.key
           c == Head(blocking[k]) IN
          /\ Unblock(c)
          /\ ServePop(c, k) \/ ServePush(c, k) \/ ServeFailed(c, k)
    /\ serve' = [serve EXCEPT !.left = @ - 1]
    /\ KeepRenamed
    /\ UNCHANGED <<batch, pushed>>

KeyServed ==
    /\ serve.key # None
    /\ serve.left = 0 \/ db[serve.key] = << >>
    /\ serve' = [serve EXCEPT !.key = None, !.left = 0, !.local = Tail(@)]
    /\ UNCHANGED <<db, repl, blocking, readyDict, ready, cl, batch, pushed, out, renamed>>

-----------------------------------------------------------------------------
(* The timeout of a blocked client (clientsCron), or its end (freeClient). *)

Quiet == ~serve.on /\ batch = None

GiveUp(c) ==
    /\ Quiet
    /\ Blocked(c)
    /\ Unblock(c)
    /\ UNCHANGED <<db, repl, readyDict, ready, serve, batch, pushed, out, renamed>>

Serving == TakeReady \/ NextKey \/ ServeClient \/ KeyServed

Next ==
    \/ \E c \in Clients, k \in Keys :
          \/ \E end \in Ends : PushCommand(c, k, end)
          \/ \E dst \in Keys : Brpoplpush(c, k, dst) \/ Rename(c, k, dst)
          \/ \E v \in {<< >>, Str} : Overwrite(c, k, v)
    \/ \E c \in Clients :
          \/ \E ks \in Waits, end \in Ends : BlockingPop(c, ks, end)
          \/ BeginBatch(c) \/ EndBatch(c) \/ GiveUp(c)
    \/ Serving

Spec == Init /\ [][Next]_vars

-----------------------------------------------------------------------------
(* The two sides of a block agree: each key's list has exactly the clients *)
(* with the key in bpop.keys, each once. unblockClientWaitingData asserts  *)
(* that it finds the client there.                                         *)
BlockedMatch ==
    \A k \in Keys : /\ ToSet(blocking[k]) = {c \in Clients : k \in cl[c].keys}
                    /\ IsInjective(blocking[k])

(* When the server is done with a command, no client waits on a key that   *)
(* has elements, whatever order of pushes, blocks and BRPOPLPUSHes led     *)
(* there. The exception is a list that a RENAME put under the key:         *)
(* renameGenericCommand does not mark the key ready, nor do the pushes     *)
(* that follow, as they find a list.                                       *)
NoneStarved ==
    Quiet => \A k \in Keys \ renamed : IsList(k) => blocking[k] = << >>

(* The places in the lists, and those where e is *)
Places == UNION {{k} \X DOMAIN db[k] : k \in {q \in Keys : IsList(q)}}
PlacesOf(e) == {p \in Places : db[p[1]][p[2]] = e}

(* Every element that was pushed is in one list at one place, or was given *)
(* to one client, or went with a deleted key.                              *)
EveryElementOnce ==
    \A e \in 1..pushed : Cardinality(PlacesOf(e)) = IF out[e] = None THEN 1 ELSE 0

(* The pops and pushes told to the AOF and the slaves give them the lists  *)
(* the server has, a BRPOPLPUSH that failed included.                      *)
ReplicaAgrees == repl = db
=============================================================================
