------------------------------ MODULE MCClients ------------------------------
(***************************************************************************)
(* The TLC instance of what the server does with clients that wait.  A     *)
(* behaviour is one of the blocking lists, of the event loop's list of     *)
(* unblocked clients or of publish and subscribe, as part says; the others *)
(* stay where they began.                                                  *)
(***************************************************************************)
EXTENDS Integers, TLC

CONSTANTS
    Clients, None, Str, Keys, Waits, MaxPush,
    Subscribers, Channels, Patterns, Matching, HardLimit, MaxMessages

(* Lists of keys to wait for: both keys, and one of them *)
MCWaits ==
    LET a == CHOOSE k \in Keys : TRUE
        b == CHOOSE k \in Keys \ {a} : TRUE IN {<<a, b>>, <<b>>}

(* Every pattern matches every channel *)
MCMatching == Patterns \X Channels

VARIABLES
    part,
    db, repl, blocking, readyDict, ready, serve, waiter, batch, pushed, out, renamed,
    conn, unblocked, phase, cur, done, twice,
    chans, pats, subs, patSubs, queue, read, owed, status, published

B == INSTANCE BlockingLists WITH cl <- waiter

U == INSTANCE ClientUnblocking WITH cl <- conn

P == INSTANCE PubSub WITH out <- queue, due <- owed

ASSUME ListsAssumption == B!BlockingAssumption

listVars == <<db, repl, blocking, readyDict, ready, serve, waiter, batch, pushed, out, renamed>>
loopVars == <<conn, unblocked, phase, cur, done, twice>>
pubsubVars == <<chans, pats, subs, patSubs, queue, read, owed, status, published>>
allVars == <<part, listVars, loopVars, pubsubVars>>

ClientsInit ==
    /\ part \in {"lists", "loop", "pubsub"}
    /\ B!Init /\ U!Init /\ P!Init

ClientsNext ==
    /\ \/ part = "lists" /\ B!Next /\ UNCHANGED <<loopVars, pubsubVars>>
       \/ part = "loop" /\ U!Next /\ UNCHANGED <<listVars, pubsubVars>>
       \/ part = "pubsub" /\ P!Next /\ UNCHANGED <<listVars, loopVars>>
    /\ UNCHANGED part

ClientsSpec == ClientsInit /\ [][ClientsNext]_allVars

Symmetry == Permutations(Clients)

-----------------------------------------------------------------------------
(* BlockingLists: the lists of waiting clients and what clients wait for   *)
(* agree, and nobody waits for a list that has elements.                   *)
NoneStarved == B!BlockedMatch /\ B!NoneStarved

(* BlockingLists: no element is lost or delivered twice.                   *)
EveryElementOnce == B!EveryElementOnce

(* BlockingLists: the replicas are told what was popped and pushed for     *)
(* clients that waited.                                                    *)
ListsReplicated == B!ReplicaAgrees

(* ClientUnblocking: the list of unblocked clients names no freed client,  *)
(* and REDIS_UNBLOCKED tells who is on it.                                 *)
FreedNotListed == U!FreedNotListed /\ U!FlagMeansListed

(* PubSub: the server's lists and the clients' own agree, and each message *)
(* comes once for each subscription, in order.                             *)
EveryMessageDue == P!SubscribersMatch /\ P!EveryMessageDue
=============================================================================
