-------------------------- MODULE ClientUnblocking --------------------------
(***************************************************************************)
(* What becomes of a Redis client once it is unblocked. Unblocking puts it *)
(* at the end of server.unblocked_clients with the flag REDIS_UNBLOCKED    *)
(* (src/t_list.c); before the event loop sleeps again, beforeSleep takes   *)
(* the clients off one by one and processes what is left in their input    *)
(* buffers (src/redis.c); freeClient (src/networking.c) takes a flagged    *)
(* client off when it goes. In one iteration of the event loop the socket  *)
(* of a client is read once, and the commands read are processed until one *)
(* blocks. Which lists the clients block on is module BlockingLists.       *)
(***************************************************************************)
EXTENDS Naturals, Sequences, SequencesExt

CONSTANTS Clients, None

VARIABLES
    cl,         \* clients: connected, REDIS_BLOCKED, REDIS_UNBLOCKED, data in querybuf
    unblocked,  \* server.unblocked_clients
    phase,      \* of an iteration: file "events", then "cron", then "drain" in
                \* beforeSleep
    cur,        \* the client whose input buffer is being processed, or None
    done,       \* clients whose socket was read in this iteration
    twice       \* history: clients that were, in this iteration, unblocked while
                \* on the list

vars == <<cl, unblocked, phase, cur, done, twice>>

NewClient == [conn |-> TRUE, blocked |-> FALSE, unb |-> FALSE, buf |-> FALSE]
Gone == [NewClient EXCEPT !.conn = FALSE]

(* The types; a blocked client is connected, and one that is processed is  *)
(* connected and not blocked.                                              *)
TypeOK ==
    /\ cl \in [Clients -> [conn : BOOLEAN, blocked : BOOLEAN, unb : BOOLEAN, buf : BOOLEAN]]
    /\ unblocked \in Seq(Clients)
    /\ phase \in {"events", "cron", "drain"}
    /\ done \subseteq Clients /\ twice \subseteq Clients
    /\ \A c \in Clients : cl[c].blocked => cl[c].conn
    /\ cur = None \/ (cl[cur].conn /\ ~cl[cur].blocked)

Init ==
    /\ cl = [c \in Clients |-> NewClient]
    /\ unblocked = << >>
    /\ phase = "events"
    /\ cur = None
    /\ done = {}
    /\ twice = {}

-----------------------------------------------------------------------------
(* readQueryFromClient; the data of a blocked client stays in its buffer.  *)
Read(c) ==
    /\ phase = "events" /\ cur = None
    /\ cl[c].conn /\ c \notin done
    /\ done' = done \cup {c}
    /\ cur' = IF cl[c].blocked THEN None ELSE c
    /\ cl' = [cl EXCEPT ![c].buf = cl[c].blocked]
    /\ UNCHANGED <<unblocked, phase, twice>>

(* unblockClientWaitingData *)
Unblock(d) ==
    /\ cl' = [cl EXCEPT ![d].blocked = FALSE, ![d].unb = TRUE]
    /\ unblocked' = Append(unblocked, d)
    /\ twice' = IF cl[d].unb THEN twice \cup {d} ELSE twice

(* The client being processed sends a BLPOP that blocks; more may follow   *)
(* in its buffer.                                                          *)
Block(more) ==
    /\ cur # None
    /\ cl' = [cl EXCEPT ![cur].blocked = TRUE, ![cur].buf = more]
    /\ cur' = None
    /\ UNCHANGED <<unblocked, phase, done, twice>>

(* It pushes, and d is served. *)
Serve(d) ==
    /\ cur # None
    /\ cl[d].blocked
    /\ Unblock(d)
    /\ UNCHANGED <<phase, cur, done>>

(* Its input buffer is processed to the end. *)
Processed ==
    /\ cur # None
    /\ cur' = None
    /\ UNCHANGED <<cl, unblocked, phase, done, twice>>

(* The variant that does not take the client off the list. *)
FreeListed(d) ==
    /\ cl' = [cl EXCEPT ![d] = Gone]
    /\ UNCHANGED <<unblocked, twice>>

(* freeClient: a blocked client is unblocked first, which puts it on the   *)
(* list; then the flag says to take it off.                                *)
Free(d) ==
    /\ cl' = [cl EXCEPT ![d] = Gone]
    /\ twice' = IF cl[d].blocked /\ cl[d].unb THEN twice \cup {d} ELSE twice
    /\ LET listed == IF cl[d].blocked THEN Append(unblocked, d) ELSE unblocked IN
          unblocked' = IF cl[d].blocked \/ cl[d].unb THEN RemoveFirst(listed, d) ELSE listed

(* CLIENT KILL of another client. *)
Kill(d) ==
    /\ cur # None /\ d # cur
    /\ cl[d].conn
    /\ Free(d)
    /\ UNCHANGED <<phase, cur, done>>

(* Reading the socket finds that the connection has ended. *)
Disconnect(d) ==
    /\ phase = "events" /\ cur = None
    /\ cl[d].conn /\ d \notin done
    /\ Free(d)
    /\ UNCHANGED <<phase, cur, done>>

(* serverCron: an idle client, or one scheduled by freeClientAsync. *)
Close(d) ==
    /\ phase = "cron"
    /\ cl[d].conn
    /\ Free(d)
    /\ UNCHANGED <<phase, cur, done>>

(* clientsCron: the timeout of a blocked client. *)
Timeout(d) ==
    /\ phase = "cron"
    /\ cl[d].blocked
    /\ Unblock(d)
    /\ UNCHANGED <<phase, cur, done>>

Connect(d) ==
    /\ phase = "events" /\ cur = None
    /\ ~cl[d].conn /\ d \notin ToSet(unblocked)
    /\ cl' = [cl EXCEPT ![d] = NewClient]
    /\ done' = done \cup {d}
    /\ UNCHANGED <<unblocked, phase, cur, twice>>

-----------------------------------------------------------------------------
(* beforeSleep *)

(* Time events come after the file events, beforeSleep after both. *)
NextPhase ==
    /\ phase # "drain" /\ cur = None
    /\ phase' = IF phase = "events" THEN "cron" ELSE "drain"
    /\ UNCHANGED <<cl, unblocked, cur, done, twice>>

(* One turn of the loop: processInputBuffer, which a client that is        *)
(* blocked again leaves at once, has cur process the rest of its buffer.   *)
NextUnblocked ==
    /\ phase = "drain" /\ cur = None
    /\ unblocked # << >>
    /\ LET c == Head(unblocked) IN
          /\ cur' = IF cl[c].buf /\ ~cl[c].blocked THEN c ELSE None
          /\ cl' = [cl EXCEPT ![c].unb = FALSE, ![c].buf = @ /\ cl[c].blocked]
    /\ unblocked' = Tail(unblocked)
    /\ UNCHANGED <<phase, done, twice>>

(* The list is empty: the loop sleeps and the next iteration begins. *)
Sleep ==
    /\ phase = "drain" /\ cur = None
    /\ unblocked = << >>
    /\ phase' = "events"
    /\ done' = {}
    /\ twice' = {}
    /\ UNCHANGED <<cl, unblocked, cur>>

Next ==
    \/ \E c \in Clients : Read(c) \/ Serve(c) \/ Kill(c) \/ Disconnect(c) \/ Close(c) \/ Timeout(c) \/ Connect(c)
    \/ \E more \in BOOLEAN : Block(more)
    \/ Processed \/ NextPhase \/ NextUnblocked \/ Sleep

Spec == Init /\ [][Next]_vars

-----------------------------------------------------------------------------
(* networking.c: a client that goes is removed "from the list of unblocked *)
(* clients", so beforeSleep never meets a client that was freed. The       *)
(* exception is a client that was unblocked while still on the list: it is *)
(* there twice, and freeClient removes it once.                            *)
FreedNotListed ==
    \A i \in 1..Len(unblocked) : cl[unblocked[i]].conn \/ unblocked[i] \in twice

(* redis.h: REDIS_UNBLOCKED marks a client that "was unblocked and is      *)
(* stored in server.unblocked_clients". The same exception: beforeSleep    *)
(* takes the flag off with the first of the two entries.                   *)
FlagMeansListed ==
    \A c \in Clients \ twice : cl[c].unb <=> c \in ToSet(unblocked)
=============================================================================
