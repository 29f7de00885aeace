------------------------- MODULE TransactionsProofs -------------------------
(***************************************************************************)
(* WATCH, MULTI and EXEC for any clients, keys, commands and conditions.   *)
(***************************************************************************)
EXTENDS Transactions, SequenceTheorems, TLAPS

Contents == [Keys -> Values \cup {None}]

-----------------------------------------------------------------------------
(* What the commands do to the data *)

LEMMA WithoutType ==
    ASSUME NEW d \in Contents, NEW ks
    PROVE  Without(d, ks) \in Contents
BY DEF Without, Contents

LEMMA CommandType ==
    ASSUME NEW cmd \in Commands
    PROVE  cmd.name \in Names /\ cmd.key \in Keys /\ cmd.val \in Values
BY TransactionsAssumption

LEMMA EffectType ==
    ASSUME NEW d \in Contents, NEW cmd \in Commands
    PROVE  Effect(d, cmd) \in Contents
<1>1. CASE cmd.name = "set"
  BY <1>1, CommandType DEF Effect, Contents
<1>2. CASE cmd.name # "set"
  BY <1>2, WithoutType DEF Effect
<1> QED BY <1>1, <1>2

(* A command that did not count in server.dirty has changed nothing. *)
LEMMA CleanChangesNothing ==
    ASSUME NEW d \in Contents, NEW cmd \in Commands, data \in Contents,
           d = Without(data, Expired(cmd)), ~Dirty(cmd)
    PROVE  Effect(d, cmd) = d
<1>1. cmd.name \notin {"set", "flushall"}
  BY DEF Dirty
<1>2. CASE cmd.name = "del"
  <2>1. d[cmd.key] = None
    BY <1>2, CommandType DEF Dirty, Existing, Without
  <2>2. \A k \in Keys : Without(d, {cmd.key})[k] = d[k]
    BY <2>1 DEF Without
  <2>3. Without(d, {cmd.key}) = d
    BY <2>2 DEF Without, Contents
  <2> QED BY <1>2, <2>3 DEF Effect
<1>3. CASE cmd.name = "flushdb"
  <2>1. Expired(cmd) = {} /\ InDb(cmd) \cap Existing = {}
    BY <1>3 DEF Expired, Dirty, Flushed
  <2>2. \A k \in Keys : Without(d, InDb(cmd))[k] = d[k]
    BY <2>1 DEF Without, Existing, InDb
  <2>3. Without(d, InDb(cmd)) = d
    BY <2>2 DEF Without, Contents
  <2> QED BY <1>3, <2>3 DEF Effect
<1>4. CASE cmd.name \notin {"del", "flushdb"}
  BY <1>1, <1>4 DEF Effect
<1> QED BY <1>2, <1>3, <1>4

(* A key that a command changed is signalled to its watchers or is among   *)
(* the keys of a flush.                                                    *)
LEMMA ChangedIsTouched ==
    ASSUME NEW cmd \in Commands, data \in Contents
    PROVE  Changed(cmd) \subseteq Touched(cmd) \cup Flushed(cmd)
<1> DEFINE before == Without(data, Expired(cmd))
<1>0. before \in Contents
  BY WithoutType
<1> SUFFICES ASSUME NEW k \in Keys, Effect(before, cmd)[k] # before[k]
             PROVE  k \in Touched(cmd) \cup Flushed(cmd)
  BY DEF Changed
<1>1. CASE cmd.name = "set"
  BY <1>0, <1>1 DEF Effect, Touched, Contents
<1>2. CASE cmd.name = "del"
  <2>1. before[k] # None /\ k = cmd.key
    BY <1>2 DEF Effect, Without
  <2>2. data[k] # None
    BY <2>1 DEF Without
  <2> QED BY <1>2, <2>1, <2>2 DEF Touched, Existing
<1>3. CASE cmd.name = "flushdb"
  <2>1. before[k] # None /\ k \in InDb(cmd)
    BY <1>3 DEF Effect, Without
  <2>2. data[k] # None
    BY <2>1 DEF Without
  <2> QED BY <1>3, <2>1, <2>2 DEF Flushed, Existing
<1>4. CASE cmd.name = "flushall"
  <2>1. before[k] # None
    BY <1>4 DEF Effect, Without
  <2>2. data[k] # None
    BY <2>1 DEF Without
  <2> QED BY <1>4, <2>1, <2>2 DEF Flushed, Existing
<1>5. CASE cmd.name \notin {"set", "del", "flushdb", "flushall"}
  BY <1>5 DEF Effect
<1> QED BY <1>1, <1>2, <1>3, <1>4, <1>5

-----------------------------------------------------------------------------
(* Types *)

LEMMA NewClientType == NewClient \in ClientState
BY DEF NewClient, ClientState

(* A step that changes one client only, to a well typed one. *)
LEMMA OneClient ==
    ASSUME cl \in [Clients -> ClientState], NEW c \in Clients, NEW r \in ClientState,
           cl' = [cl EXCEPT ![c] = r]
    PROVE  /\ cl' \in [Clients -> ClientState]
           /\ cl'[c] = r
           /\ \A d \in Clients : d # c => cl'[d] = cl[d]
OBVIOUS

LEMMA UnlistedType ==
    ASSUME TypeOK, NEW c \in Clients
    PROVE  Unlisted(c) \in [Keys -> SUBSET Clients]
BY DEF TypeOK, Unlisted

LEMMA NotifiedType ==
    ASSUME TypeOK, NEW d \in Clients, NEW cmd \in Commands
    PROVE  /\ Notified(d, cmd) \in ClientState
           /\ Notified(d, cmd).multi = cl[d].multi
           /\ Notified(d, cmd).err = cl[d].err
           /\ Notified(d, cmd).queue = cl[d].queue
           /\ Notified(d, cmd).watched = cl[d].watched
           /\ Notified(d, cmd).refused = cl[d].refused
           /\ Notified(d, cmd).cas = (cl[d].cas \/ IsTouched(d, cmd))
           /\ Notified(d, cmd).stale = cl[d].stale \cup (cl[d].watched \cap Changed(cmd))
<1>1. Changed(cmd) \subseteq Keys
  BY DEF Changed
<1>2. cl[d] \in ClientState
  BY DEF TypeOK
<1>3. IsTouched(d, cmd) \in BOOLEAN
  BY DEF IsTouched
<1> QED BY <1>1, <1>2, <1>3 DEF Notified, ClientState

LEMMA CallType ==
    ASSUME TypeOK, NEW cmd \in Commands, Call(cmd)
    PROVE  /\ data' \in Contents
           /\ due' \subseteq {k \in Keys : data'[k] # None}
           /\ repl' \in [data : Contents, multi : BOOLEAN]
<1>0. data \in Contents /\ repl \in [data : Contents, multi : BOOLEAN] /\ due \subseteq Keys
  BY DEF TypeOK, Contents
<1>1. data' \in Contents
  BY <1>0, WithoutType, EffectType DEF Call
<1>2. due' \subseteq {k \in Keys : data'[k] # None}
  BY <1>0 DEF Call
<1> DEFINE fed == Without(repl.data, Expired(cmd))
<1>3. fed \in Contents /\ Effect(fed, cmd) \in Contents
  BY <1>0, WithoutType, EffectType
<1>4. repl' \in [data : Contents, multi : BOOLEAN]
  BY <1>0, <1>3 DEF Call
<1> QED BY <1>1, <1>2, <1>4

LEMMA TypeStep == TypeOK /\ [Next]_vars => TypeOK'
<1> SUFFICES ASSUME TypeOK, [Next]_vars PROVE TypeOK'
  OBVIOUS
<1>0. /\ data \in Contents /\ due \subseteq {k \in Keys : data[k] # None}
      /\ watchers \in [Keys -> SUBSET Clients] /\ cl \in [Clients -> ClientState]
      /\ repl \in [data : Contents, multi : BOOLEAN] /\ mode \in {"ok"} \cup Conditions
      /\ running \in Clients \cup {None}
      /\ \A c \in Clients : cl[c].err \/ cl[c].queue # << >> => cl[c].multi
  BY DEF TypeOK, Contents
<1>1. ASSUME NEW c \in Clients, NEW name, Refuse(c, name) PROVE TypeOK'
  <2> DEFINE r == [cl[c] EXCEPT !.err = @ \/ (cl[c].multi /\ (name = "bad" \/ FlagsTransaction)),
                                !.refused = IF cl[c].multi THEN RefusedAs(c, name) ELSE @]
  <2>0. cl[c] \in ClientState /\ (cl[c].err \/ cl[c].queue # << >> => cl[c].multi)
    BY <1>0
  <2>a. RefusedAs(c, name) \in {"no", "partly", "yes"}
    BY DEF RefusedAs
  <2>1. r \in ClientState /\ (r.err \/ r.queue # << >> => r.multi)
    BY <2>0, <2>a DEF ClientState
  <2>2. cl' = [cl EXCEPT ![c] = r]
    BY <1>0, <1>1 DEF Refuse
  <2> HIDE DEF r
  <2> QED BY <1>0, <1>1, <2>1, <2>2, OneClient DEF Refuse, TypeOK, Contents
<1>2. ASSUME NEW c \in Clients, NEW cmd \in Commands, QueueCommand(c, cmd) PROVE TypeOK'
  <2> DEFINE r == [cl[c] EXCEPT !.queue = Append(@, cmd)]
  <2>0. cl[c] \in ClientState /\ cl[c].multi
    BY <1>0, <1>2 DEF QueueCommand
  <2>a. Append(cl[c].queue, cmd) \in Seq(Commands)
    BY <2>0 DEF ClientState
  <2>1. r \in ClientState /\ r.multi
    BY <2>0, <2>a DEF ClientState
  <2>2. cl' = [cl EXCEPT ![c] = r]
    BY <1>0, <1>2 DEF QueueCommand
  <2> HIDE DEF r
  <2> QED BY <1>0, <1>2, <2>1, <2>2, OneClient DEF QueueCommand, TypeOK, Contents
<1>3. ASSUME NEW c \in Clients, NEW cmd \in Commands, Execute(c, cmd) PROVE TypeOK'
  <2>1. Call(cmd) /\ cl' = [d \in Clients |-> Notified(d, cmd)] /\ UNCHANGED <<watchers, mode, running>>
    BY <1>3 DEF Execute
  <2> QED BY <1>0, <2>1, CallType, NotifiedType DEF TypeOK, Contents
<1>4. ASSUME NEW c \in Clients, Multi(c) PROVE TypeOK'
  <2> DEFINE r == [cl[c] EXCEPT !.multi = TRUE]
  <2>0. cl[c] \in ClientState
    BY <1>0
  <2>1. r \in ClientState /\ r.multi
    BY <2>0 DEF ClientState
  <2>2. cl' = [cl EXCEPT ![c] = r]
    BY <1>0, <1>4 DEF Multi
  <2> HIDE DEF r
  <2> QED BY <1>0, <1>4, <2>1, <2>2, OneClient DEF Multi, TypeOK, Contents
<1>5. ASSUME NEW c \in Clients, NEW k \in Keys, Watch(c, k) PROVE TypeOK'
  <2> DEFINE r == [cl[c] EXCEPT !.watched = @ \cup {k}]
  <2>0. cl[c] \in ClientState /\ (cl[c].err \/ cl[c].queue # << >> => cl[c].multi)
    BY <1>0
  <2>1. r \in ClientState /\ (r.err \/ r.queue # << >> => r.multi)
    BY <2>0 DEF ClientState
  <2>2. cl' = [cl EXCEPT ![c] = r] /\ watchers' \in [Keys -> SUBSET Clients]
    BY <1>0, <1>5 DEF Watch
  <2>3. UNCHANGED <<data, due, repl, mode, running>>
    BY <1>5 DEF Watch
  <2> HIDE DEF r
  <2> QED BY <1>0, <2>1, <2>2, <2>3, OneClient DEF TypeOK, Contents
<1>6. ASSUME NEW c \in Clients, Unwatch(c) PROVE TypeOK'
  <2> DEFINE r == [cl[c] EXCEPT !.watched = {}, !.stale = {}, !.cas = FALSE]
  <2>0. cl[c] \in ClientState /\ (cl[c].err \/ cl[c].queue # << >> => cl[c].multi)
    BY <1>0
  <2>1. r \in ClientState /\ (r.err \/ r.queue # << >> => r.multi)
    BY <2>0 DEF ClientState
  <2>2. cl' = [cl EXCEPT ![c] = r]
    BY <1>0, <1>6 DEF Unwatch
  <2> HIDE DEF r
  <2> QED BY <1>0, <1>6, <2>1, <2>2, OneClient, UnlistedType DEF Unwatch, TypeOK, Contents
<1>7. ASSUME NEW c \in Clients, Discard(c) \/ ExecAborted(c) \/ Disconnect(c) PROVE TypeOK'
  <2>1. /\ cl' = [cl EXCEPT ![c] = NewClient] /\ watchers' = Unlisted(c)
        /\ UNCHANGED <<data, due, repl, mode, running>>
    BY <1>7 DEF Discard, ExecAborted, Disconnect
  <2>2. ~NewClient.err /\ NewClient.queue = << >>
    BY DEF NewClient
  <2> QED BY <1>0, <2>1, <2>2, OneClient, NewClientType, UnlistedType DEF TypeOK, Contents
<1>8. ASSUME NEW c \in Clients, ExecStart(c) PROVE TypeOK'
  <2> DEFINE r == [cl[c] EXCEPT !.watched = {}, !.stale = {}]
  <2>0. cl[c] \in ClientState /\ (cl[c].err \/ cl[c].queue # << >> => cl[c].multi)
    BY <1>0
  <2>1. r \in ClientState /\ (r.err \/ r.queue # << >> => r.multi)
    BY <2>0 DEF ClientState
  <2>2. cl' = [cl EXCEPT ![c] = r]
    BY <1>0, <1>8 DEF ExecStart
  <2> HIDE DEF r
  <2> QED BY <1>0, <1>8, <2>1, <2>2, OneClient, UnlistedType DEF ExecStart, TypeOK, Contents
<1>9. ASSUME NEW c \in Clients, ExecCommand(c) PROVE TypeOK'
  <2> DEFINE cmd == Head(cl[c].queue)
  <2>1. cmd \in Commands /\ cl[c].multi
    BY <1>0, <1>9 DEF ExecCommand, ClientState
  <2>2. /\ Call(cmd) /\ UNCHANGED <<watchers, mode, running>>
        /\ cl' = [d \in Clients |->
                    IF d = c THEN [Notified(d, cmd) EXCEPT !.queue = Tail(@)] ELSE Notified(d, cmd)]
    BY <1>9 DEF ExecCommand
  <2>3. cl[c].queue \in Seq(Commands) /\ cl[c].queue # << >>
    BY <1>0, <1>9 DEF ExecCommand, ClientState
  <2> HIDE DEF cmd
  <2>4. \A d \in Clients : /\ Notified(d, cmd) \in ClientState
                           /\ Notified(d, cmd).multi = cl[d].multi
                           /\ Notified(d, cmd).queue = cl[d].queue
                           /\ Notified(d, cmd).err = cl[d].err
    BY <2>1, NotifiedType
  <2> DEFINE r == [Notified(c, cmd) EXCEPT !.queue = Tail(@)]
  <2>a. Tail(cl[c].queue) \in Seq(Commands)
    BY <2>3
  <2>b. /\ Notified(c, cmd) \in ClientState /\ Notified(c, cmd).multi
        /\ Tail(Notified(c, cmd).queue) \in Seq(Commands)
    BY <2>1, <2>4, <2>a
  <2>5. r \in ClientState /\ r.multi
    BY <2>b DEF ClientState
  <2>6. cl'[c] = r /\ \A d \in Clients : d # c => cl'[d] = Notified(d, cmd)
    BY <2>2
  <2> HIDE DEF r
  <2>7. cl' \in [Clients -> ClientState]
    BY <2>2, <2>4, <2>5 DEF r
  <2>8. \A d \in Clients : cl'[d].err \/ cl'[d].queue # << >> => cl'[d].multi
    BY <1>0, <2>4, <2>5, <2>6
  <2> QED BY <1>0, <2>1, <2>2, <2>7, <2>8, CallType DEF TypeOK, Contents
<1>10. ASSUME NEW c \in Clients, ExecEnd(c) PROVE TypeOK'
  <2>1. ~NewClient.err /\ NewClient.queue = << >>
    BY DEF NewClient
  <2>2. cl' = [cl EXCEPT ![c] = NewClient] /\ repl' \in [data : Contents, multi : BOOLEAN]
    BY <1>0, <1>10 DEF ExecEnd
  <2> QED BY <1>0, <1>10, <2>1, <2>2, OneClient, NewClientType DEF ExecEnd, TypeOK, Contents
<1>11. ASSUME NEW k \in Keys, Elapse(k) PROVE TypeOK'
  BY <1>0, <1>11 DEF Elapse, Existing, TypeOK
<1>12. ASSUME NEW k \in Keys, ActiveExpire(k) \/ Evict(k) PROVE TypeOK'
  <2>1. Reclaim(k)
    BY <1>12 DEF ActiveExpire, Evict
  <2>2. data' = Without(data, {k}) /\ data' \in Contents /\ Without(repl.data, {k}) \in Contents
    BY <1>0, <2>1, WithoutType DEF Reclaim
  <2>3. repl' \in [data : Contents, multi : BOOLEAN]
    BY <1>0, <2>1, <2>2 DEF Reclaim
  <2>4. due' \subseteq {x \in Keys : data'[x] # None}
    BY <1>0, <2>1, <2>2 DEF Reclaim, Without
  <2> QED BY <1>0, <2>1, <2>2, <2>3, <2>4 DEF Reclaim, TypeOK, Contents
<1>13. ASSUME NEW m \in {"ok"} \cup Conditions, ChangeMode(m) PROVE TypeOK'
  BY <1>0, <1>13 DEF ChangeMode, TypeOK
<1>14. CASE UNCHANGED vars
  BY <1>14 DEF vars, TypeOK
<1> QED
  BY <1>1, <1>2, <1>3, <1>4, <1>5, <1>6, <1>7, <1>8, <1>9, <1>10, <1>11, <1>12, <1>13, <1>14
  DEF Next, ClientStep

(* Every reachable state is well typed: the data and what was fed are maps *)
(* of the keys, keys due to expire exist, and only a client in MULTI has   *)
(* commands queued or DIRTY_EXEC set (src/multi.c).                        *)
THEOREM TypeCorrect == Spec => []TypeOK
<1>1. Init => TypeOK
  BY NewClientType DEF Init, TypeOK, NewClient
<1> QED BY <1>1, TypeStep, PTL DEF Spec


-----------------------------------------------------------------------------
(* WATCH *)

(* EXEC has dropped the watched keys before its commands run. *)
RunningUnwatched == \A c \in Clients : running = c => cl[c].watched = {}
CasInv == WatchersMatch /\ StaleIsDirty

(* unwatchAllKeys takes the client out of the list of every key. *)
LEMMA UnlistedMatch ==
    ASSUME TypeOK, CasInv, NEW c \in Clients, NEW r \in ClientState,
           cl' = [cl EXCEPT ![c] = r], r.watched = {}, r.stale = {}, watchers' = Unlisted(c)
    PROVE  CasInv'
<1>0. cl \in [Clients -> ClientState]
  BY DEF TypeOK
<1>1. cl'[c] = r /\ \A d \in Clients : d # c => cl'[d] = cl[d]
  BY <1>0, OneClient
<1>2. ASSUME NEW k \in Keys PROVE watchers'[k] = {d \in Clients : k \in cl'[d].watched}
  <2>1. watchers[k] = {d \in Clients : k \in cl[d].watched}
    BY DEF CasInv, WatchersMatch
  <2>2. watchers'[k] = watchers[k] \ {c}
    BY <2>1 DEF Unlisted
  <2> QED BY <1>1, <2>1, <2>2
<1>3. StaleIsDirty'
  BY <1>1 DEF CasInv, StaleIsDirty
<1> QED BY <1>2, <1>3 DEF CasInv, WatchersMatch

(* A step that watches nothing more, of a client that loses no DIRTY_CAS. *)
LEMMA SameWatched ==
    ASSUME CasInv, watchers' = watchers,
           \A d \in Clients : cl'[d].watched = cl[d].watched /\ (cl'[d].stale # {} => cl'[d].cas)
    PROVE  CasInv'
BY DEF CasInv, WatchersMatch, StaleIsDirty

(* A command flags every client that watches a key it changes. *)
LEMMA NotifiedSound ==
    ASSUME TypeOK, CasInv, NEW d \in Clients, NEW cmd \in Commands
    PROVE  Notified(d, cmd).stale # {} => Notified(d, cmd).cas
<1> SUFFICES ASSUME cl[d].stale \cup (cl[d].watched \cap Changed(cmd)) # {}
             PROVE  cl[d].cas \/ IsTouched(d, cmd)
  BY NotifiedType
<1>1. CASE cl[d].stale # {}
  BY <1>1 DEF CasInv, StaleIsDirty
<1>2. CASE cl[d].stale = {}
  <2>1. PICK k \in cl[d].watched \cap Changed(cmd) : TRUE
    BY <1>2
  <2>2. k \in Keys /\ k \in Touched(cmd) \cup Flushed(cmd)
    BY <2>1, ChangedIsTouched DEF TypeOK, Contents, Changed
  <2>3. d \in watchers[k]
    BY <2>1, <2>2 DEF CasInv, WatchersMatch
  <2> QED BY <2>1, <2>2, <2>3 DEF IsTouched
<1> QED BY <1>1, <1>2

LEMMA CasStep == TypeOK /\ CasInv /\ RunningUnwatched /\ [Next]_vars => CasInv'
<1> SUFFICES ASSUME TypeOK, CasInv, RunningUnwatched, [Next]_vars PROVE CasInv'
  OBVIOUS
<1>0. cl \in [Clients -> ClientState] /\ watchers \in [Keys -> SUBSET Clients]
  BY DEF TypeOK
<1>a. \A d \in Clients : cl[d].stale # {} => cl[d].cas
  BY DEF CasInv, StaleIsDirty
<1>1. ASSUME NEW c \in Clients, NEW name, Refuse(c, name) PROVE CasInv'
  <2>1. watchers' = watchers /\ \A d \in Clients : /\ cl'[d].watched = cl[d].watched
                                                   /\ cl'[d].stale = cl[d].stale
                                                   /\ cl'[d].cas = cl[d].cas
    BY <1>0, <1>1 DEF Refuse, ClientState
  <2> QED BY <1>a, <2>1, SameWatched
<1>2. ASSUME NEW c \in Clients, NEW cmd \in Commands, QueueCommand(c, cmd) PROVE CasInv'
  <2>1. watchers' = watchers /\ \A d \in Clients : /\ cl'[d].watched = cl[d].watched
                                                   /\ cl'[d].stale = cl[d].stale
                                                   /\ cl'[d].cas = cl[d].cas
    BY <1>0, <1>2 DEF QueueCommand, ClientState
  <2> QED BY <1>a, <2>1, SameWatched
<1>3. ASSUME NEW c \in Clients, NEW cmd \in Commands, Execute(c, cmd) PROVE CasInv'
  <2>1. watchers' = watchers /\ \A d \in Clients : cl'[d] = Notified(d, cmd)
    BY <1>3 DEF Execute
  <2> QED BY <2>1, NotifiedType, NotifiedSound, SameWatched
<1>4. ASSUME NEW c \in Clients, Multi(c) PROVE CasInv'
  <2>1. watchers' = watchers /\ \A d \in Clients : /\ cl'[d].watched = cl[d].watched
                                                   /\ cl'[d].stale = cl[d].stale
                                                   /\ cl'[d].cas = cl[d].cas
    BY <1>0, <1>4 DEF Multi, ClientState
  <2> QED BY <1>a, <2>1, SameWatched
<1>5. ASSUME NEW c \in Clients, NEW k \in Keys, Watch(c, k) PROVE CasInv'
  <2>1. \A d \in Clients : /\ cl'[d].watched = IF d = c THEN cl[d].watched \cup {k} ELSE cl[d].watched
                           /\ cl'[d].stale = cl[d].stale
                           /\ cl'[d].cas = cl[d].cas
    BY <1>0, <1>5 DEF Watch, ClientState
  <2>2. \A x \in Keys : watchers'[x] = IF x = k THEN watchers[x] \cup {c} ELSE watchers[x]
    BY <1>0, <1>5 DEF Watch
  <2>3. \A x \in Keys : watchers[x] = {d \in Clients : x \in cl[d].watched}
    BY DEF CasInv, WatchersMatch
  <2>4. ASSUME NEW x \in Keys PROVE watchers'[x] = {d \in Clients : x \in cl'[d].watched}
    <3>1. CASE x = k
      BY <2>1, <2>2, <2>3, <3>1
    <3>2. CASE x # k
      <4>1. \A d \in Clients : x \in cl'[d].watched <=> x \in cl[d].watched
        BY <2>1, <3>2
      <4> QED BY <2>2, <2>3, <3>2, <4>1
    <3> QED BY <3>1, <3>2
  <2> QED BY <1>a, <2>1, <2>4 DEF CasInv, WatchersMatch, StaleIsDirty
<1>6. ASSUME NEW c \in Clients, Unwatch(c) PROVE CasInv'
  <2> DEFINE r == [cl[c] EXCEPT !.watched = {}, !.stale = {}, !.cas = FALSE]
  <2>0. cl[c] \in ClientState
    BY <1>0
  <2>1. r \in ClientState /\ r.watched = {} /\ r.stale = {}
    BY <2>0 DEF ClientState
  <2>2. cl' = [cl EXCEPT ![c] = r] /\ watchers' = Unlisted(c)
    BY <1>0, <1>6 DEF Unwatch
  <2> HIDE DEF r
  <2> QED BY <2>1, <2>2, UnlistedMatch
<1>7. ASSUME NEW c \in Clients, Discard(c) \/ ExecAborted(c) \/ Disconnect(c) PROVE CasInv'
  <2>1. cl' = [cl EXCEPT ![c] = NewClient] /\ watchers' = Unlisted(c)
    BY <1>7 DEF Discard, ExecAborted, Disconnect
  <2>2. NewClient.watched = {} /\ NewClient.stale = {}
    BY DEF NewClient
  <2> QED BY <2>1, <2>2, NewClientType, UnlistedMatch
<1>8. ASSUME NEW c \in Clients, ExecStart(c) PROVE CasInv'
  <2> DEFINE r == [cl[c] EXCEPT !.watched = {}, !.stale = {}]
  <2>0. cl[c] \in ClientState
    BY <1>0
  <2>1. r \in ClientState /\ r.watched = {} /\ r.stale = {}
    BY <2>0 DEF ClientState
  <2>2. cl' = [cl EXCEPT ![c] = r] /\ watchers' = Unlisted(c)
    BY <1>0, <1>8 DEF ExecStart
  <2> HIDE DEF r
  <2> QED BY <2>1, <2>2, UnlistedMatch
<1>9. ASSUME NEW c \in Clients, ExecCommand(c) PROVE CasInv'
  <2> DEFINE cmd == Head(cl[c].queue)
  <2>1. cmd \in Commands
    BY <1>0, <1>9 DEF ExecCommand, ClientState
  <2>2. /\ watchers' = watchers
        /\ \A d \in Clients : cl'[d] = IF d = c THEN [Notified(d, cmd) EXCEPT !.queue = Tail(@)]
                                                ELSE Notified(d, cmd)
    BY <1>9 DEF ExecCommand
  <2> HIDE DEF cmd
  <2>3. \A d \in Clients : Notified(d, cmd) \in ClientState
    BY <2>1, NotifiedType
  <2>4. \A d \in Clients : /\ cl'[d].watched = Notified(d, cmd).watched
                           /\ cl'[d].stale = Notified(d, cmd).stale
                           /\ cl'[d].cas = Notified(d, cmd).cas
    BY <2>2, <2>3 DEF ClientState
  <2> QED BY <2>1, <2>2, <2>4, NotifiedType, NotifiedSound, SameWatched
<1>10. ASSUME NEW c \in Clients, ExecEnd(c) PROVE CasInv'
  <2>1. watchers' = watchers /\ cl' = [cl EXCEPT ![c] = NewClient] /\ cl[c].watched = {}
    BY <1>10 DEF ExecEnd, RunningUnwatched
  <2>2. NewClient.watched = {} /\ NewClient.stale = {}
    BY DEF NewClient
  <2>3. cl'[c] = NewClient /\ \A d \in Clients : d # c => cl'[d] = cl[d]
    BY <1>0, <2>1, NewClientType, OneClient
  <2> QED BY <1>a, <2>1, <2>2, <2>3, SameWatched
<1>11. ASSUME UNCHANGED <<watchers, cl>> PROVE CasInv'
  BY <1>11 DEF CasInv, WatchersMatch, StaleIsDirty
<1>12. ASSUME NEW k \in Keys, Elapse(k) \/ ActiveExpire(k) \/ Evict(k) PROVE CasInv'
  BY <1>11, <1>12 DEF Elapse, ActiveExpire, Evict, Reclaim
<1>13. ASSUME NEW m, ChangeMode(m) PROVE CasInv'
  BY <1>11, <1>13 DEF ChangeMode
<1>14. CASE UNCHANGED vars
  BY <1>11, <1>14 DEF vars
<1> QED
  BY <1>1, <1>2, <1>3, <1>4, <1>5, <1>6, <1>7, <1>8, <1>9, <1>10, <1>12, <1>13, <1>14
  DEF Next, ClientStep

LEMMA RunningStep == TypeOK /\ RunningUnwatched /\ [Next]_vars => RunningUnwatched'
<1> SUFFICES ASSUME TypeOK, RunningUnwatched, [Next]_vars,
                    NEW c \in Clients, running' = c
             PROVE  cl'[c].watched = {}
  BY DEF RunningUnwatched
<1>0. cl \in [Clients -> ClientState] /\ None \notin Clients
  BY TransactionsAssumption DEF TypeOK
<1>1. ASSUME NEW d \in Clients, ExecStart(d) PROVE cl'[c].watched = {}
  <2>1. d = c /\ cl[c] \in ClientState
    BY <1>0, <1>1 DEF ExecStart
  <2>2. cl'[c] = [cl[c] EXCEPT !.watched = {}, !.stale = {}]
    BY <1>0, <1>1, <2>1 DEF ExecStart
  <2> QED BY <2>1, <2>2 DEF ClientState
<1>2. ASSUME NEW d \in Clients, ExecCommand(d) PROVE cl'[c].watched = {}
  <2> DEFINE cmd == Head(cl[d].queue)
  <2>1. cmd \in Commands
    BY <1>0, <1>2 DEF ExecCommand, ClientState
  <2>2. cl[c].watched = {} /\ d = c
    BY <1>2 DEF RunningUnwatched, ExecCommand
  <2>3. cl'[c] = [Notified(c, cmd) EXCEPT !.queue = Tail(@)]
    BY <1>2, <2>2 DEF ExecCommand
  <2> HIDE DEF cmd
  <2>4. Notified(c, cmd) \in ClientState /\ Notified(c, cmd).watched = {}
    BY <2>1, <2>2, NotifiedType
  <2> QED BY <2>3, <2>4 DEF ClientState
<1>3. CASE running = c /\ cl' = cl
  BY <1>3 DEF RunningUnwatched
<1>4. CASE UNCHANGED running /\ running = None
  BY <1>0, <1>4
<1>5. ASSUME NEW d \in Clients, ClientStep(d) PROVE cl'[c].watched = {}
  BY <1>0, <1>1, <1>2, <1>4, <1>5
  DEF ClientStep, QueueCommand, Execute, Accepts, Refuse, Watch, Multi, Unwatch, Discard,
      ExecAborted, ExecEnd, Disconnect
<1>6. ASSUME NEW k \in Keys, Elapse(k) \/ ActiveExpire(k) \/ Evict(k) PROVE cl'[c].watched = {}
  BY <1>4, <1>6 DEF Elapse, ActiveExpire, Evict, Reclaim
<1>7. ASSUME NEW m, ChangeMode(m) PROVE cl'[c].watched = {}
  BY <1>4, <1>7 DEF ChangeMode
<1>8. CASE UNCHANGED vars
  BY <1>3, <1>8 DEF vars
<1> QED BY <1>5, <1>6, <1>7, <1>8 DEF Next

-----------------------------------------------------------------------------
(* DIRTY_EXEC *)

(* Only a client in MULTI has had a command refused, and it is flagged,    *)
(* but for refusals by a read-only slave or while loading.                 *)
ErrInv == \A c \in Clients : cl[c].refused = "yes" => cl[c].multi /\ cl[c].err

LEMMA ErrStep == TypeOK /\ ErrInv /\ [Next]_vars => ErrInv'
<1> SUFFICES ASSUME TypeOK, ErrInv, [Next]_vars PROVE ErrInv'
  OBVIOUS
<1>0. cl \in [Clients -> ClientState] /\ mode \in {"ok"} \cup Conditions
  BY DEF TypeOK
<1>a. \A d \in Clients : cl[d].refused = "yes" => cl[d].multi /\ cl[d].err
  BY DEF ErrInv
<1>b. ASSUME NEW c \in Clients, NEW r \in ClientState, cl' = [cl EXCEPT ![c] = r],
             r.refused = "yes" => r.multi /\ r.err
      PROVE  ErrInv'
  <2>1. cl'[c] = r /\ \A d \in Clients : d # c => cl'[d] = cl[d]
    BY <1>0, <1>b, OneClient
  <2> QED BY <1>a, <1>b, <2>1 DEF ErrInv
<1>c. ASSUME \A d \in Clients : /\ cl'[d].multi = cl[d].multi
                                /\ cl'[d].err = cl[d].err
                                /\ cl'[d].refused = cl[d].refused
      PROVE  ErrInv'
  BY <1>a, <1>c DEF ErrInv
<1>d. ASSUME NEW c \in Clients, cl' = [cl EXCEPT ![c] = NewClient] PROVE ErrInv'
  <2>1. NewClient.refused = "no"
    BY DEF NewClient
  <2> QED BY <1>b, <1>d, <2>1, NewClientType
<1>1. ASSUME NEW c \in Clients, NEW name, Refuse(c, name) PROVE ErrInv'
  <2> DEFINE flagged == cl[c].multi /\ (name = "bad" \/ FlagsTransaction)
             r == [cl[c] EXCEPT !.err = @ \/ flagged,
                                !.refused = IF cl[c].multi THEN RefusedAs(c, name) ELSE @]
  <2>0. cl[c] \in ClientState /\ (cl[c].refused = "yes" => cl[c].multi /\ cl[c].err)
    BY <1>0, <1>a
  <2>1. /\ RefusedAs(c, name) \in {"no", "partly", "yes"}
        /\ RefusedAs(c, name) = "yes" => cl[c].refused = "yes" \/ (cl[c].multi => flagged)
    BY DEF RefusedAs, FlagsTransaction
  <2>3. cl' = [cl EXCEPT ![c] = r]
    BY <1>0, <1>1 DEF Refuse
  <2>4. flagged \in BOOLEAN
    OBVIOUS
  <2> HIDE DEF flagged
  <2>5. r \in ClientState /\ (r.refused = "yes" => r.multi /\ r.err)
    BY <2>0, <2>1, <2>4 DEF ClientState
  <2> HIDE DEF r
  <2> QED BY <1>b, <2>3, <2>5
<1>2. ASSUME NEW c \in Clients, NEW cmd \in Commands, QueueCommand(c, cmd) PROVE ErrInv'
  BY <1>0, <1>2, <1>c DEF QueueCommand, ClientState
<1>3. ASSUME NEW c \in Clients, NEW cmd \in Commands, Execute(c, cmd) PROVE ErrInv'
  <2>1. \A d \in Clients : cl'[d] = Notified(d, cmd)
    BY <1>3 DEF Execute
  <2> QED BY <1>c, <2>1, NotifiedType
<1>4. ASSUME NEW c \in Clients, Multi(c) PROVE ErrInv'
  <2> DEFINE r == [cl[c] EXCEPT !.multi = TRUE]
  <2>0. cl[c] \in ClientState /\ (cl[c].refused = "yes" => cl[c].multi /\ cl[c].err)
    BY <1>0, <1>a
  <2>1. r \in ClientState /\ (r.refused = "yes" => r.multi /\ r.err)
    BY <2>0 DEF ClientState
  <2>2. cl' = [cl EXCEPT ![c] = r]
    BY <1>0, <1>4 DEF Multi
  <2> HIDE DEF r
  <2> QED BY <1>b, <2>1, <2>2
<1>5. ASSUME NEW c \in Clients, NEW k \in Keys, Watch(c, k) PROVE ErrInv'
  BY <1>0, <1>5, <1>c DEF Watch, ClientState
<1>6. ASSUME NEW c \in Clients, Unwatch(c) PROVE ErrInv'
  BY <1>0, <1>6, <1>c DEF Unwatch, ClientState
<1>7. ASSUME NEW c \in Clients, Discard(c) \/ ExecAborted(c) \/ Disconnect(c) \/ ExecEnd(c)
      PROVE  ErrInv'
  BY <1>7, <1>d DEF Discard, ExecAborted, Disconnect, ExecEnd
<1>8. ASSUME NEW c \in Clients, ExecStart(c) PROVE ErrInv'
  BY <1>0, <1>8, <1>c DEF ExecStart, ClientState
<1>9. ASSUME NEW c \in Clients, ExecCommand(c) PROVE ErrInv'
  <2> DEFINE cmd == Head(cl[c].queue)
  <2>1. cmd \in Commands
    BY <1>0, <1>9 DEF ExecCommand, ClientState
  <2>2. \A d \in Clients : cl'[d] = IF d = c THEN [Notified(d, cmd) EXCEPT !.queue = Tail(@)]
                                             ELSE Notified(d, cmd)
    BY <1>9 DEF ExecCommand
  <2> HIDE DEF cmd
  <2>3. \A d \in Clients : Notified(d, cmd) \in ClientState
    BY <2>1, NotifiedType
  <2>4. \A d \in Clients : /\ cl'[d].multi = Notified(d, cmd).multi
                           /\ cl'[d].err = Notified(d, cmd).err
                           /\ cl'[d].refused = Notified(d, cmd).refused
    BY <2>2, <2>3 DEF ClientState
  <2> QED BY <1>c, <2>1, <2>4, NotifiedType
<1>10. ASSUME UNCHANGED cl PROVE ErrInv'
  BY <1>10 DEF ErrInv
<1>11. ASSUME NEW k \in Keys, Elapse(k) \/ ActiveExpire(k) \/ Evict(k) PROVE ErrInv'
  BY <1>10, <1>11 DEF Elapse, ActiveExpire, Evict, Reclaim
<1>12. ASSUME NEW m, ChangeMode(m) PROVE ErrInv'
  BY <1>10, <1>12 DEF ChangeMode
<1>13. CASE UNCHANGED vars
  BY <1>10, <1>13 DEF vars
<1> QED
  BY <1>1, <1>2, <1>3, <1>4, <1>5, <1>6, <1>7, <1>8, <1>9, <1>11, <1>12, <1>13
  DEF Next, ClientStep

-----------------------------------------------------------------------------
(* The link to the AOF and the slaves *)

(* The data fed agree at every step, inside EXEC as well. *)
LinkInv == repl.data = data /\ (running = None => ~repl.multi)

(* call feeds what gives the slaves the data the command leaves here. *)
LEMMA CallFeeds ==
    ASSUME TypeOK, repl.data = data, NEW cmd \in Commands, Call(cmd)
    PROVE  repl'.data = data'
<1> DEFINE d == Without(data, Expired(cmd))
<1>1. data \in Contents /\ d \in Contents
  BY WithoutType DEF TypeOK, Contents
<1>2. data' = Effect(d, cmd) /\ repl'.data = IF Dirty(cmd) THEN Effect(d, cmd) ELSE d
  BY DEF Call
<1>3. ~Dirty(cmd) => Effect(d, cmd) = d
  BY <1>1, CleanChangesNothing
<1> QED BY <1>2, <1>3

LEMMA LinkStep == TypeOK /\ LinkInv /\ [Next]_vars => LinkInv'
<1> SUFFICES ASSUME TypeOK, LinkInv, [Next]_vars PROVE LinkInv'
  OBVIOUS
<1>0. /\ cl \in [Clients -> ClientState] /\ None \notin Clients
      /\ repl \in [data : Contents, multi : BOOLEAN]
      /\ repl.data = data /\ (running = None => ~repl.multi)
  BY TransactionsAssumption DEF TypeOK, Contents, LinkInv
<1>1. ASSUME UNCHANGED <<data, repl>>, running' # None \/ UNCHANGED running PROVE LinkInv'
  BY <1>1 DEF LinkInv
<1>2. ASSUME NEW c \in Clients, NEW cmd \in Commands, Execute(c, cmd) PROVE LinkInv'
  <2>1. Call(cmd) /\ running = None /\ UNCHANGED running
    BY <1>2 DEF Execute, Accepts
  <2>2. repl'.data = data'
    BY <1>0, <2>1, CallFeeds
  <2>3. ~repl'.multi
    BY <1>0, <2>1 DEF Call
  <2> QED BY <2>2, <2>3 DEF LinkInv
<1>3. ASSUME NEW c \in Clients, ExecCommand(c) PROVE LinkInv'
  <2> DEFINE cmd == Head(cl[c].queue)
  <2>1. cmd \in Commands
    BY <1>0, <1>3 DEF ExecCommand, ClientState
  <2>2. Call(cmd) /\ running' = c
    BY <1>3 DEF ExecCommand
  <2> HIDE DEF cmd
  <2> QED BY <1>0, <2>1, <2>2, CallFeeds DEF LinkInv
<1>4. ASSUME NEW c \in Clients, ExecEnd(c) PROVE LinkInv'
  BY <1>0, <1>4 DEF ExecEnd, LinkInv
<1>5. ASSUME NEW k \in Keys, Reclaim(k) PROVE LinkInv'
  BY <1>0, <1>5 DEF Reclaim, LinkInv
<1>6. ASSUME NEW c \in Clients, ClientStep(c) PROVE LinkInv'
  <2>1. CASE \E cmd \in Commands : Execute(c, cmd)
    BY <1>2, <2>1
  <2>2. CASE ExecStart(c)
    BY <1>0, <1>1, <2>2 DEF ExecStart
  <2>3. CASE \/ \E cmd \in Commands : QueueCommand(c, cmd) \/ Refuse(c, cmd.name)
             \/ \E name \in {"multi", "exec", "discard", "watch"} : Refuse(c, name)
             \/ \E k \in Keys : Watch(c, k)
             \/ Multi(c) \/ Unwatch(c) \/ Discard(c) \/ ExecAborted(c) \/ Disconnect(c)
    BY <1>1, <2>3 DEF QueueCommand, Refuse, Watch, Multi, Unwatch, Discard, ExecAborted, Disconnect
  <2> QED BY <1>3, <1>4, <1>6, <2>1, <2>2, <2>3 DEF ClientStep
<1>7. ASSUME NEW k \in Keys, Elapse(k) PROVE LinkInv'
  BY <1>1, <1>7 DEF Elapse
<1>8. ASSUME NEW m, ChangeMode(m) PROVE LinkInv'
  BY <1>1, <1>8 DEF ChangeMode
<1>9. CASE UNCHANGED vars
  BY <1>1, <1>9 DEF vars
<1> QED BY <1>5, <1>6, <1>7, <1>8, <1>9 DEF Next, ActiveExpire, Evict

-----------------------------------------------------------------------------
(* The results *)

LEMMA InitSound == Init => TypeOK /\ CasInv /\ RunningUnwatched /\ ErrInv /\ LinkInv
<1> SUFFICES ASSUME Init PROVE TypeOK /\ CasInv /\ RunningUnwatched /\ ErrInv /\ LinkInv
  OBVIOUS
<1>1. NewClient.watched = {} /\ NewClient.stale = {} /\ NewClient.refused = "no"
      /\ ~NewClient.err /\ NewClient.queue = << >>
  BY DEF NewClient
<1>2. TypeOK
  BY <1>1, NewClientType DEF Init, TypeOK
<1>3. CasInv
  BY <1>1 DEF Init, CasInv, WatchersMatch, StaleIsDirty
<1>4. RunningUnwatched /\ ErrInv /\ LinkInv
  BY <1>1 DEF Init, RunningUnwatched, ErrInv, LinkInv
<1> QED BY <1>2, <1>3, <1>4

(* The watched_keys of the database and of the clients list each other     *)
(* through WATCH, EXEC, DISCARD and disconnections, and touchWatchedKey    *)
(* and touchWatchedKeysOnFlush leave no client that watches a changed key  *)
(* without DIRTY_CAS, for any clients, keys, commands and conditions.      *)
THEOREM WatchSound == Spec => [](WatchersMatch /\ StaleIsDirty)
<1> DEFINE IInv == TypeOK /\ CasInv /\ RunningUnwatched
<1>1. IInv /\ [Next]_vars => IInv'
  BY TypeStep, CasStep, RunningStep
<1>2. IInv => WatchersMatch /\ StaleIsDirty
  BY DEF CasInv
<1>3. Init => IInv
  BY InitSound
<1> QED BY <1>1, <1>2, <1>3, PTL DEF Spec

(* What EXEC goes by is right, in any conditions and however they change   *)
(* while commands are queued: moreover a transaction that lost a command   *)
(* has DIRTY_EXEC, unless it only lost writes to a read-only slave and     *)
(* commands to a server that was loading.                                  *)
THEOREM FlagsAreSound == Spec => []FlagsSound
<1> DEFINE IInv == TypeOK /\ CasInv /\ RunningUnwatched /\ ErrInv
<1>1. IInv /\ [Next]_vars => IInv'
  BY TypeStep, CasStep, RunningStep, ErrStep
<1>2. IInv => FlagsSound
  BY DEF CasInv, ErrInv, FlagsSound, RefusalNoted
<1>3. Init => IInv
  BY InitSound
<1> QED BY <1>1, <1>2, <1>3, PTL DEF Spec

(* EXEC never runs the queued commands of a client that watches a key      *)
(* which a command has changed since (src/multi.c, execCommand).           *)
THEOREM ExecIsFresh == Spec => ExecOnFreshKeys
<1> DEFINE IInv == TypeOK /\ CasInv /\ RunningUnwatched
           Fresh == \A c \in Clients : running = None /\ running' = c => cl[c].stale = {}
<1>1. IInv /\ [Next]_vars => IInv'
  BY TypeStep, CasStep, RunningStep
<1>2. Init => IInv
  BY InitSound
<1>3. IInv /\ [Next]_vars => [Fresh]_vars
  <2> SUFFICES ASSUME IInv, Next, NEW c \in Clients, running = None, running' = c
               PROVE  cl[c].stale = {}
    OBVIOUS
  <2>0. None \notin Clients
    BY TransactionsAssumption
  <2>1. PICK d \in Clients : ExecStart(d)
    BY <2>0 DEF Next, ClientStep, QueueCommand, Execute, Refuse, Watch, Multi, Unwatch, Discard,
       ExecAborted, ExecCommand, ExecEnd, Disconnect, Elapse, ActiveExpire, Evict, Reclaim, ChangeMode
  <2>2. c = d /\ ~cl[c].cas
    BY <2>1 DEF ExecStart
  <2> QED BY <2>2 DEF CasInv, StaleIsDirty
<1> QED BY <1>1, <1>2, <1>3, PTL DEF Spec, ExecOnFreshKeys

(* What call, propagateExpire and execCommand have fed to the AOF and the  *)
(* slaves gives them the data of the server, even in the middle of EXEC,   *)
(* and no MULTI stays open on the link between transactions.               *)
THEOREM LinkSound == Spec => []ReplicaAgrees
<1> DEFINE IInv == TypeOK /\ LinkInv
<1>1. IInv /\ [Next]_vars => IInv'
  BY TypeStep, LinkStep
<1>2. IInv => ReplicaAgrees
  BY DEF LinkInv, ReplicaAgrees
<1>3. Init => IInv
  BY InitSound
<1> QED BY <1>1, <1>2, <1>3, PTL DEF Spec
=============================================================================
