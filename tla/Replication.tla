----------------------------- MODULE Replication -----------------------------
(***************************************************************************)
(* Replication between a Redis master and its slaves                       *)
(* (redis-stable/src/replication.c, with rdb.c and networking.c where they *)
(* serve it).  The master sends its slaves a stream of commands and counts *)
(* its length; it keeps the end of the stream in a circular backlog.  A    *)
(* slave that lost the connection asks for the stream from where it was    *)
(* (PSYNC); when the master cannot go on from there, the slave gets a      *)
(* snapshot (an RDB file written by a child process) and what was executed *)
(* since the child was forked.                                             *)
(*                                                                         *)
(* An item of the stream is a SELECT or a command, and counts 1.  The      *)
(* command n of a run of the master writes to database n % 2; a dataset is *)
(* the sequence of the commands it came from, each with the database it    *)
(* was applied to.  A connection is one queue, buffers and socket, from    *)
(* the master to the slave; both ends lose it at once.                     *)
(***************************************************************************)
EXTENDS Integers, Sequences, SequencesExt, FiniteSets

CONSTANTS
    Slaves,
    BacklogSize,
    MaxWrites,       \* bound: the length of the master's dataset
    MaxFaults,       \* bound: connections lost, restarts, failed children
    MaxAdmin         \* bound: BGSAVE, CONFIG SET, SLAVEOF, backlog freed

(* What the constants are: a backlog has room for something. *)
ReplicationAssumption ==
    /\ BacklogSize \in Nat \ {0}
    /\ MaxWrites \in Nat /\ MaxFaults \in Nat /\ MaxAdmin \in Nat

VARIABLES
    master,      \* run, data, offset, seldb (-1: none), rdb: the file on disk
    backlog,     \* on, buf, idx, histlen, off
    child,       \* the dataset a child is saving, or NoChild
    conn,        \* of each slave in server.slaves: state, out, file
    slave,       \* of each slave: state, data, db, off, run, cached
    odd,         \* slaves that had to wait for a child forked for others
    faults, admin

vars == <<master, backlog, child, conn, slave, odd, faults, admin>>

NoChild == << <<-1, <<0, 0>>>> >>     \* no dataset: there is no database -1
NoConn == [state |-> "none", out |-> <<>>, file |-> <<>>]
NoBacklog == [on |-> FALSE, buf |-> [i \in 0..BacklogSize - 1 |-> <<"none">>],
              idx |-> 0, histlen |-> 0, off |-> 0]

Init ==
    /\ master = [run |-> 1, data |-> <<>>, offset |-> 0, seldb |-> -1, rdb |-> <<>>]
    /\ backlog = NoBacklog
    /\ child = NoChild
    /\ conn = [s \in Slaves |-> NoConn]
    /\ slave = [s \in Slaves |-> [state |-> "connect", data |-> <<>>, db |-> 0, off |-> -1,
                                  run |-> 0, cached |-> FALSE]]
    /\ odd = {} /\ faults = 0 /\ admin = 0

Attached == {s \in Slaves : conn[s].state # "none"}

-----------------------------------------------------------------------------
(* The stream *)

(* feedReplicationBacklog: item becomes the last of the backlog b, offset  *)
(* is the master's once it is counted.                                     *)
FeedReplicationBacklog(b, item, offset) ==
    LET h == IF b.histlen < BacklogSize THEN b.histlen + 1 ELSE BacklogSize
    IN [b EXCEPT !.buf[b.idx] = item, !.idx = (b.idx + 1) % BacklogSize,
                 !.histlen = h, !.off = offset - h + 1]

(* replicationFeedSlaves: a SELECT if the database is another one than     *)
(* that of the last command, for every slave; the command, but not for a   *)
(* slave that waits for a child to be forked.                              *)
ReplicationFeedSlaves(db, cmd, m) ==
    LET sel == IF m.seldb # db THEN <<<<"select", db>>>> ELSE <<>>
        item == <<"command", cmd>>
        items == Append(sel, item)
        selected == IF sel = <<>> THEN backlog
                    ELSE FeedReplicationBacklog(backlog, sel[1], m.offset + 1)
    IN IF ~backlog.on /\ Attached = {}
       THEN master' = m /\ UNCHANGED <<backlog, conn>>
       ELSE /\ master' = [m EXCEPT !.seldb = db, !.offset = @ + Len(items)]
            /\ backlog' = FeedReplicationBacklog(selected, item, m.offset + Len(items))
            /\ conn' = [s \in Slaves |->
                 IF s \notin Attached THEN conn[s]
                 ELSE [conn[s] EXCEPT !.out = @ \o (IF conn[s].state = "wait_start" THEN sel ELSE items)]]

(* A client of the master writes. *)
Write ==
    LET n == Len(master.data) + 1
        cmd == <<master.run, n>>
    IN /\ n <= MaxWrites
       /\ ReplicationFeedSlaves(n % 2, cmd, [master EXCEPT !.data = Append(@, <<n % 2, cmd>>)])
       /\ UNCHANGED <<child, slave, odd, faults, admin>>

(* addReplyReplicationBacklog: the items from offset on *)
AddReplyReplicationBacklog(offset) ==
    LET skip == offset - backlog.off
        first == (backlog.idx + (BacklogSize - backlog.histlen)) % BacklogSize
    IN [i \in 1..(backlog.histlen - skip) |-> backlog.buf[(first + skip + i - 1) % BacklogSize]]

(* createReplicationBacklog *)
CreateReplicationBacklog(m) ==
    /\ master' = [m EXCEPT !.offset = @ + 1]
    /\ backlog' = [NoBacklog EXCEPT !.on = TRUE, !.off = m.offset + 2]

-----------------------------------------------------------------------------
(* The handshake *)

(* replicationCron, connectWithMaster *)
ConnectWithMaster(s) ==
    /\ slave[s].state = "connect"
    /\ slave' = [slave EXCEPT ![s].state = "connecting"]
    /\ UNCHANGED <<master, backlog, child, conn, odd, faults, admin>>

(* The variant that does not compare the run id. *)
CanContinueAnyRun(s) ==
    /\ slave[s].cached
    /\ backlog.on
    /\ slave[s].off + 1 >= backlog.off
    /\ slave[s].off + 1 <= backlog.off + backlog.histlen

(* The conditions of masterTryPartialResynchronization *)
CanContinue(s) ==
    /\ slave[s].cached /\ slave[s].run = master.run
    /\ backlog.on
    /\ slave[s].off + 1 >= backlog.off
    /\ slave[s].off + 1 <= backlog.off + backlog.histlen

(* masterTryPartialResynchronization, and replicationResurrectCachedMaster *)
(* at the slave                                                            *)
PartialResync(s) ==
    /\ slave[s].state = "connecting" /\ CanContinue(s)
    /\ conn' = [conn EXCEPT ![s] = [NoConn EXCEPT !.state = "online",
                                      !.out = AddReplyReplicationBacklog(slave[s].off + 1)]]
    /\ slave' = [slave EXCEPT ![s].state = "connected", ![s].cached = FALSE]
    /\ UNCHANGED <<master, backlog, child, odd, faults, admin>>

(* syncCommand when PSYNC cannot continue: +FULLRESYNC with the offset     *)
(* that the slave takes for the end of the snapshot, which it takes over   *)
(* in slaveTryPartialResynchronization, discarding the cached master.      *)
(* Without a child one is forked; a child forked for another slave will do *)
(* for this one too, with what that one was sent since; else the slave has *)
(* to wait for the next child.                                             *)
FullResync(s) ==
    LET others == {t \in Attached : conn[t].state = "wait_end"}
        m == [master EXCEPT !.seldb = -1]
        told == IF backlog.on THEN master.offset ELSE master.offset + 1
    IN /\ slave[s].state = "connecting" /\ ~CanContinue(s)
       /\ slave' = [slave EXCEPT ![s] = [@ EXCEPT !.state = "transfer", !.cached = FALSE,
                                                 !.off = told, !.run = master.run]]
       /\ IF child = NoChild
          THEN /\ child' = master.data
               /\ conn' = [conn EXCEPT ![s] = [NoConn EXCEPT !.state = "wait_end"]]
               /\ odd' = odd \ {s}
          ELSE /\ UNCHANGED child
               /\ odd' = odd \cup {s}
               /\ IF others = {}
                  THEN conn' = [conn EXCEPT ![s] = [NoConn EXCEPT !.state = "wait_start"]]
                  ELSE \E t \in others : conn' = [conn EXCEPT ![s] = conn[t]]
       /\ IF Attached = {} /\ ~backlog.on THEN CreateReplicationBacklog(m)
          ELSE master' = m /\ UNCHANGED backlog
       /\ UNCHANGED <<faults, admin>>

(* syncCommand when the fork fails: after +FULLRESYNC the slave reads an   *)
(* error in place of the snapshot (replicationAbortSyncTransfer).          *)
SyncWithoutFork(s) ==
    /\ slave[s].state = "connecting" /\ ~CanContinue(s) /\ child = NoChild
    /\ faults < MaxFaults /\ faults' = faults + 1
    /\ slave' = [slave EXCEPT ![s].state = "connect", ![s].cached = FALSE]
    /\ UNCHANGED <<master, backlog, child, conn, odd, admin>>

(* The reply to PSYNC is lost: slaveTryPartialResynchronization takes it   *)
(* for PSYNC_NOT_SUPPORTED and discards the cached master.                 *)
ReplyLost(s) ==
    /\ slave[s].state = "connecting"
    /\ faults < MaxFaults /\ faults' = faults + 1
    /\ slave' = [slave EXCEPT ![s].state = "connect", ![s].cached = FALSE]
    /\ UNCHANGED <<master, backlog, child, conn, odd, admin>>

-----------------------------------------------------------------------------
(* The snapshot *)

(* rdbSaveBackground for BGSAVE or a save point *)
Bgsave ==
    /\ child = NoChild
    /\ admin < MaxAdmin /\ admin' = admin + 1
    /\ child' = master.data
    /\ UNCHANGED <<master, backlog, conn, slave, odd, faults>>

(* The variant that does not notice a connection lost in the handshake. *)
DisconnectedWaits(r) ==
    IF r.state = "connected" THEN [r EXCEPT !.state = "connect", !.cached = TRUE] ELSE r

(* What a slave is when it lost the connection: replicationCacheMaster,    *)
(* replicationHandleMasterDisconnection, replicationAbortSyncTransfer      *)
Disconnected(r) ==
    CASE r.state = "connected" -> [r EXCEPT !.state = "connect", !.cached = TRUE]
      [] r.state \in {"connecting", "transfer"} -> [r EXCEPT !.state = "connect"]
      [] OTHER -> r

(* backgroundSaveDoneHandler, updateSlavesWaitingBgsave: the slaves that   *)
(* waited for this child are sent the file, or dropped when it failed;     *)
(* for those that wait for the next one it is forked now.                  *)
ChildDone(ok) ==
    LET wait(st) == {s \in Attached : conn[s].state = st}
        again == wait("wait_start") # {}
    IN /\ child # NoChild
       /\ ok \/ (faults < MaxFaults)
       /\ faults' = IF ok THEN faults ELSE faults + 1
       /\ master' = IF ok THEN [master EXCEPT !.rdb = child] ELSE master
       /\ child' = IF again THEN master.data ELSE NoChild
       /\ conn' = [s \in Slaves |->
            CASE conn[s].state = "wait_start" -> [conn[s] EXCEPT !.state = "wait_end"]
              [] conn[s].state = "wait_end" ->
                   IF ok THEN [conn[s] EXCEPT !.state = "send_bulk", !.file = child] ELSE NoConn
              [] OTHER -> conn[s]]
       /\ slave' = [s \in Slaves |-> IF ~ok /\ s \in wait("wait_end") THEN Disconnected(slave[s]) ELSE slave[s]]
       /\ UNCHANGED <<backlog, odd, admin>>

(* sendBulkToSlave and readSyncBulkPayload: the whole file; the slave      *)
(* loads it in place of its dataset and begins with database 0.            *)
SendBulk(s) ==
    /\ conn[s].state = "send_bulk"
    /\ conn' = [conn EXCEPT ![s].state = "online", ![s].file = <<>>]
    /\ slave' = [slave EXCEPT ![s].state = "connected", ![s].data = conn[s].file, ![s].db = 0]
    /\ UNCHANGED <<master, backlog, child, odd, faults, admin>>

(* processInputBuffer of the slave, for its master: one item *)
Receive(s) ==
    /\ conn[s].state = "online" /\ conn[s].out # <<>>
    /\ conn' = [conn EXCEPT ![s].out = Tail(@)]
    /\ LET item == Head(conn[s].out) IN
       slave' = IF item[1] = "select" THEN [slave EXCEPT ![s].db = item[2], ![s].off = @ + 1]
                ELSE [slave EXCEPT ![s].data = Append(@, <<slave[s].db, item[2]>>), ![s].off = @ + 1]
    /\ UNCHANGED <<master, backlog, child, odd, faults, admin>>

-----------------------------------------------------------------------------
(* Faults and administration *)

(* The connection is lost, or a timeout of replicationCron ends it. *)
ConnectionLost(s) ==
    /\ s \in Attached
    /\ faults < MaxFaults /\ faults' = faults + 1
    /\ conn' = [conn EXCEPT ![s] = NoConn]
    /\ slave' = [slave EXCEPT ![s] = Disconnected(@)]
    /\ UNCHANGED <<master, backlog, child, odd, admin>>

(* The master starts again from its RDB file, with another run id. *)
MasterRestart ==
    /\ faults < MaxFaults /\ faults' = faults + 1
    /\ master' = [run |-> master.run + 1, data |-> master.rdb, offset |-> 0, seldb |-> -1,
                  rdb |-> master.rdb]
    /\ backlog' = NoBacklog
    /\ child' = NoChild
    /\ conn' = [s \in Slaves |-> NoConn]
    /\ slave' = [s \in Slaves |-> Disconnected(slave[s])]
    /\ UNCHANGED <<odd, admin>>

(* A slave starts again, without a cached master. *)
SlaveRestart(s) ==
    /\ slave[s].state # "none"
    /\ faults < MaxFaults /\ faults' = faults + 1
    /\ conn' = [conn EXCEPT ![s] = NoConn]
    /\ slave' = [slave EXCEPT ![s] = [@ EXCEPT !.state = "connect", !.data = <<>>, !.cached = FALSE]]
    /\ UNCHANGED <<master, backlog, child, odd, admin>>

(* resizeReplicationBacklog: the backlog is flushed. *)
ResizeReplicationBacklog ==
    /\ backlog.on
    /\ admin < MaxAdmin /\ admin' = admin + 1
    /\ backlog' = [NoBacklog EXCEPT !.on = TRUE, !.off = master.offset + 1]
    /\ UNCHANGED <<master, child, conn, slave, odd, faults>>

(* replicationCron, freeReplicationBacklog: no slave for some time *)
FreeReplicationBacklog ==
    /\ backlog.on /\ Attached = {}
    /\ admin < MaxAdmin /\ admin' = admin + 1
    /\ backlog' = NoBacklog
    /\ UNCHANGED <<master, child, conn, slave, odd, faults>>

(* SLAVEOF NO ONE: replicationUnsetMaster; a client of it may write then.  *)
ReplicationUnsetMaster(s) ==
    /\ slave[s].state # "none"
    /\ admin < MaxAdmin /\ admin' = admin + 1
    /\ conn' = [conn EXCEPT ![s] = NoConn]
    /\ slave' = [slave EXCEPT ![s].state = "none", ![s].cached = FALSE,
                              ![s].data = Append(@, <<0, <<0, s>>>>)]
    /\ UNCHANGED <<master, backlog, child, odd, faults>>

(* SLAVEOF the master again: replicationSetMaster *)
ReplicationSetMaster(s) ==
    /\ slave[s].state = "none"
    /\ slave' = [slave EXCEPT ![s].state = "connect"]
    /\ UNCHANGED <<master, backlog, child, conn, odd, faults, admin>>

Next ==
    \/ Write \/ Bgsave \/ \E ok \in BOOLEAN : ChildDone(ok)
    \/ MasterRestart \/ ResizeReplicationBacklog \/ FreeReplicationBacklog
    \/ \E s \in Slaves :
        \/ ConnectWithMaster(s) \/ PartialResync(s) \/ FullResync(s) \/ SyncWithoutFork(s)
        \/ ReplyLost(s) \/ SendBulk(s) \/ Receive(s) \/ ConnectionLost(s) \/ SlaveRestart(s)
        \/ ReplicationUnsetMaster(s) \/ ReplicationSetMaster(s)

Spec == Init /\ [][Next]_vars

-----------------------------------------------------------------------------
Exact(s) == s \notin odd

(* A connected slave holds what the master held at some time: its dataset  *)
(* is a prefix of the master's, each command in its database, whether it   *)
(* got there by a snapshot or by the backlog, and nothing is missing once  *)
(* the stream is drained.  The exception are slaves that had to wait for a *)
(* child forked for another purpose.                                       *)
InStep(s) ==
    /\ IsPrefix(slave[s].data, master.data)
    /\ conn[s].out = <<>> => slave[s].data = master.data
SlavesInStep == \A s \in Slaves :
    slave[s].state = "connected" /\ Exact(s) => InStep(s)

(* replication.c 446-448: after +FULLRESYNC the slave knows the offset to  *)
(* try a PSYNC later.                                                      *)
AlwaysInStep == \A s \in Slaves : slave[s].state = "connected" => InStep(s)

(* The offset of a connected slave is the one the master would go on from: *)
(* what is on its way ends at the master's offset.                         *)
OffsetsMatch == \A s \in Slaves :
    slave[s].state = "connected" /\ Exact(s) => slave[s].off + Len(conn[s].out) = master.offset

(* Every slave that is left a slave catches up with the master, through    *)
(* any number of lost connections, failed children and restarts within the *)
(* bounds.  (Exact slaves only: the others may have lost commands.)        *)
SlavesCatchUp == \A s \in Slaves :
    \/ <>[](slave[s].state = "none")
    \/ <>[](slave[s].state = "connected" /\ (Exact(s) => slave[s].data = master.data))
=============================================================================
