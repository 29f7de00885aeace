---------------------------- MODULE MCDurability ----------------------------
(***************************************************************************)
(* The TLC instance of what keeps the data of a server: the append only    *)
(* file, the snapshots and the slaves.  A behaviour is one of these, as    *)
(* part says; the others stay where they began.  Only the policy "always"  *)
(* and the append only file depend on no-appendfsync-on-rewrite.           *)
(***************************************************************************)
EXTENDS AppendOnlyFile

CONSTANTS
    Slaves, BacklogSize, SlaveWrites, LinkFaults, MaxAdmin,
    Changes, MaxChanges, SaveFaults, SaveRewrites

VARIABLES
    part,
    master, backlog, saver, conn, slave, odd, faults, admin,
    up, data, rdb, bgsave, dirty, before, ok, aged, retry, rewriting, orphan, overtaken,
    rewrites, failures

R == INSTANCE Replication WITH MaxWrites <- SlaveWrites, MaxFaults <- LinkFaults, child <- saver

S == INSTANCE Snapshots WITH
        MaxFaults <- SaveFaults, MaxRewrites <- SaveRewrites,
        file <- rdb, child <- bgsave, faults <- failures

ASSUME DurabilityAssumption == AofAssumption /\ R!ReplicationAssumption

aofVars == vars
replVars == <<master, backlog, saver, conn, slave, odd, faults, admin>>
rdbVars == <<up, data, rdb, bgsave, dirty, before, ok, aged, retry, rewriting, orphan,
             overtaken, rewrites, failures>>
allVars == <<part, aofVars, replVars, rdbVars>>

DurabilityInit ==
    /\ part \in {"aof", "replication", "snapshots"}
    /\ Init /\ R!Init /\ S!Init
    /\ part # "aof" => policy = "always"
    /\ part # "aof" \/ policy # "always" => nofsync = FALSE

DurabilityNext ==
    /\ \/ part = "aof" /\ Next /\ UNCHANGED <<replVars, rdbVars>>
       \/ part = "replication" /\ R!Next /\ UNCHANGED <<aofVars, rdbVars>>
       \/ part = "snapshots" /\ S!Next /\ UNCHANGED <<aofVars, replVars>>
    /\ UNCHANGED part

(* beforeSleep flushes the AOF over and over, children end, serverCron     *)
(* starts the rewrite or the snapshot that is due and waits for children,  *)
(* time passes, and a slave goes on connecting, asking and reading.        *)
Fairness ==
    /\ WF_aofVars(part = "aof" /\ FlushAny) /\ WF_aofVars(part = "aof" /\ FlushOff)
    /\ WF_aofVars(part = "aof" /\ Rewriting)
    /\ WF_aofVars(part = "aof" /\ scheduled /\ StartRewrite)
    /\ WF_replVars(part = "replication" /\ R!ChildDone(TRUE))
    /\ \A s \in Slaves :
        /\ WF_replVars(part = "replication" /\ R!ConnectWithMaster(s))
        /\ WF_replVars(part = "replication" /\ (R!PartialResync(s) \/ R!FullResync(s)))
        /\ WF_replVars(part = "replication" /\ R!SendBulk(s))
        /\ WF_replVars(part = "replication" /\ R!Receive(s))
    /\ WF_rdbVars(part = "snapshots" /\ S!CronSave)
    /\ WF_rdbVars(part = "snapshots" /\ S!CronWait)
    /\ WF_rdbVars(part = "snapshots" /\ S!ChildRename)
    /\ WF_rdbVars(part = "snapshots" /\ S!RewriteDone)
    /\ WF_rdbVars(part = "snapshots" /\ S!Age)
    /\ WF_rdbVars(part = "snapshots" /\ S!RetryDelay)

DurabilitySpec == DurabilityInit /\ [][DurabilityNext]_allVars /\ Fairness

-----------------------------------------------------------------------------
(* AppendOnlyFile: an AOF that is switched on gets to be on, and a failed  *)
(* write is made up for.                                                   *)
AofRecovers == EventuallyOn /\ ErrorClears

(* Replication: a connected slave holds a prefix of the master's data, and *)
(* its offset is the one the master would go on from.                      *)
SlavesInStep == R!SlavesInStep /\ R!OffsetsMatch

(* Replication: whoever stays a slave catches up.                          *)
SlavesCatchUp == <>[](part # "replication") \/ R!SlavesCatchUp

(* Snapshots: the server's count of unsaved changes covers what dump.rdb   *)
(* lacks.                                                                  *)
UnsavedCounted == S!UnsavedCounted

(* Snapshots, AppendOnlyFile: neither dump.rdb nor the append only file    *)
(* ever goes back to an older dataset.                                     *)
FileNeverBack == [][S!FileNeverBackStep /\ FileKeepsDataStep]_<<rdbVars, aofVars>>

(* Snapshots: a change gets to be saved.                                   *)
EventuallySaved == S!EventuallySaved
=============================================================================
