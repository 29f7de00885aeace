------------------------------ MODULE Snapshots ------------------------------
(***************************************************************************)
(* Snapshots (redis-stable/src/rdb.c, serverCron and prepareForShutdown of *)
(* redis.c): SAVE, BGSAVE and its child, the save points, FLUSHALL,        *)
(* SHUTDOWN, a full synchronization of a slave, crashes and the loading of *)
(* the file.                                                               *)
(*                                                                         *)
(* A dataset is the number of changes that led to it: data is the one in   *)
(* memory, file the one in dump.rdb, child.v the one the child saves.      *)
(* aged and retry say that the seconds of the save point passed since      *)
(* lastsave, and REDIS_BGSAVE_RETRY_DELAY since lastbgsave_try.            *)
(***************************************************************************)
EXTENDS Integers

CONSTANTS
    Changes,       \* of the save point
    MaxChanges,    \* bound: changes of the dataset
    MaxFaults,     \* bound: failing saves, forks and children, and crashes
    MaxRewrites    \* bound: rewrites of the append only file

VARIABLES
    up, data, file, child, dirty, before, ok, aged, retry, rewriting,
    orphan,        \* a child whose server crashed
    overtaken,     \* history: another writer of the file passed a running child
    rewrites, faults

rdbVars == <<up, data, file, child, dirty, before, ok, aged, retry, rewriting, orphan,
             overtaken, rewrites, faults>>

NoChild == [st |-> "none", v |-> 0]
NoOrphan == -1
Saving == child.st # "none"                               \* server.rdb_child_pid != -1

Init ==
    /\ up = TRUE /\ data = 0 /\ file = 0 /\ child = NoChild
    /\ dirty = 0 /\ before = 0 /\ ok = TRUE /\ aged = FALSE /\ retry = TRUE
    /\ rewriting = FALSE /\ orphan = NoOrphan /\ overtaken = FALSE
    /\ rewrites = 0 /\ faults = 0

Fault == faults < MaxFaults /\ faults' = faults + 1

(* A command that changes the data; refused after a failed BGSAVE *)
Write ==
    /\ up /\ ok /\ data < MaxChanges
    /\ data' = data + 1 /\ dirty' = dirty + 1
    /\ UNCHANGED <<up, file, child, before, ok, aged, retry, rewriting, orphan, overtaken,
                   rewrites, faults>>

(* rdbSave in the server: the temporary file is renamed when it is         *)
(* complete and synced, or nothing changes                                 *)
RdbSave(d) ==
    /\ file' = d /\ dirty' = 0 /\ ok' = TRUE /\ aged' = FALSE
RdbSaveFails == Fault /\ UNCHANGED <<file, dirty, ok, aged>>

(* saveCommand *)
SaveCommand ==
    /\ up /\ ~Saving
    /\ \/ RdbSave(data) /\ UNCHANGED faults
       \/ RdbSaveFails
    /\ UNCHANGED <<up, data, child, before, retry, rewriting, orphan, overtaken, rewrites>>

(* DEBUG RELOAD saves although a child may be saving *)
DebugReload ==
    /\ up /\ Saving
    /\ RdbSave(data)
    /\ overtaken' = TRUE
    /\ UNCHANGED <<up, data, child, before, retry, rewriting, orphan, rewrites, faults>>

(* rdbSaveBackground *)
RdbSaveBackground ==
    /\ before' = dirty /\ retry' = FALSE
    /\ \/ child' = [st |-> "saving", v |-> data] /\ UNCHANGED <<ok, faults>>
       \/ Fault /\ ok' = FALSE /\ UNCHANGED child
    /\ UNCHANGED <<up, data, file, dirty, aged, rewriting, orphan, overtaken, rewrites>>

(* bgsaveCommand *)
BgsaveCommand == up /\ ~Saving /\ ~rewriting /\ RdbSaveBackground

(* The variant that does not try again after an error. *)
CronSaveNoRetry ==
    /\ up /\ ~Saving /\ ~rewriting
    /\ dirty >= Changes /\ aged /\ ok
    /\ RdbSaveBackground

(* serverCron: the save point is due *)
CronSave ==
    /\ up /\ ~Saving /\ ~rewriting
    /\ dirty >= Changes /\ aged /\ (retry \/ ok)
    /\ RdbSaveBackground

(* The child renames its file, fails, or is killed by somebody else *)
ChildRename ==
    /\ child.st = "saving"
    /\ child' = [child EXCEPT !.st = "renamed"]
    /\ file' = child.v
    /\ UNCHANGED <<up, data, dirty, before, ok, aged, retry, rewriting, orphan, overtaken,
                   rewrites, faults>>
ChildFails ==
    /\ child.st = "saving" /\ Fault
    /\ child' = [child EXCEPT !.st = "failed"]
    /\ UNCHANGED <<up, data, file, dirty, before, ok, aged, retry, rewriting, orphan, overtaken,
                   rewrites>>

(* The variant that takes all changes for saved. *)
DoneHandlerResets ==
    /\ dirty' = IF child.st = "renamed" THEN 0 ELSE dirty
    /\ ok' = IF child.st = "killed" THEN ok ELSE child.st = "renamed"
    /\ aged' = IF child.st = "renamed" THEN FALSE ELSE aged

(* backgroundSaveDoneHandler; SIGUSR1 is no error *)
DoneHandler ==
    /\ dirty' = IF child.st = "renamed" THEN dirty - before ELSE dirty
    /\ ok' = IF child.st = "killed" THEN ok ELSE child.st = "renamed"
    /\ aged' = IF child.st = "renamed" THEN FALSE ELSE aged

(* serverCron: wait3 *)
CronWait ==
    /\ up /\ Saving /\ child.st # "saving"
    /\ DoneHandler
    /\ child' = NoChild
    /\ UNCHANGED <<up, data, file, before, retry, rewriting, orphan, overtaken, rewrites, faults>>

(* The variant that leaves the child alone. *)
NotKilled == child' = child

(* kill with SIGUSR1, and rdbRemoveTempFile; a child that has renamed its  *)
(* file may have exited already.                                           *)
Killed ==
    child' \in CASE child.st = "saving" -> {[child EXCEPT !.st = "killed"]}
                 [] child.st = "renamed" -> {child, [child EXCEPT !.st = "killed"]}
                 [] OTHER -> {child}

(* flushallCommand: the file is saved but what was dirty stays so *)
FlushAll ==
    /\ up /\ ok /\ data < MaxChanges
    /\ data' = data + 1 /\ dirty' = dirty + 1
    /\ Killed
    /\ \/ file' = data' /\ ok' = TRUE /\ aged' = FALSE /\ UNCHANGED faults
       \/ Fault /\ UNCHANGED <<file, ok, aged>>
    /\ UNCHANGED <<up, before, retry, rewriting, orphan, overtaken, rewrites>>

(* prepareForShutdown: with SAVE or NOSAVE; it goes on if the save fails *)
Shutdown ==
    /\ up
    /\ Killed
    /\ \/ RdbSave(data) /\ up' = FALSE /\ UNCHANGED faults
       \/ up' = FALSE /\ UNCHANGED <<file, dirty, ok, aged, faults>>
       \/ RdbSaveFails /\ UNCHANGED up
    /\ UNCHANGED <<data, before, retry, rewriting, orphan, overtaken, rewrites>>

(* The server is gone; its child may live on.  An orphan ends with a       *)
(* rename that nobody expects, or without.                                 *)
Crash ==
    /\ up /\ Fault
    /\ up' = FALSE
    /\ orphan' \in {orphan} \cup (IF child.st = "saving" THEN {child.v} ELSE {})
    /\ child' = NoChild
    /\ UNCHANGED <<data, file, dirty, before, ok, aged, retry, rewriting, overtaken, rewrites>>
OrphanRename ==
    /\ orphan # NoOrphan
    /\ file' \in {file, orphan} /\ orphan' = NoOrphan
    /\ overtaken' = (overtaken \/ file' # file)
    /\ UNCHANGED <<up, data, child, dirty, before, ok, aged, retry, rewriting, rewrites, faults>>

(* main, initServer, loadDataFromDisk, rdbLoad: the database is considered *)
(* saved                                                                   *)
Restart ==
    /\ ~up /\ up' = TRUE
    /\ data' = file /\ child' = NoChild
    /\ dirty' = 0 /\ before' = 0 /\ ok' = TRUE /\ aged' = FALSE /\ retry' = TRUE
    /\ rewriting' = FALSE
    /\ UNCHANGED <<file, orphan, overtaken, rewrites, faults>>

(* readSyncBulkPayload: the dataset of the master takes the place of both *)
FullSync ==
    /\ up /\ data < MaxChanges
    /\ data' = data + 1 /\ file' = data'
    /\ overtaken' = (overtaken \/ Saving)
    /\ UNCHANGED <<up, child, dirty, before, ok, aged, retry, rewriting, orphan, rewrites, faults>>

(* Time, and the rewrites of the append only file *)
Age == up /\ ~aged /\ aged' = TRUE
    /\ UNCHANGED <<up, data, file, child, dirty, before, ok, retry, rewriting, orphan, overtaken,
                   rewrites, faults>>
RetryDelay == up /\ ~retry /\ retry' = TRUE
    /\ UNCHANGED <<up, data, file, child, dirty, before, ok, aged, rewriting, orphan, overtaken,
                   rewrites, faults>>
Rewrite ==
    /\ up /\ ~Saving /\ ~rewriting /\ rewrites < MaxRewrites
    /\ rewriting' = TRUE /\ rewrites' = rewrites + 1
    /\ UNCHANGED <<up, data, file, child, dirty, before, ok, aged, retry, orphan, overtaken, faults>>
RewriteDone ==
    /\ rewriting /\ rewriting' = FALSE
    /\ UNCHANGED <<up, data, file, child, dirty, before, ok, aged, retry, orphan, overtaken,
                   rewrites, faults>>

Next ==
    \/ Write \/ SaveCommand \/ DebugReload \/ BgsaveCommand \/ CronSave
    \/ ChildRename \/ ChildFails \/ CronWait \/ FlushAll \/ Shutdown
    \/ Crash \/ OrphanRename \/ Restart \/ FullSync
    \/ Age \/ RetryDelay \/ Rewrite \/ RewriteDone

Spec == Init /\ [][Next]_rdbVars

-----------------------------------------------------------------------------
(* server.dirty counts at least the changes the file does not have,        *)
(* whatever was saved, killed or flushed while a child was saving: the     *)
(* save points are missed otherwise.                                       *)
UnsavedCounted == up /\ ~overtaken => dirty >= 0 /\ data - file <= dirty

(* dump.rdb never goes back to an older dataset, though a child may be     *)
(* saving one when FLUSHALL or SHUTDOWN save a newer one; DEBUG RELOAD,    *)
(* a full synchronization and a child that outlives its server do not      *)
(* care for the child.                                                     *)
FileNeverBackStep == overtaken' \/ file' >= file

(* The file catches up with the data within the time of a save point and   *)
(* of the retries, unless the server stops: nothing is left behind by a    *)
(* child that failed or was killed.                                        *)
EventuallySaved == []<>(file >= data \/ overtaken \/ ~up)
=============================================================================
