-------------------------- MODULE SentinelScripts ---------------------------
(***************************************************************************)
(* Redis Sentinel (redis-stable/src/sentinel.c), the notification scripts: *)
(* a bounded queue of jobs, a bounded number of child processes, retries   *)
(* of the jobs that fail and SIGKILL for those that take too long.         *)
(*                                                                         *)
(* queue is sentinel.scripts_queue, runningScripts the counter             *)
(* sentinel.running_scripts, children the real child processes, by job.    *)
(* A retry that has to wait for its delay is "delayed".                    *)
(***************************************************************************)
EXTENDS Integers, Sequences, FiniteSets, SequencesExt

CONSTANTS MaxQueue, MaxRunning, MaxRetry, MaxJobs

(* What the constants are *)
ScriptsAssumption ==
    MaxQueue \in Nat /\ MaxRunning \in Nat /\ MaxRetry \in Nat /\ MaxJobs \in Nat

VARIABLES queue, runningScripts, children, scheduled
svars == <<queue, runningScripts, children, scheduled>>

Job == [id : 1..MaxJobs, state : {"pending", "delayed", "running", "killed"}, retry : 0..(MaxRetry + 1)]

TypeOK ==
    /\ queue \in Seq(Job) /\ runningScripts \in Nat
    /\ children \subseteq 1..MaxJobs /\ scheduled \in 0..MaxJobs

IsRunning(j) == j.state \in {"running", "killed"}
Running(q) == {q[i].id : i \in {j \in DOMAIN q : IsRunning(q[j])}}

(* The variant that removes the oldest job, running or not. *)
TrimOldest(q) == IF Len(q) > MaxQueue THEN Tail(q) ELSE q

(* The oldest job that does not run goes when the queue is too long. *)
Trim(q) ==
    LET idle == {i \in DOMAIN q : ~IsRunning(q[i])}
    IN IF Len(q) <= MaxQueue \/ idle = {} THEN q
       ELSE RemoveAt(q, CHOOSE i \in idle : \A j \in idle : i <= j)

(* sentinelScheduleScriptExecution *)
ScheduleScriptExecution ==
    /\ scheduled < MaxJobs
    /\ scheduled' = scheduled + 1
    /\ queue' = Trim(Append(queue, [id |-> scheduled + 1, state |-> "pending", retry |-> 0]))
    /\ UNCHANGED <<runningScripts, children>>

(* sentinelRunPendingScripts: one job, the first that may run.  A fork     *)
(* that fails still counts as a try, so retry_num may step over the limit  *)
(* it is compared with; one more try than that is the bound here.          *)
Runnable(i) == queue[i].state = "pending" /\ \A j \in 1..(i - 1) : queue[j].state # "pending"

RunPendingScripts(i) ==
    /\ runningScripts < MaxRunning
    /\ Runnable(i) /\ queue[i].retry <= MaxRetry
    /\ \/ /\ queue' = [queue EXCEPT ![i].state = "running", ![i].retry = @ + 1]
          /\ runningScripts' = runningScripts + 1
          /\ children' = children \cup {queue[i].id}
       \/ /\ queue' = [queue EXCEPT ![i].retry = @ + 1]
          /\ UNCHANGED <<runningScripts, children>>
    /\ UNCHANGED scheduled

(* sentinelScriptRetryDelay: the delay is over. *)
ScriptRetryDelay(i) ==
    /\ queue[i].state = "delayed"
    /\ queue' = [queue EXCEPT ![i].state = "pending"]
    /\ UNCHANGED <<runningScripts, children, scheduled>>

(* sentinelCollectTerminatedScripts: a child ended by a signal or with     *)
(* exit code 1 is retried, and the counter stays as it is; else the job is *)
(* removed and the counter goes down.                                      *)
CollectTerminatedScripts(i) ==
    /\ IsRunning(queue[i])
    /\ children' = children \ {queue[i].id}
    /\ \E again \in {queue[i].state = "killed", TRUE} :
        IF again /\ queue[i].retry # MaxRetry
        THEN /\ queue' = [queue EXCEPT ![i].state = "delayed"]
             /\ UNCHANGED runningScripts
        ELSE /\ queue' = RemoveAt(queue, i)
             /\ runningScripts' = runningScripts - 1
    /\ UNCHANGED scheduled

(* sentinelKillTimedoutScripts *)
KillTimedoutScripts(i) ==
    /\ queue[i].state = "running"
    /\ queue' = [queue EXCEPT ![i].state = "killed"]
    /\ UNCHANGED <<runningScripts, children, scheduled>>

Init == queue = <<>> /\ runningScripts = 0 /\ children = {} /\ scheduled = 0

Next ==
    \/ ScheduleScriptExecution
    \/ \E i \in DOMAIN queue :
        \/ RunPendingScripts(i) \/ ScriptRetryDelay(i)
        \/ CollectTerminatedScripts(i) \/ KillTimedoutScripts(i)

Spec == Init /\ [][Next]_svars

-----------------------------------------------------------------------------
(* The queue stays within SENTINEL_SCRIPT_MAX_QUEUE, as the assertion of   *)
(* sentinelScheduleScriptExecution says, and never more children run than  *)
(* SENTINEL_SCRIPT_MAX_RUNNING; every child is still in the queue when it  *)
(* is waited for.                                                          *)
ScriptsBounded ==
    /\ Len(queue) <= MaxQueue
    /\ Cardinality(children) <= MaxRunning
    /\ children = Running(queue)
=============================================================================
