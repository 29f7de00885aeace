------------------------- MODULE MCSentinelFailover -------------------------
(***************************************************************************)
(* The TLC instance of one Sentinel: four servers, one of which must not   *)
(* be promoted, and its notification scripts.  A behaviour is one of the   *)
(* failover or of the scripts, as part says.                               *)
(***************************************************************************)
EXTENDS SentinelFailover

CONSTANTS MaxQueue, MaxRunning, MaxRetry, MaxJobs

VARIABLES part, queue, runningScripts, children, scheduled

S == INSTANCE SentinelScripts

ASSUME ScriptsBounds == S!ScriptsAssumption

scriptVars == <<queue, runningScripts, children, scheduled>>
allVars == <<part, vars, scriptVars>>

SentinelInit == part \in {"failover", "scripts"} /\ Init /\ S!Init

SentinelNext ==
    /\ \/ part = "failover" /\ Next /\ UNCHANGED scriptVars
       \/ part = "scripts" /\ S!Next /\ UNCHANGED vars
    /\ UNCHANGED part

(* The timer fires, time passes and tilt mode is left: serverCron calls    *)
(* sentinelTimer ten times a second.                                       *)
Fairness ==
    /\ WF_vars(part = "failover" /\ HandleMaster)
    /\ WF_vars(part = "failover" /\ \E r \in Servers : AddBack(r))
    /\ WF_vars(part = "failover" /\ Elapse)
    /\ WF_vars(part = "failover" /\ TiltEnds)

SentinelSpec == SentinelInit /\ [][SentinelNext]_allVars /\ Fairness

-----------------------------------------------------------------------------
(* SentinelScripts: queue and children stay within their limits.           *)
ScriptsBounded == S!ScriptsBounded
=============================================================================
