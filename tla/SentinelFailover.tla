-------------------------- MODULE SentinelFailover --------------------------
(***************************************************************************)
(* Redis Sentinel (redis-stable/src/sentinel.c), one Sentinel at work on   *)
(* one master: watching it and its slaves, the failover state machine, the *)
(* orders it sends to the servers, and its configuration file.  Whom the   *)
(* other Sentinels elect is in SentinelElection; here being the leader,    *)
(* and the others' opinion of the master, is a choice at each tick.        *)
(*                                                                         *)
(* srv[r] is the real server r: whether the Sentinel reaches it and whom   *)
(* it replicates from.  mst is the master instance; slv the table of       *)
(* slaves, with the reconfiguration flags; late says that failover_timeout *)
(* passed since the state of the failover last changed.  An order is       *)
(* executed at once by a server that is reached, or lost.  The switch to   *)
(* another master writes the file once for each slave it adds back: change *)
(* has those it still has to, for the Sentinel may die in between; unsaved *)
(* are the servers seen since the file was last written.                   *)
(***************************************************************************)
EXTENDS Integers, FiniteSets

CONSTANTS Servers, FirstMaster, NeverPromoted, ParallelSyncs, MaxFaults, MaxFailovers, None

ASSUME FailoverAssumption ==
    /\ IsFiniteSet(Servers) /\ FirstMaster \in Servers /\ None \notin Servers
    /\ ParallelSyncs \in Nat /\ MaxFaults \in Nat /\ MaxFailovers \in Nat

VARIABLES srv, mst, slv, change, late, tilt, file, unsaved, faults, failovers
vars == <<srv, mst, slv, change, late, tilt, file, unsaved, faults, failovers>>
disk == <<file, unsaved>>

FailoverStates == {"none", "wait_start", "select_slave", "send_slaveof_noone", "wait_promotion",
                   "reconf_slaves"}
Roles == {"master", "slave"}
Slave == [sdown : BOOLEAN, flags : SUBSET {"sent", "inprog", "done"}]

TypeOK ==
    /\ srv \in [Servers -> [up : BOOLEAN, of : Servers \cup {None}]]
    /\ mst \in [addr : Servers, sdown : BOOLEAN, role : Roles, state : FailoverStates,
                promoted : Servers \cup {None}, forced : BOOLEAN]
    /\ \E K \in SUBSET Servers : slv \in [K -> Slave]
    /\ change \in [left : SUBSET Servers, last : Servers \cup {None}]
    /\ late \in BOOLEAN /\ tilt \in BOOLEAN
    /\ file \in [addr : Servers, slaves : SUBSET Servers] /\ unsaved \subseteq Servers
    /\ faults \in 0..MaxFaults /\ failovers \in 0..MaxFailovers

(* What the Sentinel knows of; those it is about to add back are known. *)
Monitored == {mst.addr} \cup DOMAIN slv \cup change.left

-----------------------------------------------------------------------------
(* Instances *)

(* createSentinelRedisInstance *)
NewSlaves(K) == [r \in K |-> [sdown |-> FALSE, flags |-> {}]]
NewMaster(a) == [addr |-> a, sdown |-> FALSE, role |-> "master", state |-> "none",
                 promoted |-> None, forced |-> FALSE]

(* sentinelFlushConfig, rewriteConfigSentinelOption: the address is that   *)
(* of the promoted slave once it confirmed; the slaves are saved as they   *)
(* are, the promoted one among them.                                       *)
FlushConfig(m, K) ==
    /\ file' = [addr |-> IF m.state = "reconf_slaves" THEN m.promoted ELSE m.addr, slaves |-> K]
    /\ unsaved' = {}

NoChange == [left |-> {}, last |-> None]

(* Between two handlers: no change of address is half done. *)
Idle == change = NoChange

(* The variant of ResetMasterAndChangeAddress that drops the old master. *)
SwitchForgettingMaster(a) ==
    /\ mst' = NewMaster(a)
    /\ slv' = NewSlaves({})
    /\ late' = FALSE
    /\ change' = [left |-> DOMAIN slv \ {a}, last |-> None]
    /\ UNCHANGED disk

(* sentinelResetMasterAndChangeAddress: the tables are reset, to be filled *)
(* one by one, the old master last.                                        *)
ResetMasterAndChangeAddress(a) ==
    /\ mst' = NewMaster(a)
    /\ slv' = NewSlaves({})
    /\ late' = FALSE
    /\ change' = [left |-> Monitored \ {a}, last |-> mst.addr]
    /\ UNCHANGED disk

(* ... and each time the file is written. *)
AddBack(r) ==
    /\ r \in change.left
    /\ r = change.last => change.left = {r}
    /\ slv' = NewSlaves(DOMAIN slv \cup {r})
    /\ change' = IF change.left = {r} THEN NoChange ELSE [change EXCEPT !.left = @ \ {r}]
    /\ FlushConfig(mst, DOMAIN slv \cup {r})
    /\ UNCHANGED <<srv, mst, late, tilt, faults, failovers>>

(* sentinelSendSlaveOf: the servers of to are ordered to replicate from a, *)
(* or from none; the orders to lost do not arrive.                         *)
SendSlaveOf(to, a) ==
    \E lost \in SUBSET {r \in to : srv[r].up} :
        srv' = [r \in Servers |->
                  IF r \in to \ lost /\ srv[r].up THEN [srv[r] EXCEPT !.of = a] ELSE srv[r]]

(* sentinelMasterLooksSane, as far as time does not decide. *)
MasterLooksSane == mst.role = "master" /\ ~mst.sdown

(* sentinelCheckSubjectivelyDown *)
SubjectivelyDown(r, sdown, misreports) ==
    IF ~srv[r].up THEN {sdown, TRUE} ELSE IF misreports THEN {sdown, TRUE} ELSE {FALSE}

-----------------------------------------------------------------------------
(* The failover state machine, on the master m of this tick *)

To(m, state) == mst' = [m EXCEPT !.state = state] /\ late' = FALSE
Stay(m) == mst' = m /\ late' = (late /\ m.state = mst.state)
Timeout(m) == late /\ m.state = mst.state

(* sentinelAbortFailover *)
Abort(m) ==
    /\ mst' = [m EXCEPT !.state = "none", !.promoted = None, !.forced = FALSE]
    /\ late' = FALSE

(* sentinelFailoverWaitStart: the leader, and who was told to, goes on. *)
WaitStart(m) ==
    /\ m.state = "wait_start"
    /\ \/ To(m, "select_slave")
       \/ ~m.forced /\ IF Timeout(m) THEN Abort(m) ELSE Stay(m)
    /\ UNCHANGED <<srv, slv, change, disk>>

(* sentinelSelectSlave: a slave that is down, or has priority 0, is out;   *)
(* time may rule out others.                                               *)
Candidates == {r \in DOMAIN slv \ NeverPromoted : ~slv[r].sdown}

(* sentinelFailoverSelectSlave *)
FailoverSelectSlave(m) ==
    /\ m.state = "select_slave"
    /\ \/ Abort(m)
       \/ \E r \in Candidates : To([m EXCEPT !.promoted = r], "send_slaveof_noone")
    /\ UNCHANGED <<srv, slv, change, disk>>

(* sentinelFailoverSendSlaveOfNoOne *)
FailoverSendSlaveOfNoOne(m) ==
    /\ m.state = "send_slaveof_noone"
    /\ \/ UNCHANGED srv /\ IF Timeout(m) THEN Abort(m) ELSE Stay(m)
       \/ SendSlaveOf({m.promoted}, None) /\ To(m, "wait_promotion")
    /\ UNCHANGED <<slv, change, disk>>

(* The variant without a timeout. *)
WaitPromotionForever(m) ==
    /\ m.state = "wait_promotion"
    /\ Stay(m)
    /\ UNCHANGED <<srv, slv, change, disk>>

(* sentinelFailoverWaitPromotion *)
FailoverWaitPromotion(m) ==
    /\ m.state = "wait_promotion"
    /\ IF Timeout(m) THEN Abort(m) ELSE Stay(m)
    /\ UNCHANGED <<srv, slv, change, disk>>

Busy(t) == {r \in DOMAIN t : t[r].flags \cap {"sent", "inprog"} # {}}

(* sentinelFailoverDetectEnd, with the slaves t of which conn are          *)
(* connected, sent the ones just sent an order.  At the timeout            *)
(* a last order goes to all the slaves, the promoted one among them, that  *)
(* have not had one.  The end is the switch to the promoted slave at the   *)
(* end of this tick.                                                       *)
DetectEnd(m, t, conn, sent) ==
    LET behind == {r \in DOMAIN t \ {m.promoted} : "done" \notin t[r].flags /\ ~t[r].sdown}
        last == {r \in conn : t[r].flags \cap {"done", "sent"} = {}}
        reachable == ~t[m.promoted].sdown
    IN \/ /\ reachable /\ Timeout(m)
          /\ SendSlaveOf(sent \cup last, m.promoted)
          /\ ResetMasterAndChangeAddress(m.promoted)
       \/ /\ reachable /\ ~Timeout(m) /\ behind = {}
          /\ SendSlaveOf(sent, m.promoted)
          /\ ResetMasterAndChangeAddress(m.promoted)
       \/ /\ ~reachable \/ (~Timeout(m) /\ behind # {})
          /\ SendSlaveOf(sent, m.promoted)
          /\ slv' = t /\ Stay(m)
          /\ UNCHANGED <<change, disk>>

(* One visit of slave r: a slave that got its order long ago counts as     *)
(* done, and is sent another one if it is connected.                       *)
Visited(r, old, sent) ==
    [slv[r] EXCEPT !.flags = (IF r \in old THEN {"done"} ELSE @)
                             \cup (IF r \in sent THEN {"sent"} ELSE {})]

(* The variant that does not count the slaves already on their way. *)
ReconfAllSlaves(m) ==
    /\ m.state = "reconf_slaves"
    /\ \E conn \in SUBSET DOMAIN slv :
        LET sent == {r \in conn \ {m.promoted} : slv[r].flags = {}}
        IN DetectEnd(m, [r \in DOMAIN slv |-> Visited(r, {}, sent)], conn, sent)

(* sentinelFailoverReconfNextSlave: the slaves seen are visited, in the    *)
(* order of the dictionary, until parallel_syncs are busy.                 *)
FailoverReconfNextSlave(m) ==
    /\ m.state = "reconf_slaves"
    /\ \E conn \in SUBSET DOMAIN slv, old \in SUBSET {r \in DOMAIN slv : "sent" \in slv[r].flags} :
        LET room == ParallelSyncs - Cardinality(Busy(slv))
            work == {r \in DOMAIN slv \ {m.promoted} :
                        "done" \notin slv[r].flags /\ (r \in old \/ (r \in conn /\ slv[r].flags = {}))}
        IN \E seen \in SUBSET work :
            LET sent == seen \cap conn IN
            /\ room <= 0 => seen = {}
            /\ Cardinality(sent) <= room \/ sent = {}
            /\ seen = work \/ Cardinality(sent) >= room
            /\ DetectEnd(m, [r \in DOMAIN slv |->
                               IF r \in seen THEN Visited(r, old, sent) ELSE slv[r]], conn, sent)

FailoverStateMachine(m) ==
    \/ m.state = "none" /\ Stay(m) /\ UNCHANGED <<srv, slv, change, disk>>
    \/ WaitStart(m) \/ FailoverSelectSlave(m) \/ FailoverSendSlaveOfNoOne(m)
    \/ FailoverWaitPromotion(m) \/ FailoverReconfNextSlave(m)

CanStart == mst.state = "none" /\ failovers < MaxFailovers

(* sentinelHandleRedisInstance on the master: a failover starts when it is *)
(* down for this Sentinel and for enough others, none is in progress and   *)
(* the last is long ago (choices).  SRI_O_DOWN is used within the tick.    *)
HandleMaster ==
    /\ Idle /\ ~tilt
    /\ \E sdown \in SubjectivelyDown(mst.addr, mst.sdown, mst.role = "slave") :
       \E start \in {FALSE} \cup (IF sdown /\ CanStart THEN {TRUE} ELSE {}) :
        LET m == [mst EXCEPT !.sdown = sdown]
        IN FailoverStateMachine(IF start THEN [m EXCEPT !.state = "wait_start"] ELSE m)
           /\ failovers' = failovers + IF start THEN 1 ELSE 0
    /\ UNCHANGED <<tilt, faults>>

(* sentinelHandleRedisInstance on a slave *)
HandleSlave(r) ==
    /\ Idle /\ ~tilt /\ r \in DOMAIN slv
    /\ \E sdown \in SubjectivelyDown(r, slv[r].sdown, FALSE) : slv' = [slv EXCEPT ![r].sdown = sdown]
    /\ UNCHANGED <<srv, mst, change, late, tilt, disk, faults, failovers>>

-----------------------------------------------------------------------------
(* INFO: sentinelRefreshInstanceInfo *)

Role(r) == IF srv[r].of = None THEN "master" ELSE "slave"

(* The master lists its slaves; the unknown ones are added. The file is    *)
(* not written for them.                                                   *)
InfoFromMaster ==
    LET new == {r \in Servers : srv[r].of = mst.addr /\ srv[r].up} \ DOMAIN slv
    IN /\ Idle /\ srv[mst.addr].up
       /\ mst' = [mst EXCEPT !.role = Role(mst.addr)]
       /\ slv' = [r \in DOMAIN slv \cup new |-> IF r \in new THEN NewSlaves(new)[r] ELSE slv[r]]
       /\ unsaved' = unsaved \cup new
       /\ UNCHANGED <<srv, change, late, tilt, file, faults, failovers>>

(* A slave that turned into a master: whichever it is, the failover that   *)
(* waits for a promotion goes on.  Else it may be time to order it back.   *)
SlaveTurnedMaster(r) ==
    IF mst.state = "wait_promotion"
    THEN /\ To(mst, "reconf_slaves")
         /\ FlushConfig([mst EXCEPT !.state = "reconf_slaves"], DOMAIN slv)
         /\ UNCHANGED srv
    ELSE /\ \/ UNCHANGED srv
            \/ MasterLooksSane /\ SendSlaveOf({r}, mst.addr)
         /\ UNCHANGED <<mst, late, disk>>

(* A slave reports its master: it may be of the wrong one and be ordered   *)
(* back, or be on its way to the promoted slave.                           *)
Progress(r, flags, linkUp) ==
    LET f == IF "sent" \in flags /\ srv[r].of = mst.promoted
             THEN (flags \ {"sent"}) \cup {"inprog"} ELSE flags
    IN IF "inprog" \in f /\ linkUp THEN (f \ {"inprog"}) \cup {"done"} ELSE f

SlaveReports(r) ==
    /\ \/ UNCHANGED srv
       \/ srv[r].of # mst.addr /\ MasterLooksSane /\ SendSlaveOf({r}, mst.addr)
    /\ UNCHANGED <<mst, late, disk>>

(* In tilt mode nothing is done about what is reported. *)
InfoFromSlave(r) ==
    /\ Idle /\ r \in DOMAIN slv /\ srv[r].up
    /\ \E linkUp \in {FALSE} \cup (IF srv[r].of # None /\ srv[srv[r].of].up THEN {TRUE} ELSE {}) :
        slv' = [slv EXCEPT ![r].flags = IF tilt \/ Role(r) = "master" THEN @
                                        ELSE Progress(r, @, linkUp)]
    /\ IF tilt THEN UNCHANGED <<srv, mst, late, disk>>
       ELSE IF Role(r) = "master" THEN SlaveTurnedMaster(r) ELSE SlaveReports(r)
    /\ UNCHANGED <<change, tilt, faults, failovers>>

-----------------------------------------------------------------------------
(* Time, faults, and what arrives from outside *)

(* failover_timeout passes. *)
Elapse ==
    /\ Idle /\ mst.state # "none" /\ ~late
    /\ late' = TRUE
    /\ UNCHANGED <<srv, mst, slv, change, tilt, disk, faults, failovers>>

Fault == faults < MaxFaults /\ faults' = faults + 1

Unreachable(r) ==
    /\ Fault /\ srv[r].up
    /\ srv' = [srv EXCEPT ![r].up = FALSE]
    /\ UNCHANGED <<mst, slv, change, late, tilt, disk, failovers>>

Reachable(r) ==
    /\ ~srv[r].up
    /\ srv' = [srv EXCEPT ![r].up = TRUE]
    /\ UNCHANGED <<mst, slv, change, late, tilt, disk, faults, failovers>>

(* sentinelCheckTiltCondition: the clock jumped. *)
TiltCondition ==
    /\ Fault /\ Idle /\ ~tilt
    /\ tilt' = TRUE
    /\ UNCHANGED <<srv, mst, slv, change, late, disk, failovers>>

TiltEnds ==
    /\ Idle /\ tilt
    /\ tilt' = FALSE
    /\ UNCHANGED <<srv, mst, slv, change, late, disk, faults, failovers>>

(* SENTINEL FAILOVER *)
FailoverCommand ==
    /\ Fault /\ Idle /\ CanStart /\ Candidates # {}
    /\ failovers' = failovers + 1
    /\ To([mst EXCEPT !.forced = TRUE], "wait_start")
    /\ UNCHANGED <<srv, slv, change, tilt, disk>>

(* SENTINEL RESET: sentinelResetMaster *)
ResetCommand ==
    /\ Fault /\ Idle
    /\ mst' = NewMaster(mst.addr)
    /\ slv' = NewSlaves({})
    /\ late' = FALSE
    /\ UNCHANGED <<srv, change, tilt, disk, failovers>>

(* sentinelProcessHelloMessage: another Sentinel promoted the slave a. *)
ConfigUpdate(a) ==
    /\ Fault /\ Idle /\ a \in DOMAIN slv
    /\ srv' = [srv EXCEPT ![a].of = None]
    /\ ResetMasterAndChangeAddress(a)
    /\ UNCHANGED <<tilt, failovers>>

(* The file is written for another reason: a vote (sentinelVoteLeader), a  *)
(* new Sentinel or epoch (sentinelProcessHelloMessage), SENTINEL SET.      *)
FlushElsewhere ==
    /\ Idle
    /\ FlushConfig(mst, DOMAIN slv)
    /\ UNCHANGED <<srv, mst, slv, change, late, tilt, faults, failovers>>

(* The Sentinel dies; sentinelHandleConfiguration reads the file back. *)
Restart ==
    /\ Fault
    /\ mst' = NewMaster(file.addr)
    /\ slv' = NewSlaves(file.slaves)
    /\ late' = FALSE /\ tilt' = FALSE
    /\ change' = NoChange /\ unsaved' = {}
    /\ UNCHANGED <<srv, file, failovers>>

-----------------------------------------------------------------------------
(* The Sentinel starts with the slaves of its file, all of them or none as *)
(* yet; the master may be down by then.                                    *)
Init ==
    /\ \E up \in BOOLEAN :
        srv = [r \in Servers |-> [up |-> r # FirstMaster \/ up, of |-> IF r = FirstMaster THEN None
                                                                     ELSE FirstMaster]]
    /\ \E K \in {{}, Servers \ {FirstMaster}} :
        /\ slv = NewSlaves(K)
        /\ file = [addr |-> FirstMaster, slaves |-> K]
    /\ mst = NewMaster(FirstMaster)
    /\ change = NoChange
    /\ late = FALSE /\ tilt = FALSE
    /\ unsaved = {}
    /\ faults = 0 /\ failovers = 0

Next ==
    \/ HandleMaster \/ InfoFromMaster \/ Elapse \/ TiltCondition \/ TiltEnds
    \/ FailoverCommand \/ ResetCommand \/ FlushElsewhere \/ Restart
    \/ \E r \in Servers :
        \/ HandleSlave(r) \/ InfoFromSlave(r) \/ AddBack(r)
        \/ Unreachable(r) \/ Reachable(r) \/ ConfigUpdate(r)

Spec == Init /\ [][Next]_vars

-----------------------------------------------------------------------------
(* The code follows master->promoted_slave without a test in these states  *)
(* (sentinelFailoverSendSlaveOfNoOne, sentinelFailoverReconfNextSlave),    *)
(* and when a slave that was sent an order reports                         *)
(* (sentinelRefreshInstanceInfo): it is then never NULL, and is in the     *)
(* table of slaves, whatever reset, update or restart came between.        *)
NeedsPromoted ==
    mst.state \in {"send_slaveof_noone", "wait_promotion", "reconf_slaves"} \/ Busy(slv) # {}
        => mst.promoted \in DOMAIN slv

(* Never more than parallel_syncs slaves are on their way to the new       *)
(* master at once, with the order to one of them repeated too.             *)
ParallelSyncsKept == Cardinality(Busy(slv)) <= ParallelSyncs

(* The promoted slave is there when the code follows the pointer to it,    *)
(* and never more than parallel_syncs slaves are reconfigured at once.     *)
ReconfigurationSound == NeedsPromoted /\ ParallelSyncsKept

(* No step loses sight of a server: what was monitored as master or slave  *)
(* stays so through failovers and configuration updates.  SENTINEL RESET   *)
(* is excepted.  A restart forgets only what INFO showed since the file    *)
(* was last written, and what a change of address it interrupted had not   *)
(* added back yet; unless the file is from the time in which slaves were   *)
(* reconfigured: then it holds the promoted slave twice, and the old       *)
(* master not at all.                                                      *)
NoServerForgottenStep ==
    \/ Monitored \subseteq Monitored'
    \/ ResetCommand
    \/ Restart /\ \/ Monitored \ Monitored' \subseteq unsaved \cup change.left
                  \/ file.addr \in file.slaves
NoServerForgotten == [][NoServerForgottenStep]_vars

(* Every failover ends, by a switch or an abort, unless the promoted slave *)
(* stays subjectively down: only then has no state a timeout.              *)
FailoverEnds ==
    []<>(mst.state = "none" \/ (mst.state = "reconf_slaves" /\ slv[mst.promoted].sdown))
=============================================================================
