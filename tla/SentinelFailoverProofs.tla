----------------------- MODULE SentinelFailoverProofs -----------------------
(***************************************************************************)
(* The failover of one Sentinel for any finite set of servers, any number  *)
(* of faults and of failovers and any parallel_syncs; and its notification *)
(* scripts, for any limits of the queue, of the children and of retries.   *)
(***************************************************************************)
EXTENDS MCSentinelFailover, FiniteSetTheorems, SequenceTheorems, WellFoundedInduction, TLAPS

Master == [addr : Servers, sdown : BOOLEAN, role : Roles, state : FailoverStates,
           promoted : Servers \cup {None}, forced : BOOLEAN]
Server == [up : BOOLEAN, of : Servers \cup {None}]
File == [addr : Servers, slaves : SUBSET Servers]
Change == [left : SUBSET Servers, last : Servers \cup {None}]

USE DEF disk

(* The states of a failover in which a slave is chosen. *)
Led == {"send_slaveof_noone", "wait_promotion", "reconf_slaves"}

(* The file lists what is monitored, but for what was seen since and what  *)
(* is still to be added back; unless it was written while the slaves were  *)
(* reconfigured: then it holds the promoted slave twice.                   *)
FileCovers ==
    \/ file.addr \in file.slaves
    \/ Monitored \subseteq {file.addr} \cup file.slaves \cup unsaved \cup change.left

(* What the tables and the file keep: slaves are on their way only while   *)
(* the failover reconfigures them, and a chosen slave stays in the table.  *)
CoreInv ==
    /\ mst \in Master
    /\ DOMAIN slv \in SUBSET Servers
    /\ slv \in [DOMAIN slv -> Slave]
    /\ file \in File /\ unsaved \in SUBSET Servers /\ change \in Change
    /\ Busy(slv) # {} => mst.state = "reconf_slaves"
    /\ mst.state \in Led => mst.promoted \in DOMAIN slv
    /\ ParallelSyncsKept
    /\ FileCovers

RestType ==
    /\ srv \in [Servers -> Server]
    /\ late \in BOOLEAN /\ tilt \in BOOLEAN
    /\ faults \in 0..MaxFaults /\ failovers \in 0..MaxFailovers

FailoverInv == CoreInv /\ RestType

-----------------------------------------------------------------------------
(* Tables *)

(* A new table of slaves: none of them is on its way. *)
LEMMA NewSlavesFacts ==
    ASSUME NEW K, K \subseteq Servers
    PROVE /\ DOMAIN NewSlaves(K) = K
          /\ NewSlaves(K) \in [K -> Slave]
          /\ Busy(NewSlaves(K)) = {}
  BY DEF NewSlaves, Slave, Busy

(* A new master instance is in no failover. *)
LEMMA NewMasterFacts ==
    ASSUME NEW a \in Servers
    PROVE /\ NewMaster(a) \in Master
          /\ NewMaster(a).addr = a
          /\ NewMaster(a).state = "none"
  BY DEF NewMaster, Master, Roles, FailoverStates

(* The busy slaves are finitely many. *)
LEMMA BusyFinite ==
    ASSUME NEW t, DOMAIN t \subseteq Servers
    PROVE /\ IsFiniteSet(Busy(t))
          /\ Cardinality(Busy(t)) \in Nat
  <1>1. Busy(t) \subseteq Servers
    BY DEF Busy
  <1> QED
    BY <1>1, FailoverAssumption, FS_Subset, FS_CardinalityType

LEMMA EmptyKept == Cardinality({}) <= ParallelSyncs
  <1>1. Cardinality({}) = 0
    BY FS_EmptySet
  <1> QED
    BY <1>1, FailoverAssumption

LEMMA NoChangeType == NoChange \in Change /\ NoChange.left = {}
  BY DEF NoChange, Change

(* A table of new slaves, with a new master, and a file that covers them.  *)
LEMMA Renewed ==
    ASSUME NEW a \in Servers, NEW K \in SUBSET Servers,
           mst' = NewMaster(a), slv' = NewSlaves(K), file' \in File,
           change' \in Change, unsaved' \in SUBSET Servers,
           \/ file'.addr \in file'.slaves
           \/ {a} \cup K \subseteq {file'.addr} \cup file'.slaves \cup unsaved' \cup change'.left
    PROVE CoreInv' /\ Monitored' = {a} \cup K \cup change'.left
  <1>1. DOMAIN slv' = K /\ slv' \in [K -> Slave] /\ Busy(slv') = {}
    BY NewSlavesFacts
  <1>2. mst' \in Master /\ mst'.addr = a /\ mst'.state = "none"
    BY NewMasterFacts
  <1>3. ParallelSyncsKept'
    BY <1>1, EmptyKept DEF ParallelSyncsKept
  <1>4. Monitored' = {a} \cup K \cup change'.left
    BY <1>1, <1>2 DEF Monitored
  <1>5. FileCovers'
    BY <1>4 DEF FileCovers
  <1> QED
    BY <1>1, <1>2, <1>3, <1>4, <1>5 DEF CoreInv, Led

(* The switch to a slave: all the others, and the old master, are to be    *)
(* added back.                                                             *)
LEMMA Switched ==
    ASSUME CoreInv, Idle, NEW a \in DOMAIN slv, ResetMasterAndChangeAddress(a)
    PROVE CoreInv' /\ Monitored \subseteq Monitored'
  <1> DEFINE K == Monitored \ {a}
             c == [left |-> K, last |-> mst.addr]
  <1>1. mst.addr \in Servers /\ DOMAIN slv \subseteq Servers /\ a \in Servers /\ change.left = {}
    BY NoChangeType DEF CoreInv, Master, Idle
  <1>2. K \in SUBSET Servers
    BY <1>1 DEF Monitored
  <1>3. mst' = NewMaster(a) /\ slv' = NewSlaves({}) /\ change' = c /\ UNCHANGED <<file, unsaved>>
    BY DEF ResetMasterAndChangeAddress
  <1>4. change' \in Change /\ change'.left = K
    BY <1>1, <1>2, <1>3 DEF Change
  <1>5. a \in Monitored /\ Monitored \subseteq {a} \cup K
    BY DEF Monitored
  <1>6. file'.addr \in file'.slaves \/ {a} \cup {} \subseteq {file'.addr} \cup file'.slaves \cup unsaved' \cup change'.left
    BY <1>1, <1>3, <1>5 DEF CoreInv, FileCovers
  <1>7. file' \in File /\ unsaved' \in SUBSET Servers
    BY <1>3 DEF CoreInv
  <1> HIDE DEF K, c
  <1>8. CoreInv' /\ Monitored' = {a} \cup {} \cup change'.left
    BY <1>1, <1>3, <1>4, <1>6, <1>7, Renewed
  <1> QED
    BY <1>4, <1>5, <1>8

(* A step that leaves the file and the names in the table alone *)
LEMMA Moved ==
    ASSUME CoreInv, mst' \in Master, mst'.addr = mst.addr,
           DOMAIN slv' = DOMAIN slv, slv' \in [DOMAIN slv -> Slave], UNCHANGED <<change, disk>>,
           Busy(slv') # {} => mst'.state = "reconf_slaves",
           mst'.state \in Led => mst'.promoted \in DOMAIN slv,
           Cardinality(Busy(slv')) <= ParallelSyncs
    PROVE CoreInv' /\ Monitored' = Monitored
  <1>1. Monitored' = Monitored
    BY DEF Monitored
  <1>2. FileCovers'
    BY <1>1 DEF CoreInv, FileCovers
  <1>3. ParallelSyncsKept'
    BY DEF ParallelSyncsKept
  <1> QED
    BY <1>1, <1>2, <1>3 DEF CoreInv

(* A step that leaves the slaves and the file alone *)
LEMMA MasterMoved ==
    ASSUME CoreInv, mst' \in Master, mst'.addr = mst.addr, UNCHANGED <<slv, change, disk>>,
           mst.state = "reconf_slaves" => mst'.state = "reconf_slaves",
           mst'.state \in Led => mst'.promoted \in DOMAIN slv
    PROVE CoreInv' /\ Monitored' = Monitored
  <1>1. slv' = slv /\ Busy(slv') = Busy(slv)
    OBVIOUS
  <1>2. slv' \in [DOMAIN slv -> Slave]
    BY <1>1 DEF CoreInv
  <1>3. Cardinality(Busy(slv')) <= ParallelSyncs
    BY <1>1 DEF CoreInv, ParallelSyncsKept
  <1>4. Busy(slv') # {} => mst'.state = "reconf_slaves"
    BY <1>1 DEF CoreInv
  <1> QED
    BY <1>1, <1>2, <1>3, <1>4, Moved

(* Orders change whom a server replicates from. *)
LEMMA OrdersType ==
    ASSUME srv \in [Servers -> Server], NEW to, NEW a \in Servers \cup {None}, SendSlaveOf(to, a)
    PROVE srv' \in [Servers -> Server]
  <1>1. PICK lost :
          srv' = [r \in Servers |->
                    IF r \in to \ lost /\ srv[r].up THEN [srv[r] EXCEPT !.of = a] ELSE srv[r]]
    BY DEF SendSlaveOf
  <1>2. \A r \in Servers : srv[r] \in Server /\ [srv[r] EXCEPT !.of = a] \in Server
    BY DEF Server
  <1> QED
    BY <1>1, <1>2

-----------------------------------------------------------------------------
(* The failover state machine *)

(* What a tick with the master m must show *)
Ticked == /\ CoreInv' /\ Monitored \subseteq Monitored'
          /\ srv' \in [Servers -> Server] /\ late' \in BOOLEAN

TickMaster(m) ==
    /\ m.addr = mst.addr /\ m.promoted = mst.promoted
    /\ m.state = mst.state \/ (mst.state = "none" /\ m.state = "wait_start")

(* The master of a tick is moved to another state, with a slave chosen. *)
LEMMA ToStep ==
    ASSUME CoreInv, NEW m \in Master, m.addr = mst.addr, NEW s \in FailoverStates, To(m, s),
           mst.state # "reconf_slaves", s \in Led => m.promoted \in DOMAIN slv,
           UNCHANGED <<slv, change, disk>>
    PROVE CoreInv' /\ Monitored' = Monitored /\ late' \in BOOLEAN
  <1>1. mst' = [m EXCEPT !.state = s] /\ late' = FALSE
    BY DEF To
  <1>2. mst' \in Master /\ mst'.addr = mst.addr /\ mst'.state = s /\ mst'.promoted = m.promoted
    BY <1>1 DEF Master
  <1>3. CoreInv' /\ Monitored' = Monitored
    BY <1>2, MasterMoved
  <1> QED
    BY <1>1, <1>3

LEMMA StayStep ==
    ASSUME CoreInv, NEW m \in Master, TickMaster(m), Stay(m), UNCHANGED <<slv, change, disk>>
    PROVE CoreInv' /\ Monitored' = Monitored /\ late' \in BOOLEAN
  <1>1. mst' = m
    BY DEF Stay
  <1>2. late' \in BOOLEAN
    BY Zenon DEF Stay
  <1>3. mst'.state \in Led => mst'.promoted \in DOMAIN slv
    BY <1>1 DEF CoreInv, TickMaster, Led
  <1>4. mst.state = "reconf_slaves" => mst'.state = "reconf_slaves"
    BY <1>1 DEF TickMaster
  <1> QED
    BY <1>1, <1>2, <1>3, <1>4, MasterMoved DEF TickMaster

LEMMA AbortStep ==
    ASSUME CoreInv, NEW m \in Master, m.addr = mst.addr, Abort(m),
           mst.state # "reconf_slaves", UNCHANGED <<slv, change, disk>>
    PROVE CoreInv' /\ Monitored' = Monitored /\ late' \in BOOLEAN
  <1>1. mst' = [m EXCEPT !.state = "none", !.promoted = None, !.forced = FALSE] /\ late' = FALSE
    BY DEF Abort
  <1>2. mst' \in Master /\ mst'.addr = mst.addr /\ mst'.state = "none"
    BY <1>1 DEF Master, FailoverStates
  <1>3. CoreInv' /\ Monitored' = Monitored
    BY <1>2, MasterMoved DEF Led
  <1> QED
    BY <1>1, <1>3

(* The end of a tick in reconf_slaves, with the slaves visited *)
LEMMA DetectEndStep ==
    ASSUME CoreInv, Idle, srv \in [Servers -> Server], NEW m \in Master, TickMaster(m),
           m.state = "reconf_slaves", NEW t \in [DOMAIN slv -> Slave], NEW conn, NEW sent,
           Cardinality(Busy(t)) <= ParallelSyncs, DetectEnd(m, t, conn, sent)
    PROVE Ticked
  <1>1. mst.state = "reconf_slaves" /\ m.promoted \in DOMAIN slv /\ m.promoted \in Servers
    BY DEF CoreInv, TickMaster, Led
  <1>2. PICK to : SendSlaveOf(to, m.promoted)
    BY DEF DetectEnd
  <1>3. srv' \in [Servers -> Server]
    BY <1>1, <1>2, OrdersType
  <1>4. CASE ResetMasterAndChangeAddress(m.promoted)
    <2>1. CoreInv' /\ Monitored \subseteq Monitored'
      BY <1>1, <1>4, Switched
    <2>2. late' = FALSE
      BY <1>4 DEF ResetMasterAndChangeAddress
    <2> QED
      BY <1>3, <2>1, <2>2 DEF Ticked
  <1>5. CASE slv' = t /\ Stay(m) /\ UNCHANGED <<change, disk>>
    <2>1. mst' = m
      BY <1>5 DEF Stay
    <2>2. late' \in BOOLEAN
      BY <1>5, Zenon DEF Stay
    <2>3. DOMAIN slv' = DOMAIN slv /\ slv' \in [DOMAIN slv -> Slave]
      BY <1>5
    <2>4. CoreInv' /\ Monitored' = Monitored
      BY <1>1, <1>5, <2>1, <2>3, Moved DEF TickMaster
    <2> QED
      BY <1>3, <2>2, <2>4 DEF Ticked
  <1> QED
    BY <1>4, <1>5 DEF DetectEnd

(* Visiting the slaves never makes more than parallel_syncs of them busy. *)
LEMMA ReconfStep ==
    ASSUME CoreInv, Idle, srv \in [Servers -> Server], NEW m \in Master, TickMaster(m),
           FailoverReconfNextSlave(m)
    PROVE Ticked
  <1> DEFINE V(seen, old, sent) ==
                 [r \in DOMAIN slv |-> IF r \in seen THEN Visited(r, old, sent) ELSE slv[r]]
  <1>1. PICK conn \in SUBSET DOMAIN slv, old, seen \in SUBSET DOMAIN slv :
          LET sent == seen \cap conn IN
          /\ Cardinality(sent) <= ParallelSyncs - Cardinality(Busy(slv)) \/ sent = {}
          /\ DetectEnd(m, V(seen, old, sent), conn, sent)
    BY Zenon DEF FailoverReconfNextSlave
  <1> DEFINE sent == seen \cap conn
             t == V(seen, old, sent)
  <1>2. t \in [DOMAIN slv -> Slave]
    <2>1. \A r \in DOMAIN slv : slv[r] \in Slave
      BY DEF CoreInv
    <2>2. \A r \in DOMAIN slv : Visited(r, old, sent) \in Slave
      BY <2>1 DEF Visited, Slave
    <2> QED
      BY <2>1, <2>2
  <1>3. Busy(t) \subseteq Busy(slv) \cup sent
    <2> SUFFICES ASSUME NEW r \in Busy(t), r \notin sent PROVE r \in Busy(slv)
      OBVIOUS
    <2>1. r \in DOMAIN slv /\ t[r].flags \cap {"sent", "inprog"} # {}
      BY DEF Busy
    <2>2. slv[r] \in Slave
      BY <2>1 DEF CoreInv
    <2>3. CASE r \in seen
      <3>1. t[r].flags = (IF r \in old THEN {"done"} ELSE slv[r].flags)
        BY <2>1, <2>2, <2>3 DEF Visited, Slave
      <3>2. r \notin old
        BY <2>1, <3>1
      <3> QED
        BY <2>1, <3>1, <3>2 DEF Busy
    <2>4. CASE r \notin seen
      BY <2>1, <2>4 DEF Busy
    <2> QED
      BY <2>3, <2>4
  <1>4. DOMAIN slv \subseteq Servers /\ sent \subseteq Servers
    BY DEF CoreInv
  <1>5. Cardinality(Busy(slv)) <= ParallelSyncs
    BY DEF CoreInv, ParallelSyncsKept
  <1> HIDE DEF t, V
  <1>6. IsFiniteSet(Busy(slv)) /\ Cardinality(Busy(slv)) \in Nat
    BY <1>4, BusyFinite
  <1>7. IsFiniteSet(sent) /\ Cardinality(sent) \in Nat
    BY <1>4, FailoverAssumption, FS_Subset, FS_CardinalityType
  <1>8. Cardinality(Busy(t)) <= ParallelSyncs
    <2>1. CASE sent = {}
      <3>1. Busy(t) \subseteq Busy(slv)
        BY <1>3, <2>1
      <3>2. IsFiniteSet(Busy(t)) /\ Cardinality(Busy(t)) <= Cardinality(Busy(slv))
        BY <3>1, <1>6, FS_Subset
      <3> QED
        BY <3>2, <1>5, <1>6, FailoverAssumption, FS_CardinalityType
    <2>2. CASE Cardinality(sent) <= ParallelSyncs - Cardinality(Busy(slv))
      <3>1. /\ IsFiniteSet(Busy(slv) \cup sent)
            /\ Cardinality(Busy(slv) \cup sent) =
                 Cardinality(Busy(slv)) + Cardinality(sent) - Cardinality(Busy(slv) \cap sent)
        BY <1>6, <1>7, FS_Union
      <3>2. Cardinality(Busy(slv) \cap sent) \in Nat
        BY <1>6, FS_Subset, FS_CardinalityType
      <3>3. IsFiniteSet(Busy(t)) /\ Cardinality(Busy(t)) <= Cardinality(Busy(slv) \cup sent)
        BY <3>1, <1>3, FS_Subset
      <3>4. Cardinality(Busy(t)) \in Nat
        BY <3>3, FS_CardinalityType
      <3> HIDE DEF sent
      <3> QED
        BY <3>1, <3>2, <3>3, <3>4, <2>2, <1>6, <1>7, FailoverAssumption
    <2> QED
      BY <1>1, <2>1, <2>2
  <1>9. DetectEnd(m, t, conn, sent)
    BY <1>1 DEF t
  <1>10. m.state = "reconf_slaves"
    BY DEF FailoverReconfNextSlave
  <1> HIDE DEF sent
  <1> QED
    BY <1>2, <1>8, <1>9, <1>10, DetectEndStep

(* A tick of the state machine *)
LEMMA MachineStep ==
    ASSUME CoreInv, Idle, srv \in [Servers -> Server], NEW m \in Master, TickMaster(m),
           FailoverStateMachine(m)
    PROVE Ticked
  <1> DEFINE Fine == CoreInv' /\ Monitored' = Monitored /\ late' \in BOOLEAN
  <1>1. ASSUME UNCHANGED <<slv, change, disk>>, Stay(m) PROVE Fine
    BY <1>1, StayStep
  <1>2. ASSUME UNCHANGED <<slv, change, disk>>, mst.state # "reconf_slaves", Abort(m) PROVE Fine
    BY <1>2, AbortStep DEF TickMaster
  <1>3. ASSUME Fine, srv' \in [Servers -> Server] PROVE Ticked
    BY <1>3 DEF Ticked
  <1>4. m.addr = mst.addr /\ m.promoted = mst.promoted
    BY DEF TickMaster
  <1> HIDE DEF Fine
  <1>5. CASE m.state = "none" /\ Stay(m) /\ UNCHANGED <<srv, slv, change, disk>>
    BY <1>1, <1>3, <1>5
  <1>6. CASE WaitStart(m)
    <2>1. m.state = "wait_start" /\ UNCHANGED <<srv, slv, change, disk>>
      BY <1>6 DEF WaitStart
    <2>2. mst.state # "reconf_slaves"
      BY <2>1 DEF TickMaster
    <2>3. ASSUME To(m, "select_slave") PROVE Fine
      BY <1>4, <2>1, <2>2, <2>3, ToStep DEF FailoverStates, Led, Fine
    <2> QED
      BY <1>1, <1>2, <1>3, <1>6, <2>1, <2>2, <2>3 DEF WaitStart
  <1>7. CASE FailoverSelectSlave(m)
    <2>1. m.state = "select_slave" /\ UNCHANGED <<srv, slv, change, disk>>
      BY <1>7 DEF FailoverSelectSlave
    <2>2. mst.state # "reconf_slaves"
      BY <2>1 DEF TickMaster
    <2>3. ASSUME NEW r \in Candidates, To([m EXCEPT !.promoted = r], "send_slaveof_noone")
          PROVE Fine
      <3> DEFINE n == [m EXCEPT !.promoted = r]
      <3>1. r \in DOMAIN slv /\ r \in Servers
        BY DEF Candidates, CoreInv
      <3>2. n \in Master /\ n.addr = mst.addr /\ n.promoted = r
        BY <1>4, <3>1 DEF Master
      <3> HIDE DEF n
      <3>3. To(n, "send_slaveof_noone")
        BY <2>3 DEF n
      <3> QED
        BY <2>1, <2>2, <3>1, <3>2, <3>3, ToStep DEF FailoverStates, Fine
    <2> QED
      BY <1>2, <1>3, <1>7, <2>1, <2>2, <2>3 DEF FailoverSelectSlave
  <1>8. CASE FailoverSendSlaveOfNoOne(m)
    <2>1. m.state = "send_slaveof_noone" /\ UNCHANGED <<slv, change, disk>>
      BY <1>8 DEF FailoverSendSlaveOfNoOne
    <2>2. mst.state = "send_slaveof_noone"
      BY <2>1 DEF TickMaster
    <2>3. ASSUME To(m, "wait_promotion") PROVE Fine
      <3>1. m.promoted \in DOMAIN slv
        BY <1>4, <2>2 DEF CoreInv, Led
      <3> QED
        BY <1>4, <2>1, <2>2, <2>3, <3>1, ToStep DEF FailoverStates, Fine
    <2>4. srv' \in [Servers -> Server]
      <3>1. ASSUME SendSlaveOf({m.promoted}, None) PROVE srv' \in [Servers -> Server]
        BY <3>1, OrdersType
      <3> QED
        BY <1>8, <3>1 DEF FailoverSendSlaveOfNoOne
    <2>5. Fine
      BY <1>1, <1>2, <1>8, <2>1, <2>2, <2>3 DEF FailoverSendSlaveOfNoOne
    <2> QED
      BY <1>3, <2>4, <2>5
  <1>9. CASE FailoverWaitPromotion(m)
    <2>1. m.state = "wait_promotion" /\ UNCHANGED <<srv, slv, change, disk>>
      BY <1>9 DEF FailoverWaitPromotion
    <2>2. mst.state # "reconf_slaves"
      BY <2>1 DEF TickMaster
    <2> QED
      BY <1>1, <1>2, <1>3, <1>9, <2>1, <2>2 DEF FailoverWaitPromotion
  <1>10. CASE FailoverReconfNextSlave(m)
    BY <1>10, ReconfStep
  <1> QED
    BY <1>5, <1>6, <1>7, <1>8, <1>9, <1>10 DEF FailoverStateMachine


-----------------------------------------------------------------------------
(* The steps *)

(* A fault is counted. *)
LEMMA FaultType ==
    ASSUME RestType, Fault
    PROVE faults' \in 0..MaxFaults
  BY FailoverAssumption DEF RestType, Fault

LEMMA HandleMasterStep ==
    ASSUME FailoverInv, HandleMaster
    PROVE FailoverInv' /\ NoServerForgottenStep
  <1> USE DEF FailoverInv
  <1>0. PICK sdown \in SubjectivelyDown(mst.addr, mst.sdown, mst.role = "slave") :
          \E start \in {FALSE} \cup (IF sdown /\ CanStart THEN {TRUE} ELSE {}) :
            LET m == [mst EXCEPT !.sdown = sdown]
            IN FailoverStateMachine(IF start THEN [m EXCEPT !.state = "wait_start"] ELSE m)
               /\ failovers' = failovers + IF start THEN 1 ELSE 0
    BY DEF HandleMaster
  <1>1. PICK start \in {FALSE} \cup (IF sdown /\ CanStart THEN {TRUE} ELSE {}) :
          LET m == [mst EXCEPT !.sdown = sdown]
          IN FailoverStateMachine(IF start THEN [m EXCEPT !.state = "wait_start"] ELSE m)
             /\ failovers' = failovers + IF start THEN 1 ELSE 0
    BY <1>0
  <1>2. mst \in Master
    BY DEF CoreInv
  <1>3. sdown \in BOOLEAN
    <2>1. mst.sdown \in BOOLEAN
      BY <1>2 DEF Master
    <2> QED
      BY <2>1, Zenon DEF SubjectivelyDown
  <1>4. start \in BOOLEAN /\ (start => CanStart)
    OBVIOUS
  <1> DEFINE m == [mst EXCEPT !.sdown = sdown]
             n == IF start THEN [m EXCEPT !.state = "wait_start"] ELSE m
  <1>5. m \in Master /\ m.addr = mst.addr /\ m.promoted = mst.promoted /\ m.state = mst.state
    BY <1>2, <1>3 DEF Master
  <1>6. n \in Master /\ TickMaster(n)
    <2> HIDE DEF m
    <2>1. CASE start
      <3>1. mst.state = "none"
        BY <1>4, <2>1 DEF CanStart
      <3>2. n = [m EXCEPT !.state = "wait_start"]
        BY <2>1
      <3>3. n \in Master /\ n.addr = m.addr /\ n.promoted = m.promoted /\ n.state = "wait_start"
        BY <1>5, <3>2 DEF Master, FailoverStates
      <3> HIDE DEF n
      <3> QED
        BY <1>5, <3>1, <3>3 DEF TickMaster
    <2>2. CASE ~start
      BY <1>5, <2>2 DEF TickMaster
    <2> QED
      BY <2>1, <2>2
  <1>7. FailoverStateMachine(n) /\ failovers' = failovers + IF start THEN 1 ELSE 0
    BY <1>1
  <1> HIDE DEF n, m
  <1>8. Ticked
    BY <1>6, <1>7, MachineStep DEF RestType, HandleMaster
  <1>9. failovers' \in 0..MaxFailovers
    BY <1>4, <1>7, FailoverAssumption DEF RestType, CanStart
  <1>10. UNCHANGED <<tilt, faults>>
    BY DEF HandleMaster
  <1> QED
    BY <1>8, <1>9, <1>10 DEF Ticked, RestType, NoServerForgottenStep

(* A slave marked down or up is as busy as before. *)
LEMMA HandleSlaveStep ==
    ASSUME FailoverInv, NEW r \in Servers, HandleSlave(r)
    PROVE FailoverInv' /\ NoServerForgottenStep
  <1> USE DEF FailoverInv
  <1>1. r \in DOMAIN slv /\ UNCHANGED <<srv, mst, change, late, tilt, disk, faults, failovers>>
    BY DEF HandleSlave
  <1>2. PICK sdown \in SubjectivelyDown(r, slv[r].sdown, FALSE) : slv' = [slv EXCEPT ![r].sdown = sdown]
    BY DEF HandleSlave
  <1>3. \A q \in DOMAIN slv : slv[q] \in Slave
    BY DEF CoreInv
  <1>4. sdown \in BOOLEAN
    <2>1. slv[r].sdown \in BOOLEAN
      BY <1>1, <1>3 DEF Slave
    <2> QED
      BY <2>1, Zenon DEF SubjectivelyDown
  <1>5. DOMAIN slv' = DOMAIN slv /\ slv' \in [DOMAIN slv -> Slave]
    BY <1>1, <1>2, <1>3, <1>4 DEF Slave, CoreInv
  <1>6. \A q \in DOMAIN slv : slv'[q].flags = slv[q].flags
    BY <1>1, <1>2, <1>3 DEF Slave, CoreInv
  <1>7. Busy(slv') = Busy(slv)
    BY <1>5, <1>6 DEF Busy
  <1>8. CoreInv' /\ Monitored' = Monitored
    BY <1>1, <1>5, <1>7, Moved DEF CoreInv, ParallelSyncsKept
  <1> QED
    BY <1>1, <1>8 DEF RestType, NoServerForgottenStep

(* The slaves a master lists are new in the table, and not in the file. *)
LEMMA InfoFromMasterStep ==
    ASSUME FailoverInv, InfoFromMaster
    PROVE FailoverInv' /\ NoServerForgottenStep
  <1> USE DEF FailoverInv
  <1> DEFINE new == {r \in Servers : srv[r].of = mst.addr /\ srv[r].up} \ DOMAIN slv
             K == DOMAIN slv \cup new
  <1>1. /\ mst' = [mst EXCEPT !.role = Role(mst.addr)]
        /\ slv' = [r \in K |-> IF r \in new THEN NewSlaves(new)[r] ELSE slv[r]]
        /\ unsaved' = unsaved \cup new
        /\ UNCHANGED <<srv, change, late, tilt, file, faults, failovers>>
    BY DEF InfoFromMaster
  <1>2. new \subseteq Servers /\ K \subseteq Servers /\ new \cap DOMAIN slv = {}
    BY DEF CoreInv
  <1> HIDE DEF new
  <1>3. mst \in Master /\ Role(mst.addr) \in Roles
    BY DEF CoreInv, Role, Roles
  <1>4. mst' \in Master /\ mst'.addr = mst.addr /\ mst'.state = mst.state /\ mst'.promoted = mst.promoted
    BY <1>1, <1>3 DEF Master
  <1>5. NewSlaves(new) \in [new -> Slave] /\ \A r \in new : NewSlaves(new)[r].flags = {}
    BY <1>2 DEF NewSlaves, Slave
  <1>6. DOMAIN slv' = K /\ slv' \in [K -> Slave]
    BY <1>1, <1>5 DEF CoreInv
  <1>7. Busy(slv') = Busy(slv)
    <2>1. \A r \in K : slv'[r].flags = IF r \in new THEN {} ELSE slv[r].flags
      BY <1>1, <1>5
    <2> QED
      BY <1>2, <1>6, <2>1 DEF Busy
  <1>8. Monitored' = Monitored \cup new
    BY <1>1, <1>4, <1>6 DEF Monitored
  <1>9. file' \in File /\ unsaved' \in SUBSET Servers /\ change' \in Change /\ FileCovers'
    BY <1>1, <1>2, <1>8 DEF CoreInv, FileCovers
  <1>10. ParallelSyncsKept'
    BY <1>7 DEF CoreInv, ParallelSyncsKept
  <1>11. CoreInv'
    BY <1>2, <1>4, <1>6, <1>7, <1>9, <1>10 DEF CoreInv
  <1> QED
    BY <1>1, <1>8, <1>11 DEF RestType, NoServerForgottenStep

(* A report never makes a slave busy that was not. *)
LEMMA ProgressFacts ==
    ASSUME NEW r, NEW flags \in SUBSET {"sent", "inprog", "done"}, NEW linkUp \in BOOLEAN
    PROVE /\ Progress(r, flags, linkUp) \in SUBSET {"sent", "inprog", "done"}
          /\ Progress(r, flags, linkUp) \cap {"sent", "inprog"} # {} => flags \cap {"sent", "inprog"} # {}
  BY DEF Progress

LEMMA InfoFromSlaveStep ==
    ASSUME FailoverInv, NEW r \in Servers, InfoFromSlave(r)
    PROVE FailoverInv' /\ NoServerForgottenStep
  <1> USE DEF FailoverInv
  <1>1. r \in DOMAIN slv /\ UNCHANGED <<change, tilt, faults, failovers>>
    BY DEF InfoFromSlave
  <1>2. PICK linkUp \in BOOLEAN :
          slv' = [slv EXCEPT ![r].flags = IF tilt \/ Role(r) = "master" THEN @
                                          ELSE Progress(r, @, linkUp)]
    BY DEF InfoFromSlave
  <1>3. \A q \in DOMAIN slv : slv[q] \in Slave
    BY DEF CoreInv
  <1> DEFINE f == slv'[r].flags
  <1>4. DOMAIN slv' = DOMAIN slv /\ \A q \in DOMAIN slv \ {r} : slv'[q] = slv[q]
    BY <1>1, <1>2, <1>3 DEF CoreInv
  <1>5. /\ slv'[r] \in Slave
        /\ f \cap {"sent", "inprog"} # {} => slv[r].flags \cap {"sent", "inprog"} # {}
    <2>1. slv[r] \in Slave /\ slv[r].flags \in SUBSET {"sent", "inprog", "done"}
      BY <1>1, <1>3 DEF Slave
    <2> DEFINE p == Progress(r, slv[r].flags, linkUp)
    <2>2. /\ p \in SUBSET {"sent", "inprog", "done"}
          /\ p \cap {"sent", "inprog"} # {} => slv[r].flags \cap {"sent", "inprog"} # {}
      BY <2>1, ProgressFacts
    <2> HIDE DEF p
    <2>3. \/ slv'[r] = [slv[r] EXCEPT !.flags = slv[r].flags]
          \/ slv'[r] = [slv[r] EXCEPT !.flags = p]
      BY <1>1, <1>2 DEF p, CoreInv
    <2> QED
      BY <2>1, <2>2, <2>3 DEF Slave
  <1>6. slv' \in [DOMAIN slv -> Slave]
    BY <1>1, <1>2, <1>3, <1>4, <1>5 DEF CoreInv
  <1>7. Busy(slv') \subseteq Busy(slv)
    BY <1>1, <1>4, <1>5 DEF Busy
  <1>8. Cardinality(Busy(slv')) <= ParallelSyncs
    <2>1. DOMAIN slv \subseteq Servers /\ Cardinality(Busy(slv)) <= ParallelSyncs
      BY DEF CoreInv, ParallelSyncsKept
    <2>2. IsFiniteSet(Busy(slv)) /\ Cardinality(Busy(slv)) \in Nat
      BY <2>1, BusyFinite
    <2>3. IsFiniteSet(Busy(slv')) /\ Cardinality(Busy(slv')) <= Cardinality(Busy(slv))
      BY <1>7, <2>2, FS_Subset
    <2> QED
      BY <2>1, <2>2, <2>3, FS_CardinalityType, FailoverAssumption
  <1>9. CASE UNCHANGED <<mst, late, disk>> /\ srv' \in [Servers -> Server]
    <2>1. CoreInv' /\ Monitored' = Monitored
      BY <1>1, <1>4, <1>6, <1>7, <1>8, <1>9, Moved DEF CoreInv
    <2> QED
      BY <1>1, <1>9, <2>1 DEF RestType, NoServerForgottenStep
  <1>10. CASE /\ mst.state = "wait_promotion" /\ To(mst, "reconf_slaves") /\ UNCHANGED srv
              /\ FlushConfig([mst EXCEPT !.state = "reconf_slaves"], DOMAIN slv)
    <2>1. mst \in Master /\ mst.promoted \in DOMAIN slv /\ DOMAIN slv \in SUBSET Servers
      BY <1>10 DEF CoreInv, Led
    <2>2. mst' = [mst EXCEPT !.state = "reconf_slaves"] /\ late' = FALSE
      BY <1>10 DEF To
    <2>3. /\ mst' \in Master /\ mst'.addr = mst.addr /\ mst'.state = "reconf_slaves"
          /\ mst'.promoted = mst.promoted
      BY <2>1, <2>2 DEF Master, FailoverStates
    <2>4. file' = [addr |-> mst.promoted, slaves |-> DOMAIN slv] /\ unsaved' = {}
      BY <1>10, <2>1 DEF FlushConfig, Master
    <2>5. file' \in File /\ FileCovers'
      BY <2>1, <2>4 DEF File, FileCovers
    <2>6. Monitored' = Monitored
      BY <1>1, <1>4, <2>3 DEF Monitored
    <2>7. CoreInv'
      BY <1>1, <1>4, <1>6, <1>8, <2>1, <2>3, <2>4, <2>5 DEF CoreInv, ParallelSyncsKept
    <2> QED
      BY <1>1, <1>10, <2>2, <2>6, <2>7 DEF RestType, NoServerForgottenStep
  <1>11. mst.addr \in Servers \cup {None} /\ srv \in [Servers -> Server]
    BY DEF CoreInv, Master, RestType
  <1>12. ASSUME UNCHANGED srv \/ SendSlaveOf({r}, mst.addr) PROVE srv' \in [Servers -> Server]
    BY <1>11, <1>12, OrdersType
  <1> QED
    BY <1>9, <1>10, <1>11, <1>12 DEF InfoFromSlave, SlaveTurnedMaster, SlaveReports

(* Another Sentinel promoted the slave a. *)
LEMMA ConfigUpdateStep ==
    ASSUME FailoverInv, NEW a \in Servers, ConfigUpdate(a)
    PROVE FailoverInv' /\ NoServerForgottenStep
  <1> USE DEF FailoverInv
  <1>1. CoreInv' /\ Monitored \subseteq Monitored'
    BY Switched DEF ConfigUpdate
  <1>2. srv' \in [Servers -> Server]
    BY DEF ConfigUpdate, RestType, Server
  <1>3. late' = FALSE /\ UNCHANGED <<tilt, failovers>>
    BY DEF ConfigUpdate, ResetMasterAndChangeAddress
  <1>4. faults' \in 0..MaxFaults
    BY FaultType DEF ConfigUpdate
  <1> QED
    BY <1>1, <1>2, <1>3, <1>4 DEF RestType, NoServerForgottenStep

(* SENTINEL RESET keeps the address, which the file covers. *)
LEMMA ResetStep ==
    ASSUME FailoverInv, ResetCommand
    PROVE FailoverInv' /\ NoServerForgottenStep
  <1> USE DEF FailoverInv
  <1>1. /\ mst' = NewMaster(mst.addr) /\ slv' = NewSlaves({}) /\ late' = FALSE
        /\ UNCHANGED <<srv, change, tilt, file, unsaved, failovers>>
    BY DEF ResetCommand
  <1>2. /\ mst.addr \in Servers /\ file' \in File /\ FileCovers
        /\ change' \in Change /\ unsaved' \in SUBSET Servers
    BY <1>1 DEF CoreInv, Master
  <1>3. \/ file'.addr \in file'.slaves
        \/ {mst.addr} \cup {} \subseteq {file'.addr} \cup file'.slaves \cup unsaved' \cup change'.left
    BY <1>1, <1>2 DEF FileCovers, Monitored
  <1>4. CoreInv'
    BY <1>1, <1>2, <1>3, Renewed
  <1>5. faults' \in 0..MaxFaults
    BY FaultType DEF ResetCommand
  <1> QED
    BY <1>1, <1>4, <1>5 DEF RestType, NoServerForgottenStep

(* A restart reads the file: what it covers is monitored again. *)
LEMMA RestartStep ==
    ASSUME FailoverInv, Restart
    PROVE FailoverInv' /\ NoServerForgottenStep
  <1> USE DEF FailoverInv
  <1>1. /\ mst' = NewMaster(file.addr) /\ slv' = NewSlaves(file.slaves)
        /\ late' = FALSE /\ tilt' = FALSE /\ UNCHANGED <<srv, file, failovers>>
        /\ change' = NoChange /\ unsaved' = {}
    BY DEF Restart
  <1>2. file \in File /\ file.addr \in Servers /\ file.slaves \in SUBSET Servers /\ FileCovers
    BY DEF CoreInv, File
  <1>3. CoreInv' /\ Monitored' = {file.addr} \cup file.slaves
    <2>1. change' \in Change /\ change'.left = {} /\ file' = file
      BY <1>1, NoChangeType
    <2> QED
      BY <1>1, <1>2, <2>1, Renewed
  <1>4. faults' \in 0..MaxFaults
    BY FaultType DEF Restart
  <1>5. NoServerForgottenStep
    <2>1. file.addr \in file.slaves \/ Monitored \ Monitored' \subseteq unsaved \cup change.left
      BY <1>2, <1>3 DEF FileCovers
    <2> QED
      BY <2>1 DEF NoServerForgottenStep
  <1> QED
    BY <1>1, <1>3, <1>4, <1>5 DEF RestType

(* SENTINEL FAILOVER starts from no failover. *)
LEMMA FailoverCommandStep ==
    ASSUME FailoverInv, FailoverCommand
    PROVE FailoverInv' /\ NoServerForgottenStep
  <1> USE DEF FailoverInv
  <1> DEFINE m == [mst EXCEPT !.forced = TRUE]
  <1>1. m \in Master /\ m.addr = mst.addr
    BY DEF CoreInv, Master
  <1>2. To(m, "wait_start") /\ mst.state = "none" /\ UNCHANGED <<srv, slv, change, tilt, disk>>
    BY DEF FailoverCommand, CanStart
  <1> HIDE DEF m
  <1>3. CoreInv' /\ Monitored' = Monitored /\ late' \in BOOLEAN
    BY <1>1, <1>2, ToStep DEF FailoverStates, Led
  <1>4. faults' \in 0..MaxFaults
    BY FaultType DEF FailoverCommand
  <1>5. failovers' \in 0..MaxFailovers
    BY FailoverAssumption DEF FailoverCommand, CanStart, RestType
  <1> QED
    BY <1>2, <1>3, <1>4, <1>5 DEF RestType, NoServerForgottenStep

(* A slave added back is in the table, and all the table in the file. *)
LEMMA AddBackStep ==
    ASSUME FailoverInv, NEW r \in Servers, AddBack(r)
    PROVE FailoverInv' /\ NoServerForgottenStep
  <1> USE DEF FailoverInv
  <1> DEFINE K == DOMAIN slv \cup {r}
             a == IF mst.state = "reconf_slaves" THEN mst.promoted ELSE mst.addr
  <1>1. /\ r \in change.left /\ slv' = NewSlaves(K) /\ file' = [addr |-> a, slaves |-> K] /\ unsaved' = {}
        /\ change' = IF change.left = {r} THEN NoChange ELSE [change EXCEPT !.left = change.left \ {r}]
        /\ UNCHANGED <<srv, mst, late, tilt, faults, failovers>>
    BY DEF AddBack, FlushConfig
  <1>2. K \in SUBSET Servers /\ DOMAIN slv' = K /\ slv' \in [K -> Slave] /\ Busy(slv') = {}
    BY <1>1, NewSlavesFacts DEF CoreInv
  <1>3. a \in Servers /\ (a = mst.addr \/ a \in DOMAIN slv)
    BY DEF CoreInv, Led, Master
  <1>4. change' \in Change /\ change'.left = change.left \ {r}
    <2>1. CASE change.left = {r}
      BY <1>1, <2>1, NoChangeType
    <2>2. CASE change.left # {r}
      BY <1>1, <2>2 DEF CoreInv, Change
    <2> QED
      BY <2>1, <2>2
  <1> HIDE DEF a
  <1>5. file' \in File /\ file'.addr = a /\ file'.slaves = K
    BY <1>1, <1>2, <1>3 DEF File
  <1>6. Monitored' = {mst.addr} \cup K \cup (change.left \ {r})
    BY <1>1, <1>2, <1>4 DEF Monitored
  <1>7. FileCovers'
    BY <1>3, <1>4, <1>5, <1>6 DEF FileCovers
  <1>8. ParallelSyncsKept'
    BY <1>2, EmptyKept DEF ParallelSyncsKept
  <1>9. CoreInv'
    BY <1>1, <1>2, <1>4, <1>5, <1>7, <1>8 DEF CoreInv
  <1>10. Monitored \subseteq Monitored'
    BY <1>6 DEF Monitored
  <1> QED
    BY <1>1, <1>9, <1>10 DEF RestType, NoServerForgottenStep

(* A file written between two handlers holds all the table. *)
LEMMA FlushElsewhereStep ==
    ASSUME FailoverInv, FlushElsewhere
    PROVE FailoverInv' /\ NoServerForgottenStep
  <1> USE DEF FailoverInv
  <1> DEFINE a == IF mst.state = "reconf_slaves" THEN mst.promoted ELSE mst.addr
  <1>1. /\ change.left = {} /\ file' = [addr |-> a, slaves |-> DOMAIN slv] /\ unsaved' = {}
        /\ UNCHANGED <<srv, mst, slv, change, late, tilt, faults, failovers>>
    BY NoChangeType DEF FlushElsewhere, FlushConfig, Idle
  <1>2. a \in Servers /\ (a = mst.addr \/ a \in DOMAIN slv) /\ DOMAIN slv \in SUBSET Servers
    BY DEF CoreInv, Led, Master
  <1> HIDE DEF a
  <1>3. file' \in File /\ file'.addr = a /\ file'.slaves = DOMAIN slv
    BY <1>1, <1>2 DEF File
  <1>4. Monitored' = Monitored /\ Monitored = {mst.addr} \cup DOMAIN slv
    BY <1>1 DEF Monitored
  <1>5. FileCovers'
    BY <1>2, <1>3, <1>4 DEF FileCovers
  <1>6. ParallelSyncsKept' /\ (Busy(slv') # {} => mst'.state = "reconf_slaves")
    BY <1>1 DEF CoreInv, ParallelSyncsKept
  <1>7. CoreInv'
    BY <1>1, <1>3, <1>5, <1>6 DEF CoreInv
  <1> QED
    BY <1>1, <1>4, <1>7 DEF RestType, NoServerForgottenStep

(* Time and faults leave the tables alone. *)
LEMMA OutsideStep ==
    ASSUME FailoverInv,
           \/ Elapse \/ TiltCondition \/ TiltEnds
           \/ \E r \in Servers : Unreachable(r) \/ Reachable(r)
    PROVE FailoverInv' /\ NoServerForgottenStep
  <1> USE DEF FailoverInv
  <1>1. UNCHANGED <<mst, slv, change, disk, failovers>>
    BY DEF Elapse, TiltCondition, TiltEnds, Unreachable, Reachable
  <1>2. CoreInv' /\ Monitored' = Monitored
    <2>1. mst' = mst /\ slv' = slv /\ UNCHANGED <<change, disk>>
      BY <1>1
    <2> QED
      BY <2>1, MasterMoved DEF CoreInv
  <1>3. srv' \in [Servers -> Server]
    <2>1. srv \in [Servers -> Server]
      BY DEF RestType
    <2>2. ASSUME NEW r \in Servers, NEW b \in BOOLEAN, srv' = [srv EXCEPT ![r].up = b]
          PROVE srv' \in [Servers -> Server]
      BY <2>1, <2>2 DEF Server
    <2> QED
      BY <2>1, <2>2 DEF Elapse, TiltCondition, TiltEnds, Unreachable, Reachable
  <1>4. late' \in BOOLEAN /\ tilt' \in BOOLEAN
    BY Zenon DEF Elapse, TiltCondition, TiltEnds, Unreachable, Reachable, RestType
  <1>5. faults' \in 0..MaxFaults
    BY FaultType DEF Elapse, TiltCondition, TiltEnds, Unreachable, Reachable, RestType
  <1> QED
    BY <1>1, <1>2, <1>3, <1>4, <1>5 DEF RestType, NoServerForgottenStep

-----------------------------------------------------------------------------
(* The invariant holds at first. *)
LEMMA FailoverInit == Init => FailoverInv
  <1> SUFFICES ASSUME Init PROVE FailoverInv
    OBVIOUS
  <1>0. PICK K \in SUBSET (Servers \ {FirstMaster}) :
          slv = NewSlaves(K) /\ file = [addr |-> FirstMaster, slaves |-> K]
    BY DEF Init
  <1>1. FirstMaster \in Servers /\ None \notin Servers
    BY FailoverAssumption
  <1>2. /\ mst = NewMaster(FirstMaster) /\ slv = NewSlaves(K) /\ file = [addr |-> FirstMaster, slaves |-> K]
        /\ change = NoChange /\ unsaved = {}
    BY <1>0 DEF Init
  <1>3. DOMAIN slv = K /\ slv \in [K -> Slave] /\ Busy(slv) = {}
    BY <1>2, NewSlavesFacts
  <1>4. mst \in Master /\ mst.addr = FirstMaster /\ mst.state = "none"
    BY <1>1, <1>2, NewMasterFacts
  <1>5. ParallelSyncsKept
    BY <1>3, EmptyKept DEF ParallelSyncsKept
  <1>6. file \in File /\ FileCovers /\ change \in Change /\ unsaved \in SUBSET Servers
    BY <1>1, <1>2, <1>3, <1>4, NoChangeType DEF File, FileCovers, Monitored
  <1>7. CoreInv
    BY <1>3, <1>4, <1>5, <1>6 DEF CoreInv, Led
  <1>8. srv \in [Servers -> Server]
    BY <1>1 DEF Init, Server
  <1>9. RestType
    <2>1. late \in BOOLEAN /\ tilt \in BOOLEAN
      BY Zenon DEF Init
    <2>2. faults \in 0..MaxFaults /\ failovers \in 0..MaxFailovers
      BY FailoverAssumption DEF Init
    <2> QED
      BY <1>8, <2>1, <2>2 DEF RestType
  <1> QED
    BY <1>7, <1>9 DEF FailoverInv

(* One step keeps the invariant and forgets no server. *)
LEMMA FailoverStep ==
    ASSUME FailoverInv, Next
    PROVE FailoverInv' /\ NoServerForgottenStep
  BY HandleMasterStep, InfoFromMasterStep, OutsideStep, FailoverCommandStep, ResetStep,
     RestartStep, HandleSlaveStep, InfoFromSlaveStep, ConfigUpdateStep, AddBackStep,
     FlushElsewhereStep DEF Next

LEMMA FailoverStutter ==
    ASSUME FailoverInv, UNCHANGED vars
    PROVE FailoverInv'
  BY DEF FailoverInv, CoreInv, RestType, ParallelSyncsKept, FileCovers, Monitored, Busy, vars

LEMMA FailoverAlways == Spec => []FailoverInv
  <1>1. FailoverInv /\ [Next]_vars => FailoverInv'
    BY FailoverStep, FailoverStutter
  <1> QED
    BY FailoverInit, <1>1, PTL DEF Spec

(* Type correctness of the failover: the Sentinel's tables, its file and   *)
(* the servers it orders about (sentinel.c, sentinelRedisInstance).        *)
THEOREM FailoverTypeCorrect == Spec => []TypeOK
  <1>1. FailoverInv => TypeOK
    BY DEF FailoverInv, CoreInv, RestType, TypeOK, Master, Server, File, Change
  <1> QED
    BY <1>1, FailoverAlways, PTL

(* For any number of servers, and whatever resets, updates, tilts and      *)
(* restarts come between: when sentinel.c follows promoted_slave the slave *)
(* is there and in the table, and at most parallel_syncs slaves are        *)
(* reconfigured at once.                                                   *)
THEOREM ReconfigurationIsSound == Spec => []ReconfigurationSound
  <1>1. FailoverInv => ReconfigurationSound
    BY DEF FailoverInv, CoreInv, ReconfigurationSound, NeedsPromoted, Led
  <1> QED
    BY <1>1, FailoverAlways, PTL

(* No step of a Sentinel loses a server it monitored, but for SENTINEL     *)
(* RESET.  A restart loses at most what sentinelRefreshInstanceInfo showed *)
(* since the last sentinelFlushConfig, and what an interrupted             *)
(* sentinelResetMasterAndChangeAddress had not added back; it is excepted  *)
(* from a file written while the slaves were reconfigured.                 *)
THEOREM ServersAreKept == Spec => NoServerForgotten
  <1>1. FailoverInv /\ [Next]_vars => [NoServerForgottenStep]_vars
    BY FailoverStep
  <1> QED
    BY <1>1, FailoverAlways, PTL DEF Spec, NoServerForgotten

-----------------------------------------------------------------------------
(* The notification scripts *)

LEMMA RemovedAt ==
    ASSUME NEW T, NEW s \in Seq(T), NEW i \in 1..Len(s)
    PROVE  /\ S!RemoveAt(s, i) \in Seq(T)
           /\ Len(S!RemoveAt(s, i)) = Len(s) - 1
           /\ \A k \in 1..(Len(s) - 1) : S!RemoveAt(s, i)[k] = IF k < i THEN s[k] ELSE s[k + 1]
<1> DEFINE a == SubSeq(s, 1, i - 1)
           b == SubSeq(s, i + 1, Len(s))
<1>1. Len(s) \in Nat /\ \A k \in 1..Len(s) : s[k] \in T
  BY LenProperties, ElementOfSeq
<1>2. /\ a \in Seq(T) /\ Len(a) = i - 1
      /\ \A k \in 1..(i - 1) : a[k] = s[k]
  BY <1>1, SubSeqProperties
<1>3. /\ b \in Seq(T) /\ Len(b) = Len(s) - i
      /\ \A k \in 1..(Len(s) - i) : b[k] = s[i + k]
  BY <1>1, SubSeqProperties
<1>4. S!RemoveAt(s, i) = a \o b
  BY DEF S!RemoveAt
<1> HIDE DEF a, b
<1>5. /\ a \o b \in Seq(T) /\ Len(a \o b) = Len(a) + Len(b)
      /\ \A k \in 1..(Len(a) + Len(b)) : (a \o b)[k] = IF k <= Len(a) THEN a[k] ELSE b[k - Len(a)]
  BY <1>2, <1>3, ConcatProperties
<1>6. ASSUME NEW k \in 1..(Len(s) - 1)
      PROVE  (a \o b)[k] = IF k < i THEN s[k] ELSE s[k + 1]
  <2>1. (a \o b)[k] = IF k <= i - 1 THEN a[k] ELSE b[k - (i - 1)]
    BY <1>1, <1>2, <1>3, <1>5
  <2>2. CASE k < i
    BY <1>1, <1>2, <2>1, <2>2
  <2>3. CASE k >= i
    <3>1. k - (i - 1) \in 1..(Len(s) - i) /\ i + (k - (i - 1)) = k + 1 /\ ~(k <= i - 1)
      BY <1>1, <2>3
    <3> QED BY <1>3, <2>1, <3>1
  <2>4. k < i \/ k >= i
    BY <1>1
  <2> QED BY <2>2, <2>3, <2>4
<1> QED BY <1>1, <1>2, <1>3, <1>4, <1>5, <1>6

LEMMA LeastExists ==
    ASSUME NEW T \in SUBSET Nat, T # {}
    PROVE  \E x \in T : \A y \in T : x <= y
<1>1. PICK x \in T : \A y \in T : ~(<<y, x>> \in OpToRel(<, Nat))
  BY NatLessThanWellFounded, WFMin
<1>2. \A y \in T : ~(y < x)
  BY <1>1 DEF OpToRel
<1> QED BY <1>2

Distinct(q) == \A i, j \in 1..Len(q) : q[i].id = q[j].id => i = j

(* No job is in the queue twice; the children are those of the jobs that   *)
(* run, and the counter, which a retry leaves as it is, is no less than    *)
(* their number.                                                           *)
QueueInv ==
    /\ S!TypeOK
    /\ Distinct(queue)
    /\ \A i \in 1..Len(queue) : queue[i].id <= scheduled
    /\ Len(queue) <= MaxQueue
    /\ children = S!Running(queue)
    /\ Cardinality(children) <= runningScripts
    /\ runningScripts <= MaxRunning

LEMMA RunningIds ==
    ASSUME NEW q \in Seq(S!Job)
    PROVE  \A x : x \in S!Running(q) <=> \E i \in 1..Len(q) : S!IsRunning(q[i]) /\ q[i].id = x
<1>1. DOMAIN q = 1..Len(q)
  BY LenProperties
<1> QED BY <1>1 DEF S!Running

(* Removing a job from the queue removes its child from those that run. *)
LEMMA JobRemoved ==
    ASSUME NEW q \in Seq(S!Job), Distinct(q), NEW i \in 1..Len(q)
    PROVE  LET r == S!RemoveAt(q, i) IN
           /\ r \in Seq(S!Job) /\ Len(r) = Len(q) - 1 /\ Distinct(r)
           /\ \A k \in 1..Len(r) : \E j \in 1..Len(q) : r[k] = q[j]
           /\ S!Running(r) = S!Running(q) \ {q[i].id}
<1> DEFINE r == S!RemoveAt(q, i)
<1>1. /\ r \in Seq(S!Job) /\ Len(r) = Len(q) - 1 /\ Len(q) \in Nat
      /\ \A k \in 1..(Len(q) - 1) : r[k] = IF k < i THEN q[k] ELSE q[k + 1]
  BY RemovedAt, LenProperties
<1> HIDE DEF r
<1>2. \A k \in 1..Len(r) : /\ r[k] = q[IF k < i THEN k ELSE k + 1]
                           /\ (IF k < i THEN k ELSE k + 1) \in 1..Len(q)
                           /\ (IF k < i THEN k ELSE k + 1) # i
  BY <1>1
<1>3. Distinct(r)
  BY <1>1, <1>2 DEF Distinct
<1>4. \A j \in 1..Len(q) : j # i => \E k \in 1..Len(r) : r[k] = q[j]
  <2> SUFFICES ASSUME NEW j \in 1..Len(q), j # i PROVE \E k \in 1..Len(r) : r[k] = q[j]
    OBVIOUS
  <2>1. CASE j < i
    BY <1>1, <2>1
  <2>2. CASE j > i
    <3>1. j - 1 \in 1..Len(r) /\ ~(j - 1 < i) /\ (j - 1) + 1 = j
      BY <1>1, <2>2
    <3> QED BY <1>1, <3>1
  <2>3. j < i \/ j > i
    BY <1>1
  <2> QED BY <2>1, <2>2, <2>3
<1>5. \A x : x \in S!Running(r) <=> x \in S!Running(q) \ {q[i].id}
  <2>1. ASSUME NEW x \in S!Running(r) PROVE x \in S!Running(q) /\ x # q[i].id
    <3>1. PICK k \in 1..Len(r) : S!IsRunning(r[k]) /\ r[k].id = x
      BY <1>1, RunningIds
    <3>2. PICK j \in 1..Len(q) : r[k] = q[j] /\ j # i
      BY <1>2
    <3> QED BY <3>1, <3>2, RunningIds DEF Distinct
  <2>2. \A x : x \in S!Running(q) /\ x # q[i].id => x \in S!Running(r)
    BY <1>1, <1>4, RunningIds
  <2> QED BY <2>1, <2>2
<1>6. S!Running(r) = S!Running(q) \ {q[i].id}
  BY <1>5
<1> QED BY <1>1, <1>2, <1>3, <1>6 DEF r

(* A job that changes state joins or leaves those that run. *)
LEMMA JobChanged ==
    ASSUME NEW q \in Seq(S!Job), Distinct(q), NEW i \in 1..Len(q), NEW j \in S!Job,
           j.id = q[i].id
    PROVE  LET r == [q EXCEPT ![i] = j] IN
           /\ r \in Seq(S!Job) /\ Len(r) = Len(q) /\ Distinct(r)
           /\ \A k \in 1..Len(r) : r[k].id = q[k].id
           /\ S!Running(r) = IF S!IsRunning(j) THEN S!Running(q) \cup {q[i].id}
                             ELSE S!Running(q) \ {q[i].id}
<1> DEFINE r == [q EXCEPT ![i] = j]
<1>1. /\ r \in Seq(S!Job) /\ Len(r) = Len(q) /\ Len(q) \in Nat
      /\ r[i] = j /\ \A k \in 1..Len(q) : k # i => r[k] = q[k]
  BY ExceptSeq, LenProperties
<1> HIDE DEF r
<1>2. \A k \in 1..Len(r) : r[k].id = q[k].id
  BY <1>1
<1>3. Distinct(r)
  BY <1>1, <1>2 DEF Distinct
<1>4. CASE S!IsRunning(j)
  <2>1. \A x : x \in S!Running(r) <=> x \in S!Running(q) \/ x = q[i].id
    BY <1>1, <1>4, RunningIds
  <2>2. S!Running(r) = S!Running(q) \cup {q[i].id}
    BY <2>1
  <2> QED BY <1>1, <1>2, <1>3, <1>4, <2>2 DEF r
<1>5. CASE ~S!IsRunning(j)
  <2>1. \A x : x \in S!Running(r) <=> x \in S!Running(q) /\ x # q[i].id
    BY <1>1, <1>5, RunningIds DEF Distinct
  <2>2. S!Running(r) = S!Running(q) \ {q[i].id}
    BY <2>1
  <2> QED BY <1>1, <1>2, <1>3, <1>5, <2>2 DEF r
<1> QED BY <1>4, <1>5

LEMMA ChildrenFinite ==
    ASSUME MaxJobs \in Nat, children \subseteq 1..MaxJobs
    PROVE  IsFiniteSet(children) /\ Cardinality(children) \in Nat
<1>1. IsFiniteSet(1..MaxJobs)
  BY FS_Interval
<1>2. IsFiniteSet(children)
  BY <1>1, FS_Subset
<1> QED BY <1>2, FS_CardinalityType

LEMMA QueueInit == ASSUME S!ScriptsAssumption PROVE S!Init => QueueInv
<1> SUFFICES ASSUME S!Init PROVE QueueInv
  OBVIOUS
<1>1. queue \in Seq(S!Job) /\ Len(queue) = 0 /\ 1..Len(queue) = {}
  BY EmptySeq DEF S!Init
<1>2. S!Running(queue) = {}
  BY <1>1, RunningIds
<1>3. Cardinality(children) = 0
  BY FS_EmptySet DEF S!Init
<1> QED BY <1>1, <1>2, <1>3 DEF S!Init, QueueInv, S!TypeOK, Distinct, S!ScriptsAssumption

LEMMA QueueStep ==
    ASSUME S!ScriptsAssumption PROVE QueueInv /\ [S!Next]_S!svars => QueueInv'
<1> SUFFICES ASSUME QueueInv, [S!Next]_S!svars PROVE QueueInv'
  OBVIOUS
<1>0. /\ queue \in Seq(S!Job) /\ Len(queue) \in Nat /\ runningScripts \in Nat
      /\ scheduled \in 0..MaxJobs /\ MaxJobs \in Nat /\ MaxQueue \in Nat /\ MaxRunning \in Nat
      /\ MaxRetry \in Nat
      /\ children \subseteq 1..MaxJobs
      /\ Len(queue) <= MaxQueue /\ Distinct(queue)
      /\ \A i \in 1..Len(queue) : queue[i].id <= scheduled
      /\ DOMAIN queue = 1..Len(queue)
  BY LenProperties DEF QueueInv, S!TypeOK, S!ScriptsAssumption
<1>a. /\ children = S!Running(queue) /\ Cardinality(children) <= runningScripts
      /\ runningScripts <= MaxRunning
  BY DEF QueueInv
<1>b. \A i \in 1..Len(queue) :
         /\ queue[i] \in S!Job /\ queue[i].id \in 1..MaxJobs
         /\ queue[i].state \in {"pending", "delayed", "running", "killed"}
         /\ queue[i].retry \in 0..(MaxRetry + 1)
  <2>1. \A i \in 1..Len(queue) : queue[i] \in S!Job
    BY <1>0, ElementOfSeq
  <2> QED BY <2>1 DEF S!Job
<1>c. IsFiniteSet(children) /\ Cardinality(children) \in Nat
  BY <1>0, ChildrenFinite
<1>1. CASE S!ScheduleScriptExecution
  <2> DEFINE new == [id |-> scheduled + 1, state |-> "pending", retry |-> 0]
             q == Append(queue, new)
             idle == {i \in DOMAIN q : ~S!IsRunning(q[i])}
             least == CHOOSE i \in idle : \A j \in idle : i <= j
  <2>1. /\ scheduled < MaxJobs /\ scheduled' = scheduled + 1
        /\ queue' = S!Trim(q) /\ runningScripts' = runningScripts /\ children' = children
    BY <1>1 DEF S!ScheduleScriptExecution
  <2>2. new \in S!Job /\ new.id = scheduled + 1 /\ ~S!IsRunning(new)
    BY <1>0, <2>1 DEF S!Job, S!IsRunning
  <2> HIDE DEF new
  <2>3. /\ q \in Seq(S!Job) /\ Len(q) = Len(queue) + 1 /\ q[Len(queue) + 1] = new
        /\ \A i \in 1..Len(queue) : q[i] = queue[i]
        /\ DOMAIN q = 1..Len(q)
    BY <1>0, <2>2, AppendProperties, LenProperties
  <2> HIDE DEF q
  <2>4. Distinct(q) /\ \A i \in 1..Len(q) : q[i].id <= scheduled'
    <3>1. \A i \in 1..Len(q) : i \in 1..Len(queue) \/ i = Len(queue) + 1
      BY <1>0, <2>3
    <3>2. \A i \in 1..Len(queue) : q[i].id \in 1..MaxJobs /\ q[i].id <= scheduled
      BY <1>0, <1>b, <2>3
    <3>3. q[Len(queue) + 1].id = scheduled + 1 /\ scheduled \in Nat
      BY <1>0, <2>2, <2>3
    <3>4. \A i \in 1..Len(q) : q[i].id <= scheduled + 1
      BY <3>1, <3>2, <3>3
    <3>5. ASSUME NEW i \in 1..Len(q), NEW j \in 1..Len(q), q[i].id = q[j].id PROVE i = j
      <4>1. CASE i \in 1..Len(queue) /\ j \in 1..Len(queue)
        BY <1>0, <2>3, <3>5, <4>1 DEF Distinct
      <4>2. CASE i = Len(queue) + 1 /\ j \in 1..Len(queue)
        BY <3>2, <3>3, <3>5, <4>2
      <4>3. CASE i \in 1..Len(queue) /\ j = Len(queue) + 1
        BY <3>2, <3>3, <3>5, <4>3
      <4> QED BY <3>1, <4>1, <4>2, <4>3
    <3> QED BY <2>1, <3>4, <3>5 DEF Distinct
  <2>5. S!Running(q) = children
    <3>1. ASSUME NEW x \in S!Running(q) PROVE x \in S!Running(queue)
      <4>1. PICK i \in 1..Len(q) : S!IsRunning(q[i]) /\ q[i].id = x
        BY <2>3, RunningIds
      <4>2. i \in 1..Len(queue)
        BY <1>0, <2>2, <2>3, <4>1
      <4> QED BY <1>0, <2>3, <4>1, <4>2, RunningIds
    <3>2. ASSUME NEW x \in S!Running(queue) PROVE x \in S!Running(q)
      <4>1. PICK i \in 1..Len(queue) : S!IsRunning(queue[i]) /\ queue[i].id = x
        BY <1>0, RunningIds
      <4>2. i \in 1..Len(q) /\ q[i] = queue[i]
        BY <1>0, <2>3
      <4> QED BY <2>3, <4>1, <4>2, RunningIds
    <3> QED BY <1>a, <3>1, <3>2
  <2>6. /\ queue' \in Seq(S!Job) /\ Len(queue') <= MaxQueue /\ Distinct(queue')
        /\ \A i \in 1..Len(queue') : queue'[i].id <= scheduled'
        /\ S!Running(queue') = children
    <3>1. CASE Len(q) <= MaxQueue
      <4>1. queue' = q
        BY <2>1, <3>1 DEF S!Trim
      <4> QED BY <2>3, <2>4, <2>5, <3>1, <4>1
    <3>2. CASE ~(Len(q) <= MaxQueue)
      <4>1. Len(queue) + 1 \in idle /\ idle \in SUBSET Nat
        BY <1>0, <2>2, <2>3
      <4>2. \E i \in idle : \A j \in idle : i <= j
        BY <4>1, LeastExists
      <4>3. least \in idle
        BY <4>2
      <4>4. least \in 1..Len(q) /\ ~S!IsRunning(q[least])
        BY <2>3, <4>3
      <4>5. queue' = S!RemoveAt(q, least)
        BY <2>1, <3>2, <4>1 DEF S!Trim
      <4> HIDE DEF least, idle
      <4>6. /\ queue' \in Seq(S!Job) /\ Len(queue') = Len(q) - 1 /\ Distinct(queue')
            /\ \A k \in 1..Len(queue') : \E j \in 1..Len(q) : queue'[k] = q[j]
            /\ S!Running(queue') = S!Running(q) \ {q[least].id}
        BY <2>3, <2>4, <4>4, <4>5, JobRemoved
      <4>7. q[least].id \notin S!Running(q)
        BY <2>3, <2>4, <4>4, RunningIds DEF Distinct
      <4> QED BY <1>0, <2>3, <2>4, <2>5, <4>6, <4>7
    <3> QED BY <3>1, <3>2
  <2> QED BY <1>0, <1>a, <2>1, <2>6 DEF QueueInv, S!TypeOK
<1>2. ASSUME NEW i \in 1..Len(queue), S!RunPendingScripts(i) PROVE QueueInv'
  <2>0. /\ queue[i].state = "pending" /\ queue[i].retry <= MaxRetry /\ runningScripts < MaxRunning
        /\ scheduled' = scheduled /\ queue[i].retry + 1 \in 0..(MaxRetry + 1)
    BY <1>0, <1>2, <1>b DEF S!RunPendingScripts, S!Runnable
  <2>1. CASE /\ queue' = [queue EXCEPT ![i].state = "running", ![i].retry = @ + 1]
             /\ runningScripts' = runningScripts + 1
             /\ children' = children \cup {queue[i].id}
    <3> DEFINE j == [queue[i] EXCEPT !.state = "running", !.retry = queue[i].retry + 1]
    <3>1. j \in S!Job /\ j.id = queue[i].id /\ S!IsRunning(j)
      BY <1>b, <2>0 DEF S!Job, S!IsRunning
    <3>2. queue' = [queue EXCEPT ![i] = j]
      BY <1>0, <2>1
    <3> HIDE DEF j
    <3>3. /\ queue' \in Seq(S!Job) /\ Len(queue') = Len(queue) /\ Distinct(queue')
          /\ \A k \in 1..Len(queue') : queue'[k].id = queue[k].id
          /\ S!Running(queue') = S!Running(queue) \cup {queue[i].id}
      BY <1>0, <3>1, <3>2, JobChanged
    <3>4. Cardinality(children') <= runningScripts'
      <4>1. Cardinality(children \cup {queue[i].id}) <= Cardinality(children) + 1
        <5> DEFINE x == queue[i].id
        <5> HIDE DEF x
        <5>1. Cardinality(children \cup {x})
                 = IF x \in children THEN Cardinality(children) ELSE Cardinality(children) + 1
          BY <1>c, FS_AddElement
        <5>2. Cardinality(children \cup {x}) <= Cardinality(children) + 1
          BY <1>c, <5>1
        <5> QED BY <5>2 DEF x
      <4>2. IsFiniteSet(children \cup {queue[i].id})
        BY <1>c, FS_AddElement
      <4>3. Cardinality(children \cup {queue[i].id}) \in Nat
        BY <4>2, FS_CardinalityType
      <4> QED BY <1>0, <1>a, <1>c, <2>1, <4>1, <4>3
    <3>a. runningScripts' = runningScripts + 1 /\ children' = children \cup {queue[i].id}
      BY <2>1
    <3>b. queue[i].id \in 1..MaxJobs
      BY <1>b
    <3>c. children' \subseteq 1..MaxJobs
      BY <1>0, <3>a, <3>b
    <3>d. runningScripts' \in Nat /\ runningScripts' <= MaxRunning
      BY <1>0, <2>0, <3>a
    <3>5. S!TypeOK'
      BY <1>0, <2>0, <3>3, <3>c, <3>d DEF S!TypeOK
    <3>6. runningScripts' <= MaxRunning /\ children' = S!Running(queue')
      BY <1>a, <3>3, <3>a, <3>d
    <3> QED BY <1>0, <2>0, <3>3, <3>4, <3>5, <3>6 DEF QueueInv
  <2>2. CASE queue' = [queue EXCEPT ![i].retry = @ + 1] /\ UNCHANGED <<runningScripts, children>>
    <3> DEFINE j == [queue[i] EXCEPT !.retry = queue[i].retry + 1]
    <3>1. j \in S!Job /\ j.id = queue[i].id /\ ~S!IsRunning(j)
      BY <1>b, <2>0 DEF S!Job, S!IsRunning
    <3>2. queue' = [queue EXCEPT ![i] = j]
      BY <1>0, <2>2
    <3> HIDE DEF j
    <3>3. /\ queue' \in Seq(S!Job) /\ Len(queue') = Len(queue) /\ Distinct(queue')
          /\ \A k \in 1..Len(queue') : queue'[k].id = queue[k].id
          /\ S!Running(queue') = S!Running(queue) \ {queue[i].id}
      BY <1>0, <3>1, <3>2, JobChanged
    <3>4. queue[i].id \notin S!Running(queue)
      BY <1>0, <2>0, RunningIds DEF Distinct, S!IsRunning
    <3> QED BY <1>0, <1>a, <2>0, <2>2, <3>3, <3>4 DEF QueueInv, S!TypeOK
  <2> QED BY <1>2, <2>1, <2>2 DEF S!RunPendingScripts
<1>3. ASSUME NEW i \in 1..Len(queue), S!ScriptRetryDelay(i) PROVE QueueInv'
  <2> DEFINE j == [queue[i] EXCEPT !.state = "pending"]
  <2>1. /\ j \in S!Job /\ j.id = queue[i].id /\ ~S!IsRunning(j)
        /\ queue[i].state = "delayed"
    BY <1>b, <1>3 DEF S!Job, S!IsRunning, S!ScriptRetryDelay
  <2>2. queue' = [queue EXCEPT ![i] = j] /\ UNCHANGED <<runningScripts, children, scheduled>>
    BY <1>0, <1>3 DEF S!ScriptRetryDelay
  <2> HIDE DEF j
  <2>3. /\ queue' \in Seq(S!Job) /\ Len(queue') = Len(queue) /\ Distinct(queue')
        /\ \A k \in 1..Len(queue') : queue'[k].id = queue[k].id
        /\ S!Running(queue') = S!Running(queue) \ {queue[i].id}
    BY <1>0, <2>1, <2>2, JobChanged
  <2>4. queue[i].id \notin S!Running(queue)
    BY <1>0, <2>1, RunningIds DEF Distinct, S!IsRunning
  <2> QED BY <1>0, <1>a, <2>2, <2>3, <2>4 DEF QueueInv, S!TypeOK
<1>4. ASSUME NEW i \in 1..Len(queue), S!CollectTerminatedScripts(i) PROVE QueueInv'
  <2>0. S!IsRunning(queue[i]) /\ children' = children \ {queue[i].id} /\ scheduled' = scheduled
    BY <1>4 DEF S!CollectTerminatedScripts
  <2>1. queue[i].id \in children
    BY <1>0, <1>a, <2>0, RunningIds
  <2>2. Cardinality(children') = Cardinality(children) - 1 /\ Cardinality(children') \in Nat
    BY <1>c, <2>0, <2>1, FS_RemoveElement, FS_CardinalityType
  <2>3. CASE queue' = [queue EXCEPT ![i].state = "delayed"] /\ runningScripts' = runningScripts
    <3> DEFINE j == [queue[i] EXCEPT !.state = "delayed"]
    <3>1. j \in S!Job /\ j.id = queue[i].id /\ ~S!IsRunning(j)
      BY <1>b DEF S!Job, S!IsRunning
    <3>2. queue' = [queue EXCEPT ![i] = j]
      BY <1>0, <2>3
    <3> HIDE DEF j
    <3>3. /\ queue' \in Seq(S!Job) /\ Len(queue') = Len(queue) /\ Distinct(queue')
          /\ \A k \in 1..Len(queue') : queue'[k].id = queue[k].id
          /\ S!Running(queue') = S!Running(queue) \ {queue[i].id}
      BY <1>0, <3>1, <3>2, JobChanged
    <3>4. S!TypeOK'
      BY <1>0, <2>0, <2>3, <3>3 DEF S!TypeOK
    <3>5. Cardinality(children') <= runningScripts' /\ runningScripts' <= MaxRunning
      BY <1>0, <1>a, <1>c, <2>2, <2>3
    <3>6. children' = S!Running(queue')
      BY <1>a, <2>0, <3>3
    <3> QED BY <1>0, <2>0, <3>3, <3>4, <3>5, <3>6 DEF QueueInv
  <2>4. CASE queue' = S!RemoveAt(queue, i) /\ runningScripts' = runningScripts - 1
    <3>1. /\ queue' \in Seq(S!Job) /\ Len(queue') = Len(queue) - 1 /\ Distinct(queue')
          /\ \A k \in 1..Len(queue') : \E j \in 1..Len(queue) : queue'[k] = queue[j]
          /\ S!Running(queue') = S!Running(queue) \ {queue[i].id}
      BY <1>0, <2>4, JobRemoved
    <3>2. Cardinality(children') <= runningScripts' /\ runningScripts' <= MaxRunning
      BY <1>0, <1>a, <1>c, <2>2, <2>4
    <3>3. runningScripts' \in Nat
      BY <1>0, <1>a, <1>c, <2>2, <2>4
    <3>4. S!TypeOK'
      BY <1>0, <2>0, <3>1, <3>3 DEF S!TypeOK
    <3>5. children' = S!Running(queue')
      BY <1>a, <2>0, <3>1
    <3>6. Len(queue') <= MaxQueue /\ \A k \in 1..Len(queue') : queue'[k].id <= scheduled'
      BY <1>0, <2>0, <3>1
    <3> QED BY <3>1, <3>2, <3>4, <3>5, <3>6 DEF QueueInv
  <2> QED BY <1>4, <2>3, <2>4 DEF S!CollectTerminatedScripts
<1>5. ASSUME NEW i \in 1..Len(queue), S!KillTimedoutScripts(i) PROVE QueueInv'
  <2> DEFINE j == [queue[i] EXCEPT !.state = "killed"]
  <2>1. j \in S!Job /\ j.id = queue[i].id /\ S!IsRunning(j) /\ S!IsRunning(queue[i])
    BY <1>b, <1>5 DEF S!Job, S!IsRunning, S!KillTimedoutScripts
  <2>2. queue' = [queue EXCEPT ![i] = j] /\ UNCHANGED <<runningScripts, children, scheduled>>
    BY <1>0, <1>5 DEF S!KillTimedoutScripts
  <2> HIDE DEF j
  <2>3. /\ queue' \in Seq(S!Job) /\ Len(queue') = Len(queue) /\ Distinct(queue')
        /\ \A k \in 1..Len(queue') : queue'[k].id = queue[k].id
        /\ S!Running(queue') = S!Running(queue) \cup {queue[i].id}
    BY <1>0, <2>1, <2>2, JobChanged
  <2>4. queue[i].id \in S!Running(queue)
    BY <1>0, <2>1, RunningIds
  <2> QED BY <1>0, <1>a, <2>2, <2>3, <2>4 DEF QueueInv, S!TypeOK
<1>6. CASE UNCHANGED S!svars
  BY <1>6 DEF S!svars, QueueInv, S!TypeOK, Distinct, S!Running
<1> QED BY <1>0, <1>1, <1>2, <1>3, <1>4, <1>5, <1>6 DEF S!Next

(* SentinelScripts: whatever the limits, the queue and the children stay   *)
(* within them, and every child is in the queue when it is waited for.     *)
THEOREM ScriptsAreBounded ==
    ASSUME S!ScriptsAssumption
    PROVE  S!Spec => []ScriptsBounded
<1>1. QueueInv /\ S!ScriptsAssumption => ScriptsBounded
  <2> SUFFICES ASSUME QueueInv, S!ScriptsAssumption PROVE ScriptsBounded
    OBVIOUS
  <2>1. Cardinality(children) \in Nat
    BY ChildrenFinite DEF QueueInv, S!TypeOK, S!ScriptsAssumption
  <2>2. Cardinality(children) <= MaxRunning
    BY <2>1 DEF QueueInv, S!TypeOK, S!ScriptsAssumption
  <2>3. S!Cardinality(children) = Cardinality(children)
    BY DEF S!Cardinality, Cardinality
  <2> QED BY <2>2, <2>3 DEF QueueInv, ScriptsBounded, S!ScriptsBounded
<1>2. QueueInv => ScriptsBounded
  BY <1>1
<1>3. S!Init => QueueInv
  BY QueueInit
<1>4. QueueInv /\ [S!Next]_S!svars => QueueInv'
  BY QueueStep
<1> QED BY <1>2, <1>3, <1>4, PTL DEF S!Spec
=============================================================================
