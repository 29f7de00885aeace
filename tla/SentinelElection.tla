-------------------------- MODULE SentinelElection --------------------------
(***************************************************************************)
(* Redis Sentinel (redis-stable/src/sentinel.c), the part the Sentinels    *)
(* play with each other about one master: the election of the Sentinel     *)
(* that fails it over, and the spreading of the new configuration with     *)
(* hello messages.                                                         *)
(*                                                                         *)
(* sen[s] is the memory of Sentinel s: sentinel.current_epoch, the master  *)
(* instance (address, config_epoch, leader, leader_epoch, the failover     *)
(* fields and FORCE_FAILOVER) and, per other Sentinel it knows, the vote   *)
(* that one last answered.  disk[s] is its configuration file, reply the   *)
(* answers on their way; elected and undone remember.  Elapsed time is a   *)
(* choice: a timeout may or may not have passed.  What a Sentinel makes of *)
(* slaves and servers, and when it finds the master down, is in            *)
(* SentinelFailover; here the master may be objectively down, and a        *)
(* selected slave confirm its promotion, at any time.                      *)
(***************************************************************************)
EXTENDS Integers, FiniteSets, FiniteSetsExt

CONSTANTS Sentinels, Servers, FirstMaster, Quorum, MaxEpoch, MaxMishaps, MaxReplies, None

ASSUME ElectionAssumption ==
    /\ IsFiniteSet(Sentinels)
    /\ FirstMaster \in Servers
    /\ None \notin Servers \cup Sentinels
    /\ Quorum \in Nat \ {0} /\ MaxEpoch \in Nat /\ MaxMishaps \in Nat
    /\ MaxReplies \in Nat \ {0}

VARIABLES sen, disk, reply, elected, mishaps, undone
elVars == <<sen, disk, reply, elected, mishaps, undone>>

FailoverStates == {"none", "wait_start", "select_slave", "send_slaveof_noone", "wait_promotion",
                   "reconf_slaves"}
Epochs == 0..MaxEpoch
Vote == [leader : Sentinels \cup {None}, epoch : Epochs]
NoVote == [leader |-> None, epoch |-> 0]

Memory == [epoch : Epochs, addr : Servers, config : Epochs, leader : Sentinels \cup {None},
           leaderEpoch : Epochs, state : FailoverStates, failoverEpoch : Epochs,
           promoted : Servers \cup {None}, forced : BOOLEAN,
           known : SUBSET Sentinels, peer : [Sentinels -> Vote]]
Saved == [epoch : Epochs, addr : Servers, config : Epochs, leaderEpoch : Epochs,
          known : SUBSET Sentinels]

ElTypeOK ==
    /\ sen \in [Sentinels -> Memory]
    /\ disk \in [Sentinels -> Saved]
    /\ reply \in [Sentinels -> [Sentinels -> Vote]]
    /\ elected \subseteq [by : Sentinels, epoch : Epochs, proper : BOOLEAN]
    /\ mishaps \in 0..MaxMishaps
    /\ undone \in BOOLEAN

-----------------------------------------------------------------------------
(* The master instance in the memory of one Sentinel *)

(* sentinelGetCurrentMasterAddress: the promoted slave once it confirmed. *)
CurrentAddress(n) == IF n.state = "reconf_slaves" THEN n.promoted ELSE n.addr

(* rewriteConfigSentinelOption: what sentinelFlushConfig saves. *)
FlushConfig(n) ==
    [epoch |-> n.epoch, addr |-> CurrentAddress(n), config |-> n.config,
     leaderEpoch |-> n.leaderEpoch, known |-> n.known]

NoFailover(n) == [n EXCEPT !.state = "none", !.promoted = None, !.forced = FALSE]

(* sentinelResetMaster, SENTINEL_RESET_NO_SENTINELS: the vote is forgotten *)
(* but for its epoch.                                                      *)
ResetMaster(n) == [NoFailover(n) EXCEPT !.leader = None]

ResetMasterAndChangeAddress(n, a) == [ResetMaster(n) EXCEPT !.addr = a]

(* The variant that votes again in an epoch it has voted in. *)
VoteLeaderAgain(n, e, runid) ==
    LET m == [n EXCEPT !.epoch = Max({@, e})] IN
    IF m.leaderEpoch <= e /\ m.epoch <= e
    THEN [m EXCEPT !.leader = runid, !.leaderEpoch = m.epoch] ELSE m

(* sentinelVoteLeader: the vote for e, unless e is past or was voted in. *)
VoteLeader(n, e, runid) ==
    LET m == [n EXCEPT !.epoch = Max({@, e})] IN
    IF m.leaderEpoch < e /\ m.epoch <= e
    THEN [m EXCEPT !.leader = runid, !.leaderEpoch = m.epoch] ELSE m

(* sentinelGetLeader.  The answers of the others are counted for the       *)
(* current epoch, the own vote is for epoch e; the dictionary decides      *)
(* between equals.                                                         *)
Counted(n, r) == {t \in n.known : n.peer[t].leader = r /\ n.peer[t].epoch = n.epoch}
Votes(n, r) == Cardinality(Counted(n, r))
Frontrunners(n) ==
    {r \in Sentinels : Votes(n, r) > 0 /\ \A q \in Sentinels : Votes(n, q) <= Votes(n, r)}

(* More than half of the Sentinels known, and the configured quorum *)
Enough(n, v) == v >= (Cardinality(n.known) + 1) \div 2 + 1 /\ v >= Quorum

Elections(s, n, e) ==
    LET front == Frontrunners(n)
        Cast(w) == VoteLeader(n, e, w)
        Own(w) == IF Cast(w).leaderEpoch = e THEN Cast(w).leader ELSE None
        Total(w, r) == Votes(n, r) + IF Own(w) = r THEN 1 ELSE 0
        Winner(w) == IF Own(w) # None /\ (front = {} \/ Total(w, Own(w)) > Votes(n, w))
                     THEN Own(w) ELSE IF front = {} THEN None ELSE w
        Outcome(w) == [memory |-> Cast(w),
                       leader |-> IF Winner(w) # None /\ Enough(n, Total(w, Winner(w)))
                                  THEN Winner(w) ELSE None]
    IN {Outcome(w) : w \in IF front = {} THEN {s} ELSE front}

-----------------------------------------------------------------------------
ElInit ==
    /\ sen = [s \in Sentinels |->
                [epoch |-> 0, addr |-> FirstMaster, config |-> 0, leader |-> None,
                 leaderEpoch |-> 0, state |-> "none", failoverEpoch |-> 0, promoted |-> None,
                 forced |-> FALSE, known |-> Sentinels \ {s},
                 peer |-> [t \in Sentinels |-> NoVote]]]
    /\ disk = [s \in Sentinels |-> FlushConfig(sen[s])]
    /\ reply = [s \in Sentinels |-> [t \in Sentinels |-> NoVote]]
    /\ elected = {}
    /\ mishaps = 0
    /\ undone = FALSE

(* The memory of s becomes n; save says whether it is flushed. *)
Becomes(s, n, save) ==
    /\ sen' = [sen EXCEPT ![s] = n]
    /\ disk' = IF save THEN [disk EXCEPT ![s] = FlushConfig(n)] ELSE disk

(* sentinelFailoverWaitStart of a Sentinel whose memory is n: it votes,    *)
(* and goes on if it is the leader or was told to.                         *)
WaitStart(s, n) ==
    \E o \in Elections(s, n, n.failoverEpoch) :
        LET voted == o.memory
            save == voted # n
            leads == o.leader = s
        IN \/ /\ leads \/ n.forced
              /\ Becomes(s, [voted EXCEPT !.state = "select_slave"], save)
              /\ elected' = elected \cup
                    {[by |-> s, epoch |-> n.failoverEpoch,
                      proper |-> leads /\ n.epoch = n.failoverEpoch]}
           \/ /\ ~ (leads \/ n.forced)
              /\ \E timeout \in BOOLEAN :
                    Becomes(s, IF timeout THEN NoFailover(voted) ELSE voted, save)
              /\ UNCHANGED elected

(* sentinelStartFailover *)
Started(n) ==
    [n EXCEPT !.state = "wait_start", !.epoch = @ + 1, !.failoverEpoch = n.epoch + 1]

(* sentinelStartFailoverIfNeeded and the state machine in one tick. *)
StartFailover(s) ==
    LET n == sen[s] IN
    /\ n.state = "none" /\ n.epoch < MaxEpoch
    /\ WaitStart(s, Started(n))
    /\ UNCHANGED <<reply, mishaps, undone>>

(* SENTINEL FAILOVER: no vote before the next tick. *)
FailoverCommand(s) ==
    LET n == sen[s] IN
    /\ n.state = "none" /\ n.epoch < MaxEpoch /\ mishaps < MaxMishaps
    /\ Becomes(s, [Started(n) EXCEPT !.forced = TRUE], FALSE)
    /\ mishaps' = mishaps + 1
    /\ UNCHANGED <<reply, elected, undone>>

(* sentinelFailoverStateMachine, a tick in each of the states. *)
Elect(s) ==
    /\ sen[s].state = "wait_start"
    /\ WaitStart(s, sen[s])
    /\ UNCHANGED <<reply, mishaps, undone>>

SelectSlave(s) ==
    LET n == sen[s] IN
    /\ n.state = "select_slave"
    /\ \/ \E r \in Servers \ {n.addr} :
             Becomes(s, [n EXCEPT !.state = "send_slaveof_noone", !.promoted = r], FALSE)
       \/ Becomes(s, NoFailover(n), FALSE)
    /\ UNCHANGED <<reply, elected, mishaps, undone>>

SendSlaveOfNoOne(s) ==
    LET n == sen[s] IN
    /\ n.state = "send_slaveof_noone"
    /\ \/ Becomes(s, [n EXCEPT !.state = "wait_promotion"], FALSE)
       \/ Becomes(s, NoFailover(n), FALSE)
    /\ UNCHANGED <<reply, elected, mishaps, undone>>

WaitPromotion(s) ==
    /\ sen[s].state = "wait_promotion"
    /\ Becomes(s, NoFailover(sen[s]), FALSE)
    /\ UNCHANGED <<reply, elected, mishaps, undone>>

(* The variant that takes the current epoch, which may be a later one. *)
PromotionSeenCurrentEpoch(s) ==
    LET n == sen[s] IN
    /\ n.state = "wait_promotion"
    /\ Becomes(s, [n EXCEPT !.state = "reconf_slaves", !.config = n.epoch], TRUE)
    /\ UNCHANGED <<reply, elected, mishaps, undone>>

(* sentinelRefreshInstanceInfo: INFO shows the slave as a master. *)
PromotionSeen(s) ==
    LET n == sen[s] IN
    /\ n.state = "wait_promotion"
    /\ Becomes(s, [n EXCEPT !.state = "reconf_slaves", !.config = n.failoverEpoch], TRUE)
    /\ UNCHANGED <<reply, elected, mishaps, undone>>

(* sentinelFailoverDetectEnd, sentinelFailoverSwitchToPromotedSlave *)
SwitchToPromoted(s) ==
    LET n == sen[s] IN
    /\ n.state = "reconf_slaves"
    /\ Becomes(s, ResetMasterAndChangeAddress(n, n.promoted), TRUE)
    /\ UNCHANGED <<reply, elected, mishaps, undone>>

-----------------------------------------------------------------------------
(* Messages *)

(* The answers on their way, MaxReplies at most *)
OnTheWay == {p \in Sentinels \X Sentinels : reply[p[1]][p[2]].leader # None}

(* sentinelAskMasterStateToOtherSentinels of s, and the vote of t in       *)
(* SENTINEL is-master-down-by-addr.  Its answer replaces one on its way,   *)
(* and may come late or be lost with the connection.                       *)
AskForVote(s, t) ==
    LET n == sen[s]
        voted == VoteLeader(sen[t], n.epoch, s)
    IN /\ n.state # "none" /\ t \in n.known
       /\ sen[t].addr = n.addr
       /\ Cardinality(OnTheWay \ {<<s, t>>}) < MaxReplies
       /\ Becomes(t, voted, voted # sen[t])
       /\ reply' = [reply EXCEPT ![s][t] = [leader |-> voted.leader, epoch |-> voted.leaderEpoch]]
       /\ UNCHANGED <<elected, mishaps, undone>>

(* sentinelReceiveIsMasterDownReply *)
ReceiveVote(s, t) ==
    LET v == reply[s][t] IN
    /\ v.leader # None
    /\ reply' = [reply EXCEPT ![s][t] = NoVote]
    /\ IF t \notin sen[s].known THEN UNCHANGED <<sen, disk>>
       ELSE Becomes(s, [sen[s] EXCEPT !.peer[t] = v], FALSE)
    /\ UNCHANGED <<elected, mishaps, undone>>

(* An answer older than five periods is dropped. *)
ForgetVote(s, t) ==
    /\ sen[s].peer[t].leader # None
    /\ Becomes(s, [sen[s] EXCEPT !.peer[t] = NoVote], FALSE)
    /\ UNCHANGED <<reply, elected, mishaps, undone>>

(* sentinelSendHello of s and sentinelProcessHelloMessage of t: the sender *)
(* becomes known, a higher epoch is saved and taken over, and so is a      *)
(* newer configuration.                                                    *)
ReceiveHello(t, s) ==
    LET from == sen[s]
        n == [sen[t] EXCEPT !.known = @ \cup {s}, !.epoch = Max({@, from.epoch})]
        newer == n.config < from.config
        switch == newer /\ n.addr # CurrentAddress(from)
        c == [n EXCEPT !.config = from.config]
    IN /\ s # t
       /\ \/ /\ switch
             /\ Becomes(t, ResetMasterAndChangeAddress(c, CurrentAddress(from)), TRUE)
          \/ /\ ~switch
             /\ n # sen[t] \/ newer
             /\ sen' = [sen EXCEPT ![t] = IF newer THEN c ELSE n]
             /\ disk' = IF n = sen[t] THEN disk ELSE [disk EXCEPT ![t] = FlushConfig(n)]
       /\ undone' = (undone \/ (newer /\ ~switch /\ n.state = "reconf_slaves"))
       /\ UNCHANGED <<reply, elected, mishaps>>

-----------------------------------------------------------------------------
(* SENTINEL RESET: the other Sentinels are forgotten as well. *)
ResetCommand(s) ==
    /\ mishaps < MaxMishaps
    /\ mishaps' = mishaps + 1
    /\ Becomes(s, [ResetMaster(sen[s]) EXCEPT !.known = {}, !.peer = [t \in Sentinels |-> NoVote]],
               FALSE)
    /\ undone' = (undone \/ sen[s].state = "reconf_slaves")
    /\ UNCHANGED <<reply, elected>>

(* A Sentinel dies and starts from its configuration file. *)
Restart(s) ==
    LET d == disk[s] IN
    /\ mishaps < MaxMishaps
    /\ mishaps' = mishaps + 1
    /\ sen' = [sen EXCEPT ![s] =
                 [epoch |-> Max({d.epoch, d.config}), addr |-> d.addr, config |-> d.config,
                  leader |-> None, leaderEpoch |-> d.leaderEpoch, state |-> "none",
                  failoverEpoch |-> 0, promoted |-> None, forced |-> FALSE, known |-> d.known,
                  peer |-> [t \in Sentinels |-> NoVote]]]
    /\ reply' = [t \in Sentinels |-> [u \in Sentinels |->
                   IF t = s \/ u = s THEN NoVote ELSE reply[t][u]]]
    /\ UNCHANGED <<disk, elected, undone>>

Tick(s) ==
    \/ StartFailover(s) \/ Elect(s) \/ SelectSlave(s) \/ SendSlaveOfNoOne(s)
    \/ WaitPromotion(s) \/ PromotionSeen(s) \/ SwitchToPromoted(s)

Exchange(s, t) ==
    \/ AskForVote(s, t) \/ ReceiveVote(s, t) \/ ForgetVote(s, t) \/ ReceiveHello(s, t)

Mishap(s) == FailoverCommand(s) \/ ResetCommand(s) \/ Restart(s)

ElNext ==
    \/ \E s \in Sentinels : Tick(s) \/ Mishap(s)
    \/ \E s, t \in Sentinels : Exchange(s, t)

ElSpec == ElInit /\ [][ElNext]_elVars

-----------------------------------------------------------------------------
(* At most one Sentinel is elected for a failover epoch, whatever is       *)
(* delayed, lost or restarted.  A Sentinel that heard of a later epoch     *)
(* while it waited counts the votes of that later epoch for its own        *)
(* (sentinelGetLeader compares with current_epoch): such a late election   *)
(* is excepted, and so is a SENTINEL FAILOVER, which needs no election.    *)
OneLeaderPerEpoch ==
    \A a, b \in elected : a.epoch = b.epoch /\ a.proper /\ b.proper => a.by = b.by

(* A vote is final: the epoch of a Sentinel's last vote never goes back,   *)
(* not even over a restart from its file, and within an epoch the vote     *)
(* passes to no other Sentinel.                                            *)
VoteIsFinal ==
    [][\A s \in Sentinels :
        /\ sen'[s].leaderEpoch >= sen[s].leaderEpoch
        /\ sen'[s].leaderEpoch = sen[s].leaderEpoch => sen'[s].leader \in {sen[s].leader, None}]_elVars

(* Two Sentinels with the same config epoch name the same master, however  *)
(* the configuration reached them and whatever they restarted from, as     *)
(* long as no two Sentinels went ahead with a failover of the same epoch,  *)
(* and nothing undid a promotion while the slaves were reconfigured: a     *)
(* SENTINEL RESET then discards the promoted slave and keeps its epoch,    *)
(* and a hello that names the old master for a later epoch is compared     *)
(* with the old address, so its epoch is taken and the promoted slave kept.*)
SameEpochSameMaster ==
    ~undone /\ (\A a, b \in elected : a.epoch = b.epoch => a.by = b.by) =>
    \A s, t \in DOMAIN sen :
        sen[s].config = sen[t].config => CurrentAddress(sen[s]) = CurrentAddress(sen[t])
=============================================================================
