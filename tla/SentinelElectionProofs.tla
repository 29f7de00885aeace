----------------------- MODULE SentinelElectionProofs -----------------------
(***************************************************************************)
(* The elections of Redis Sentinel for any number of Sentinels, servers,   *)
(* epochs, restarts and answers on their way.                              *)
(***************************************************************************)
EXTENDS SentinelElection, FiniteSetTheorems, TLAPS

(* The memory n of Sentinel s: a Sentinel is not among the others it knows *)
(* and a slave has been selected in the states that follow the selection.  *)
Selected == {"send_slaveof_noone", "wait_promotion", "reconf_slaves"}
Sound(s, n) ==
    /\ n \in Memory
    /\ s \notin n.known
    /\ n.state \in Selected => n.promoted # None

(* The configuration file has the epoch of the last vote at any time. *)
BaseInv ==
    /\ ElTypeOK
    /\ \A s \in Sentinels : /\ Sound(s, sen[s])
                            /\ disk[s].leaderEpoch = sen[s].leaderEpoch
                            /\ s \notin disk[s].known

-----------------------------------------------------------------------------
(* The memory of one Sentinel *)

(* What the larger of two numbers is *)
LEMMA MaxOfTwo ==
    ASSUME NEW a \in Int, NEW b \in Int
    PROVE  Max({a, b}) = IF a >= b THEN a ELSE b
<1> DEFINE m == IF a >= b THEN a ELSE b
<1>1. m \in {a, b} /\ \A y \in {a, b} : m >= y
  OBVIOUS
<1>2. \A x \in {a, b} : (\A y \in {a, b} : x >= y) => x = m
  OBVIOUS
<1> QED BY <1>1, <1>2 DEF Max

LEMMA MaxEpochType ==
    ASSUME NEW a \in Epochs, NEW b \in Epochs
    PROVE  Max({a, b}) \in Epochs
BY MaxOfTwo, ElectionAssumption DEF Epochs

LEMMA FlushType ==
    ASSUME NEW s \in Sentinels, NEW n, Sound(s, n)
    PROVE  /\ FlushConfig(n) \in Saved
           /\ FlushConfig(n).leaderEpoch = n.leaderEpoch
           /\ FlushConfig(n).known = n.known
<1>1. CurrentAddress(n) \in Servers
  BY DEF CurrentAddress, Sound, Memory, Selected
<1> QED BY <1>1 DEF FlushConfig, Saved, Sound, Memory

(* Two memories with the same votes; the failover may have been given up   *)
(* and the own vote forgotten.                                             *)
SameVotes(m, n) ==
    /\ m.leader \in {n.leader, None}
    /\ m.leaderEpoch = n.leaderEpoch
    /\ m.known = n.known
    /\ m.peer = n.peer

LEMMA NoFailoverSound ==
    ASSUME NEW s \in Sentinels, NEW n, Sound(s, n)
    PROVE  Sound(s, NoFailover(n)) /\ SameVotes(NoFailover(n), n)
BY DEF NoFailover, Sound, Memory, Selected, SameVotes, FailoverStates

LEMMA ResetMasterSound ==
    ASSUME NEW s \in Sentinels, NEW n, Sound(s, n)
    PROVE  /\ Sound(s, ResetMaster(n)) /\ SameVotes(ResetMaster(n), n)
           /\ \A a \in Servers : /\ Sound(s, ResetMasterAndChangeAddress(n, a))
                                 /\ SameVotes(ResetMasterAndChangeAddress(n, a), n)
<1>1. Sound(s, ResetMaster(n)) /\ SameVotes(ResetMaster(n), n)
  BY NoFailoverSound DEF ResetMaster, Sound, Memory, SameVotes
<1>2. ASSUME NEW a \in Servers
      PROVE  /\ Sound(s, ResetMasterAndChangeAddress(n, a))
             /\ SameVotes(ResetMasterAndChangeAddress(n, a), n)
  BY <1>1 DEF ResetMasterAndChangeAddress, Sound, Memory, SameVotes
<1> QED BY <1>1, <1>2

LEMMA StartedSound ==
    ASSUME NEW s \in Sentinels, NEW n, Sound(s, n), n.epoch < MaxEpoch
    PROVE  /\ Sound(s, Started(n)) /\ SameVotes(Started(n), n)
           /\ Started(n).leader = n.leader
           /\ Started(n).epoch = n.epoch + 1 /\ Started(n).failoverEpoch = n.epoch + 1
           /\ Started(n).state = "wait_start"
           /\ Started(n).forced = n.forced
<1>1. n.epoch \in 0..MaxEpoch /\ MaxEpoch \in Nat
  BY ElectionAssumption DEF Sound, Memory, Epochs
<1>2. n.epoch + 1 \in Epochs
  BY <1>1 DEF Epochs
<1> QED BY <1>2 DEF Started, Sound, Memory, SameVotes, Selected, FailoverStates

(* sentinelVoteLeader leaves the last vote as it was, or casts one for an  *)
(* epoch after that of the last.                                           *)
LEMMA VoteLeaderSound ==
    ASSUME NEW s \in Sentinels, NEW n, Sound(s, n), NEW e \in Epochs, NEW r \in Sentinels
    PROVE  LET v == VoteLeader(n, e, r) IN
           /\ Sound(s, v)
           /\ v.known = n.known /\ v.peer = n.peer /\ v.state = n.state
           /\ \/ v.leader = n.leader /\ v.leaderEpoch = n.leaderEpoch
              \/ v.leader = r /\ v.leaderEpoch = e /\ n.leaderEpoch < e /\ v # n
<1> DEFINE m == [n EXCEPT !.epoch = Max({@, e})]
<1>0. n \in Memory /\ n.epoch \in Epochs
  BY DEF Sound, Memory
<1>1. Max({n.epoch, e}) \in Epochs /\ (Max({n.epoch, e}) <= e => Max({n.epoch, e}) = e)
  BY <1>0, MaxEpochType, MaxOfTwo, ElectionAssumption DEF Epochs
<1>2. /\ m \in Memory /\ m.known = n.known /\ m.peer = n.peer /\ m.state = n.state
      /\ m.leader = n.leader /\ m.leaderEpoch = n.leaderEpoch /\ m.promoted = n.promoted
      /\ m.epoch = Max({n.epoch, e})
  BY <1>0, <1>1 DEF Memory
<1> DEFINE w == [m EXCEPT !.leader = r, !.leaderEpoch = m.epoch]
<1>3. VoteLeader(n, e, r) = IF m.leaderEpoch < e /\ m.epoch <= e THEN w ELSE m
  BY DEF VoteLeader
<1> HIDE DEF m
<1>4. /\ w \in Memory /\ w.known = m.known /\ w.peer = m.peer /\ w.state = m.state
      /\ w.leader = r /\ w.leaderEpoch = m.epoch /\ w.promoted = m.promoted
  BY <1>1, <1>2 DEF Memory
<1> HIDE DEF w
<1>5. CASE m.leaderEpoch < e /\ m.epoch <= e
  <2>1. w.leaderEpoch = e /\ n.leaderEpoch < e /\ n.leaderEpoch \in Epochs
    BY <1>0, <1>1, <1>2, <1>4, <1>5 DEF Memory
  <2>2. w # n
    BY <2>1, ElectionAssumption DEF Epochs
  <2> QED BY <1>2, <1>3, <1>4, <1>5, <2>1, <2>2 DEF Sound
<1>6. CASE ~ (m.leaderEpoch < e /\ m.epoch <= e)
  BY <1>2, <1>3, <1>6 DEF Sound
<1> QED BY <1>5, <1>6

-----------------------------------------------------------------------------
(* The election *)

(* A tick in wait_start: the Sentinel has voted for some w, it may have    *)
(* given the failover up, and if it goes on as the proper leader of its    *)
(* epoch then that many Sentinels have voted for it.                       *)
WaitStartShape(s, n, w, v, x) ==
    /\ v = VoteLeader(n, n.failoverEpoch, w)
    /\ Sound(s, x) /\ x.leader = v.leader /\ x.leaderEpoch = v.leaderEpoch
    /\ x.known = n.known /\ x.peer = n.peer
    /\ Becomes(s, x, v # n)
    /\ \/ UNCHANGED elected
       \/ \E p \in BOOLEAN :
            /\ elected' = elected \cup {[by |-> s, epoch |-> n.failoverEpoch, proper |-> p]}
            /\ p => /\ n.epoch = n.failoverEpoch
                    /\ Votes(n, s) + (IF v.leaderEpoch = n.epoch /\ v.leader = s THEN 1 ELSE 0)
                         >= Quorum

LEMMA WaitStartSound ==
    ASSUME NEW s \in Sentinels, NEW n, Sound(s, n), WaitStart(s, n)
    PROVE  \E w \in Sentinels : \E v, x : WaitStartShape(s, n, w, v, x)
<1> DEFINE e == n.failoverEpoch
           front == Frontrunners(n)
           Cast(w) == VoteLeader(n, e, w)
           Own(w) == IF Cast(w).leaderEpoch = e THEN Cast(w).leader ELSE None
           Total(w, r) == Votes(n, r) + IF Own(w) = r THEN 1 ELSE 0
           Winner(w) == IF Own(w) # None /\ (front = {} \/ Total(w, Own(w)) > Votes(n, w))
                        THEN Own(w) ELSE IF front = {} THEN None ELSE w
           Outcome(w) == [memory |-> Cast(w),
                          leader |-> IF Winner(w) # None /\ Enough(n, Total(w, Winner(w)))
                                     THEN Winner(w) ELSE None]
<1>0. Elections(s, n, e) = {Outcome(w) : w \in IF front = {} THEN {s} ELSE front}
  BY DEF Elections
<1>1. PICK o \in Elections(s, n, e) :
        LET voted == o.memory
            save == voted # n
            leads == o.leader = s
        IN \/ /\ leads \/ n.forced
              /\ Becomes(s, [voted EXCEPT !.state = "select_slave"], save)
              /\ elected' = elected \cup
                    {[by |-> s, epoch |-> n.failoverEpoch,
                      proper |-> leads /\ n.epoch = n.failoverEpoch]}
           \/ /\ ~ (leads \/ n.forced)
              /\ \E timeout \in BOOLEAN :
                    Becomes(s, IF timeout THEN NoFailover(voted) ELSE voted, save)
              /\ UNCHANGED elected
  BY DEF WaitStart
<1>2. PICK w \in Sentinels : o = Outcome(w)
  BY <1>0, <1>1 DEF Frontrunners
<1>3. o.memory = Cast(w)
  BY <1>2
<1>4. None \notin Sentinels /\ Quorum \in Nat /\ e \in Epochs
  BY ElectionAssumption DEF Sound, Memory
<1>5. o.leader = s => Total(w, s) >= Quorum
  BY <1>2, <1>4 DEF Enough
<1> DEFINE v == Cast(w)
<1>6. Sound(s, v) /\ v.known = n.known /\ v.peer = n.peer /\ v.state = n.state
  BY <1>4, VoteLeaderSound
<1>7. o.leader = s => Votes(n, s) + (IF v.leaderEpoch = e /\ v.leader = s THEN 1 ELSE 0) >= Quorum
  BY <1>4, <1>5
<1>8. ASSUME NEW x, Sound(s, x), x.leader = v.leader, x.leaderEpoch = v.leaderEpoch,
             x.known = v.known, x.peer = v.peer, Becomes(s, x, v # n),
             \/ UNCHANGED elected
             \/ elected' = elected \cup {[by |-> s, epoch |-> e,
                                          proper |-> o.leader = s /\ n.epoch = e]}
      PROVE  WaitStartShape(s, n, w, v, x)
  <2> DEFINE p == o.leader = s /\ n.epoch = e
  <2>1. p => Votes(n, s) + (IF v.leaderEpoch = n.epoch /\ v.leader = s THEN 1 ELSE 0) >= Quorum
    BY <1>7
  <2>2. p \in BOOLEAN /\ (p => n.epoch = n.failoverEpoch)
    OBVIOUS
  <2>3. \/ UNCHANGED elected
        \/ elected' = elected \cup {[by |-> s, epoch |-> n.failoverEpoch, proper |-> p]}
    BY <1>8
  <2> HIDE DEF p, v
  <2>4. v = VoteLeader(n, n.failoverEpoch, w)
    BY DEF v
  <2> QED BY <1>6, <1>8, <2>1, <2>2, <2>3, <2>4 DEF WaitStartShape
<1>9. CASE o.leader = s \/ n.forced
  <2> DEFINE x == [v EXCEPT !.state = "select_slave"]
  <2>1. /\ Becomes(s, x, v # n)
        /\ elected' = elected \cup {[by |-> s, epoch |-> e, proper |-> o.leader = s /\ n.epoch = e]}
    BY <1>1, <1>3, <1>9
  <2> HIDE DEF v
  <2>2. /\ Sound(s, x) /\ x.leader = v.leader /\ x.leaderEpoch = v.leaderEpoch
        /\ x.known = v.known /\ x.peer = v.peer
    BY <1>6 DEF Sound, Memory, FailoverStates, Selected
  <2> HIDE DEF x
  <2> QED BY <1>8, <2>1, <2>2
<1>10. CASE ~ (o.leader = s \/ n.forced)
  <2>1. UNCHANGED elected /\ \E timeout \in BOOLEAN :
          Becomes(s, IF timeout THEN NoFailover(v) ELSE v, v # n)
    BY <1>1, <1>3, <1>10
  <2>2. /\ Sound(s, NoFailover(v)) /\ NoFailover(v).leader = v.leader
        /\ NoFailover(v).leaderEpoch = v.leaderEpoch
        /\ NoFailover(v).known = v.known /\ NoFailover(v).peer = v.peer
    <3> HIDE DEF v
    <3> QED BY <1>6, NoFailoverSound DEF NoFailover, Sound, Memory
  <2>3. CASE Becomes(s, NoFailover(v), v # n)
    BY <1>8, <2>1, <2>2, <2>3
  <2>4. CASE Becomes(s, v, v # n)
    BY <1>6, <1>8, <2>1, <2>4
  <2> QED BY <2>1, <2>3, <2>4
<1> QED BY <1>9, <1>10

-----------------------------------------------------------------------------
(* Types *)

LEMMA BecomesBase ==
    ASSUME BaseInv, NEW s \in Sentinels, NEW n, Sound(s, n), NEW save \in BOOLEAN,
           Becomes(s, n, save), save \/ n.leaderEpoch = sen[s].leaderEpoch,
           reply' \in [Sentinels -> [Sentinels -> Vote]],
           elected' \subseteq [by : Sentinels, epoch : Epochs, proper : BOOLEAN],
           mishaps' \in 0..MaxMishaps, undone' \in BOOLEAN
    PROVE  BaseInv'
<1>0. sen \in [Sentinels -> Memory] /\ disk \in [Sentinels -> Saved] /\ n \in Memory
  BY DEF BaseInv, ElTypeOK, Sound
<1>1. /\ sen' \in [Sentinels -> Memory] /\ sen'[s] = n
      /\ \A t \in Sentinels : t # s => sen'[t] = sen[t]
  BY <1>0 DEF Becomes
<1>2. \A t \in Sentinels : /\ Sound(t, sen[t]) /\ disk[t].leaderEpoch = sen[t].leaderEpoch
                           /\ t \notin disk[t].known
  BY DEF BaseInv
<1>3. CASE save
  <2>1. /\ FlushConfig(n) \in Saved /\ FlushConfig(n).leaderEpoch = n.leaderEpoch
        /\ s \notin FlushConfig(n).known
    BY FlushType DEF Sound
  <2>2. /\ disk' \in [Sentinels -> Saved] /\ disk'[s] = FlushConfig(n)
        /\ \A t \in Sentinels : t # s => disk'[t] = disk[t]
    BY <1>0, <1>3, <2>1 DEF Becomes
  <2>3. ElTypeOK'
    BY <1>1, <2>2 DEF ElTypeOK
  <2>4. ASSUME NEW t \in Sentinels
        PROVE  /\ Sound(t, sen'[t]) /\ disk'[t].leaderEpoch = sen'[t].leaderEpoch
               /\ t \notin disk'[t].known
    BY <1>1, <1>2, <2>1, <2>2
  <2> QED BY <2>3, <2>4 DEF BaseInv, Sound
<1>4. CASE ~save
  <2>1. disk' = disk /\ n.leaderEpoch = sen[s].leaderEpoch
    BY <1>4 DEF Becomes
  <2>2. ElTypeOK'
    BY <1>0, <1>1, <2>1 DEF ElTypeOK
  <2>3. ASSUME NEW t \in Sentinels
        PROVE  /\ Sound(t, sen'[t]) /\ disk'[t].leaderEpoch = sen'[t].leaderEpoch
               /\ t \notin disk'[t].known
    BY <1>1, <1>2, <2>1
  <2> QED BY <2>2, <2>3 DEF BaseInv, Sound
<1> QED BY <1>3, <1>4


(* The memory that Restart makes of the file *)
Restarted(d) ==
    [epoch |-> Max({d.epoch, d.config}), addr |-> d.addr, config |-> d.config,
     leader |-> None, leaderEpoch |-> d.leaderEpoch, state |-> "none",
     failoverEpoch |-> 0, promoted |-> None, forced |-> FALSE, known |-> d.known,
     peer |-> [t \in Sentinels |-> NoVote]]

LEMMA NoVoteType == NoVote \in Vote
BY ElectionAssumption DEF NoVote, Vote, Epochs

LEMMA RestartedSound ==
    ASSUME NEW s \in Sentinels, NEW d \in Saved, s \notin d.known
    PROVE  Sound(s, Restarted(d))
<1>1. Max({d.epoch, d.config}) \in Epochs /\ 0 \in Epochs
  BY MaxEpochType, ElectionAssumption DEF Saved, Epochs
<1>2. [t \in Sentinels |-> NoVote] \in [Sentinels -> Vote]
  BY NoVoteType
<1> QED BY <1>1, <1>2 DEF Restarted, Sound, Memory, Saved, Selected, FailoverStates

(* What t has in memory when it has read a hello of s, and what it keeps   *)
(* on disk.                                                                *)
Heard(t, s) == [sen[t] EXCEPT !.known = @ \cup {s}, !.epoch = Max({@, sen[s].epoch})]

LEMMA HeardSound ==
    ASSUME BaseInv, NEW s \in Sentinels, NEW t \in Sentinels, s # t
    PROVE  /\ Sound(t, Heard(t, s))
           /\ Heard(t, s).leader = sen[t].leader /\ Heard(t, s).leaderEpoch = sen[t].leaderEpoch
           /\ Heard(t, s).peer = sen[t].peer
<1>1. Sound(t, sen[t]) /\ Sound(s, sen[s])
  BY DEF BaseInv
<1>2. Max({sen[t].epoch, sen[s].epoch}) \in Epochs
  BY <1>1, MaxEpochType DEF Sound, Memory
<1> QED BY <1>1, <1>2 DEF Heard, Sound, Memory

(* Only the memory of t changes with a hello, and neither vote nor answers *)
(* but for a vote that is forgotten.                                       *)
LEMMA HelloShape ==
    ASSUME BaseInv, NEW s \in Sentinels, NEW t \in Sentinels, ReceiveHello(t, s)
    PROVE  \E x, m : /\ Sound(t, x) /\ x.leader \in {sen[t].leader, None}
                     /\ x.leaderEpoch = sen[t].leaderEpoch /\ x.peer = sen[t].peer
                     /\ sen' = [sen EXCEPT ![t] = x]
                     /\ disk' = disk \/ disk' = [disk EXCEPT ![t] = FlushConfig(m)]
                     /\ Sound(t, m) /\ m.leaderEpoch = sen[t].leaderEpoch
<1> DEFINE n == Heard(t, s)
           a == CurrentAddress(sen[s])
           newer == n.config < sen[s].config
           switch == newer /\ n.addr # a
           c == [n EXCEPT !.config = sen[s].config]
<1>0. s # t
  BY DEF ReceiveHello
<1>1. /\ Sound(t, n) /\ n.leader = sen[t].leader /\ n.leaderEpoch = sen[t].leaderEpoch
      /\ n.peer = sen[t].peer
  BY <1>0, HeardSound
<1>2. Sound(s, sen[s]) /\ a \in Servers
  BY DEF BaseInv, Sound, Memory, CurrentAddress, Selected
<1>3. \/ switch /\ Becomes(t, ResetMasterAndChangeAddress(c, a), TRUE)
      \/ /\ sen' = [sen EXCEPT ![t] = IF newer THEN c ELSE n]
         /\ disk' = IF n = sen[t] THEN disk ELSE [disk EXCEPT ![t] = FlushConfig(n)]
  BY DEF ReceiveHello, Heard
<1> HIDE DEF n
<1>4. /\ Sound(t, c) /\ c.leader = n.leader /\ c.leaderEpoch = n.leaderEpoch /\ c.peer = n.peer
  BY <1>1, <1>2 DEF Sound, Memory
<1> HIDE DEF c, a
<1>5. CASE switch /\ Becomes(t, ResetMasterAndChangeAddress(c, a), TRUE)
  <2> DEFINE x == ResetMasterAndChangeAddress(c, a)
  <2>1. Sound(t, x) /\ SameVotes(x, c)
    BY <1>2, <1>4, ResetMasterSound
  <2>2. sen' = [sen EXCEPT ![t] = x] /\ disk' = [disk EXCEPT ![t] = FlushConfig(x)]
    BY <1>5 DEF Becomes
  <2> HIDE DEF x
  <2> QED BY <1>1, <1>4, <2>1, <2>2 DEF SameVotes
<1>6. CASE /\ sen' = [sen EXCEPT ![t] = IF newer THEN c ELSE n]
           /\ disk' = IF n = sen[t] THEN disk ELSE [disk EXCEPT ![t] = FlushConfig(n)]
  <2> DEFINE x == IF newer THEN c ELSE n
  <2>1. /\ Sound(t, x) /\ x.leader = sen[t].leader /\ x.leaderEpoch = sen[t].leaderEpoch
        /\ x.peer = sen[t].peer
    BY <1>1, <1>4
  <2>2. disk' = disk \/ disk' = [disk EXCEPT ![t] = FlushConfig(n)]
    BY <1>6
  <2> QED BY <1>1, <1>6, <2>1, <2>2
<1> QED BY <1>3, <1>5, <1>6

LEMMA BaseStep == BaseInv /\ [ElNext]_elVars => BaseInv'
<1> SUFFICES ASSUME BaseInv, [ElNext]_elVars PROVE BaseInv'
  OBVIOUS
<1>0. /\ sen \in [Sentinels -> Memory] /\ disk \in [Sentinels -> Saved]
      /\ reply \in [Sentinels -> [Sentinels -> Vote]]
      /\ elected \subseteq [by : Sentinels, epoch : Epochs, proper : BOOLEAN]
      /\ mishaps \in 0..MaxMishaps /\ undone \in BOOLEAN /\ MaxMishaps \in Nat
  BY ElectionAssumption DEF BaseInv, ElTypeOK
<1>a. \A s \in Sentinels : Sound(s, sen[s]) /\ s \notin disk[s].known
  BY DEF BaseInv
<1>1. ASSUME NEW s \in Sentinels, NEW n, Sound(s, n), n.leaderEpoch = sen[s].leaderEpoch,
             WaitStart(s, n), UNCHANGED <<reply, mishaps, undone>>
      PROVE  BaseInv'
  <2>a. PICK w \in Sentinels : \E v, x : WaitStartShape(s, n, w, v, x)
    BY <1>1, WaitStartSound
  <2>1. PICK v, x : WaitStartShape(s, n, w, v, x)
    BY <2>a
  <2>2. elected' \subseteq [by : Sentinels, epoch : Epochs, proper : BOOLEAN]
    BY <1>0, <1>1, <2>1 DEF WaitStartShape, Sound, Memory
  <2>3. (v # n) \/ x.leaderEpoch = sen[s].leaderEpoch
    BY <1>1, <2>1 DEF WaitStartShape
  <2>4. Sound(s, x) /\ Becomes(s, x, v # n)
    BY <2>1 DEF WaitStartShape
  <2> QED BY <1>0, <1>1, <2>2, <2>3, <2>4, BecomesBase
<1>2. ASSUME NEW s \in Sentinels, StartFailover(s) PROVE BaseInv'
  <2>1. /\ WaitStart(s, Started(sen[s])) /\ sen[s].epoch < MaxEpoch
        /\ UNCHANGED <<reply, mishaps, undone>>
    BY <1>2 DEF StartFailover
  <2> QED BY <1>1, <1>a, <2>1, StartedSound DEF SameVotes
<1>3. ASSUME NEW s \in Sentinels, Elect(s) PROVE BaseInv'
  BY <1>1, <1>3, <1>a DEF Elect
<1>4. ASSUME NEW s \in Sentinels, NEW x, Sound(s, x), x.leaderEpoch = sen[s].leaderEpoch,
             NEW save \in BOOLEAN, Becomes(s, x, save), UNCHANGED <<reply, elected>>,
             mishaps' \in 0..MaxMishaps, undone' \in BOOLEAN
      PROVE  BaseInv'
  BY <1>0, <1>4, BecomesBase
<1>5. ASSUME NEW s \in Sentinels, FailoverCommand(s) PROVE BaseInv'
  <2> DEFINE n == Started(sen[s])
             x == [n EXCEPT !.forced = TRUE]
  <2>1. /\ sen[s].epoch < MaxEpoch /\ Becomes(s, x, FALSE) /\ mishaps < MaxMishaps
        /\ mishaps' = mishaps + 1 /\ UNCHANGED <<reply, elected, undone>>
    BY <1>5 DEF FailoverCommand
  <2>2. Sound(s, n) /\ n.leaderEpoch = sen[s].leaderEpoch
    BY <1>a, <2>1, StartedSound DEF SameVotes
  <2> HIDE DEF n
  <2>3. Sound(s, x) /\ x.leaderEpoch = sen[s].leaderEpoch
    BY <2>2 DEF Sound, Memory
  <2>4. mishaps' \in 0..MaxMishaps /\ undone' \in BOOLEAN
    BY <1>0, <2>1
  <2> HIDE DEF x
  <2> QED BY <1>4, <2>1, <2>3, <2>4
<1>6. ASSUME NEW s \in Sentinels, SelectSlave(s) PROVE BaseInv'
  <2>1. CASE Becomes(s, NoFailover(sen[s]), FALSE) /\ UNCHANGED <<reply, elected, mishaps, undone>>
    BY <1>0, <1>4, <1>a, <2>1, NoFailoverSound DEF SameVotes
  <2>2. ASSUME NEW r \in Servers,
               Becomes(s, [sen[s] EXCEPT !.state = "send_slaveof_noone", !.promoted = r], FALSE),
               UNCHANGED <<reply, elected, mishaps, undone>>
        PROVE  BaseInv'
    <3> DEFINE x == [sen[s] EXCEPT !.state = "send_slaveof_noone", !.promoted = r]
    <3>0. r # None /\ Sound(s, sen[s])
      BY <1>a, ElectionAssumption
    <3>1. Sound(s, x) /\ x.leaderEpoch = sen[s].leaderEpoch
      BY <3>0 DEF Sound, Memory, FailoverStates
    <3>2. Becomes(s, x, FALSE)
      BY <2>2
    <3> HIDE DEF x
    <3> QED BY <1>0, <1>4, <2>2, <3>1, <3>2
  <2> QED BY <1>6, <2>1, <2>2 DEF SelectSlave
<1>7. ASSUME NEW s \in Sentinels, SendSlaveOfNoOne(s) \/ WaitPromotion(s) PROVE BaseInv'
  <2>1. CASE Becomes(s, NoFailover(sen[s]), FALSE) /\ UNCHANGED <<reply, elected, mishaps, undone>>
    BY <1>0, <1>4, <1>a, <2>1, NoFailoverSound DEF SameVotes
  <2>2. ASSUME sen[s].state = "send_slaveof_noone",
               Becomes(s, [sen[s] EXCEPT !.state = "wait_promotion"], FALSE),
               UNCHANGED <<reply, elected, mishaps, undone>>
        PROVE  BaseInv'
    <3> DEFINE x == [sen[s] EXCEPT !.state = "wait_promotion"]
    <3>1. Sound(s, x) /\ x.leaderEpoch = sen[s].leaderEpoch
      BY <1>a, <2>2 DEF Sound, Memory, FailoverStates, Selected
    <3>2. Becomes(s, x, FALSE)
      BY <2>2
    <3> HIDE DEF x
    <3> QED BY <1>0, <1>4, <2>2, <3>1, <3>2
  <2> QED BY <1>7, <2>1, <2>2 DEF SendSlaveOfNoOne, WaitPromotion
<1>8. ASSUME NEW s \in Sentinels, PromotionSeen(s) PROVE BaseInv'
  <2> DEFINE x == [sen[s] EXCEPT !.state = "reconf_slaves", !.config = sen[s].failoverEpoch]
  <2>1. Sound(s, x) /\ x.leaderEpoch = sen[s].leaderEpoch
    BY <1>8, <1>a DEF PromotionSeen, Sound, Memory, FailoverStates, Selected
  <2>2. Becomes(s, x, TRUE) /\ UNCHANGED <<reply, elected, mishaps, undone>>
    BY <1>8 DEF PromotionSeen
  <2> HIDE DEF x
  <2> QED BY <1>0, <1>4, <2>1, <2>2
<1>9. ASSUME NEW s \in Sentinels, SwitchToPromoted(s) PROVE BaseInv'
  <2> DEFINE x == ResetMasterAndChangeAddress(sen[s], sen[s].promoted)
  <2>1. Becomes(s, x, TRUE) /\ UNCHANGED <<reply, elected, mishaps, undone>>
    BY <1>9 DEF SwitchToPromoted
  <2>2. sen[s].promoted \in Servers
    BY <1>9, <1>a DEF SwitchToPromoted, Sound, Memory, Selected
  <2>3. Sound(s, x) /\ x.leaderEpoch = sen[s].leaderEpoch
    BY <1>a, <2>2, ResetMasterSound DEF SameVotes
  <2> HIDE DEF x
  <2> QED BY <1>0, <1>4, <2>1, <2>3
<1>10. ASSUME NEW s \in Sentinels, NEW t \in Sentinels, AskForVote(s, t) PROVE BaseInv'
  <2> DEFINE v == VoteLeader(sen[t], sen[s].epoch, s)
  <2>1. /\ Becomes(t, v, v # sen[t]) /\ UNCHANGED <<elected, mishaps, undone>>
        /\ reply' = [reply EXCEPT ![s][t] = [leader |-> v.leader, epoch |-> v.leaderEpoch]]
    BY <1>10 DEF AskForVote
  <2>2. Sound(t, v)
    BY <1>a, VoteLeaderSound DEF Sound, Memory
  <2> HIDE DEF v
  <2>3. [leader |-> v.leader, epoch |-> v.leaderEpoch] \in Vote
    BY <2>2 DEF Sound, Memory, Vote
  <2>4. reply' \in [Sentinels -> [Sentinels -> Vote]]
    BY <1>0, <2>1, <2>3
  <2>5. (v # sen[t]) \/ v.leaderEpoch = sen[t].leaderEpoch
    OBVIOUS
  <2> QED BY <1>0, <2>1, <2>2, <2>4, <2>5, BecomesBase
<1>11. ASSUME NEW s \in Sentinels, NEW t \in Sentinels, NEW v \in Vote,
              Becomes(s, [sen[s] EXCEPT !.peer[t] = v], FALSE),
              reply' \in [Sentinels -> [Sentinels -> Vote]], UNCHANGED <<elected, mishaps, undone>>
       PROVE  BaseInv'
  <2> DEFINE x == [sen[s] EXCEPT !.peer[t] = v]
  <2>1. Sound(s, x) /\ x.leaderEpoch = sen[s].leaderEpoch
    BY <1>a DEF Sound, Memory
  <2>2. Becomes(s, x, FALSE)
    BY <1>11
  <2> HIDE DEF x
  <2> QED BY <1>0, <1>11, <2>1, <2>2, BecomesBase
<1>12. ASSUME NEW s \in Sentinels, NEW t \in Sentinels, ReceiveVote(s, t) PROVE BaseInv'
  <2>1. reply' \in [Sentinels -> [Sentinels -> Vote]] /\ reply[s][t] \in Vote
    BY <1>0, <1>12, NoVoteType DEF ReceiveVote
  <2>2. CASE t \notin sen[s].known
    <3>1. UNCHANGED <<sen, disk, elected, mishaps, undone>>
      BY <1>12, <2>2 DEF ReceiveVote
    <3> QED BY <2>1, <3>1 DEF BaseInv, ElTypeOK, Sound
  <2>3. CASE t \in sen[s].known
    BY <1>11, <1>12, <2>1, <2>3 DEF ReceiveVote
  <2> QED BY <2>2, <2>3
<1>13. ASSUME NEW s \in Sentinels, NEW t \in Sentinels, ForgetVote(s, t) PROVE BaseInv'
  BY <1>0, <1>11, <1>13, NoVoteType DEF ForgetVote
<1>14. ASSUME NEW s \in Sentinels, NEW t \in Sentinels, ReceiveHello(t, s) PROVE BaseInv'
  <2>1. PICK x, m :
          /\ Sound(t, x) /\ x.leaderEpoch = sen[t].leaderEpoch /\ sen' = [sen EXCEPT ![t] = x]
          /\ disk' = disk \/ disk' = [disk EXCEPT ![t] = FlushConfig(m)]
          /\ Sound(t, m) /\ m.leaderEpoch = sen[t].leaderEpoch
    BY <1>14, HelloShape
  <2>2. /\ sen' \in [Sentinels -> Memory]
        /\ \A u \in Sentinels : Sound(u, sen'[u]) /\ sen'[u].leaderEpoch = sen[u].leaderEpoch
    BY <1>0, <1>a, <2>1 DEF Sound
  <2>3. /\ FlushConfig(m) \in Saved /\ t \notin FlushConfig(m).known
        /\ FlushConfig(m).leaderEpoch = sen[t].leaderEpoch
    BY <2>1, FlushType DEF Sound
  <2>4. \A u \in Sentinels : disk[u].leaderEpoch = sen[u].leaderEpoch /\ u \notin disk[u].known
    BY DEF BaseInv
  <2>5. disk' = disk \/ disk' = [disk EXCEPT ![t] = FlushConfig(m)]
    BY <2>1
  <2>6. /\ disk' \in [Sentinels -> Saved]
        /\ \A u \in Sentinels : disk'[u].leaderEpoch = sen[u].leaderEpoch /\ u \notin disk'[u].known
    BY <1>0, <2>3, <2>4, <2>5
  <2>7. undone' \in BOOLEAN /\ UNCHANGED <<reply, elected, mishaps>>
    BY <1>14 DEF ReceiveHello
  <2> QED BY <1>0, <2>2, <2>6, <2>7 DEF BaseInv, ElTypeOK, Sound
<1>15. ASSUME NEW s \in Sentinels, ResetCommand(s) PROVE BaseInv'
  <2> DEFINE n == ResetMaster(sen[s])
             x == [n EXCEPT !.known = {}, !.peer = [t \in Sentinels |-> NoVote]]
  <2>1. Sound(s, n) /\ n.leaderEpoch = sen[s].leaderEpoch
    BY <1>a, ResetMasterSound DEF SameVotes
  <2>2. Becomes(s, x, FALSE) /\ UNCHANGED <<reply, elected>>
    BY <1>15 DEF ResetCommand
  <2>3. mishaps' \in 0..MaxMishaps /\ undone' \in BOOLEAN
    BY <1>0, <1>15 DEF ResetCommand
  <2>4. [t \in Sentinels |-> NoVote] \in [Sentinels -> Vote]
    BY NoVoteType
  <2> HIDE DEF n
  <2>5. Sound(s, x) /\ x.leaderEpoch = sen[s].leaderEpoch
    BY <2>1, <2>4 DEF Sound, Memory
  <2> HIDE DEF x
  <2> QED BY <1>4, <2>2, <2>3, <2>5
<1>16. ASSUME NEW s \in Sentinels, Restart(s) PROVE BaseInv'
  <2>1. sen' = [sen EXCEPT ![s] = Restarted(disk[s])] /\ UNCHANGED <<disk, elected, undone>>
    BY <1>16 DEF Restart, Restarted
  <2>2. Sound(s, Restarted(disk[s])) /\ Restarted(disk[s]).leaderEpoch = disk[s].leaderEpoch
    BY <1>0, <1>a, RestartedSound DEF Restarted
  <2>3. mishaps' \in 0..MaxMishaps
    BY <1>0, <1>16 DEF Restart
  <2>4. reply' \in [Sentinels -> [Sentinels -> Vote]]
    BY <1>0, <1>16, NoVoteType DEF Restart
  <2>5. \A u \in Sentinels : disk[u].leaderEpoch = sen[u].leaderEpoch /\ u \notin disk[u].known
    BY DEF BaseInv
  <2>6. sen' \in [Sentinels -> Memory] /\ \A u \in Sentinels : /\ Sound(u, sen'[u])
                                                              /\ sen'[u].leaderEpoch = disk[u].leaderEpoch
    BY <1>0, <1>a, <2>1, <2>2, <2>5 DEF Sound
  <2> QED BY <1>0, <2>1, <2>3, <2>4, <2>5, <2>6 DEF BaseInv, ElTypeOK, Sound
<1>17. CASE UNCHANGED elVars
  BY <1>17 DEF elVars, BaseInv, ElTypeOK, Sound
<1> QED
  BY <1>2, <1>3, <1>5, <1>6, <1>7, <1>8, <1>9, <1>10, <1>12, <1>13, <1>14, <1>15, <1>16, <1>17
  DEF ElNext, Tick, Mishap, Exchange

LEMMA BaseInit == ElInit => BaseInv
<1> SUFFICES ASSUME ElInit PROVE BaseInv
  OBVIOUS
<1>1. ASSUME NEW s \in Sentinels
      PROVE  Sound(s, sen[s]) /\ FlushConfig(sen[s]) \in Saved
             /\ FlushConfig(sen[s]).leaderEpoch = sen[s].leaderEpoch
             /\ FlushConfig(sen[s]).known = sen[s].known
  <2>1. 0 \in Epochs /\ [t \in Sentinels |-> NoVote] \in [Sentinels -> Vote]
    BY NoVoteType, ElectionAssumption DEF Epochs
  <2>2. Sound(s, sen[s])
    BY <2>1, ElectionAssumption DEF ElInit, Sound, Memory, FailoverStates, Selected
  <2> QED BY <2>2, FlushType
<1>2. ElTypeOK
  <2>1. sen \in [Sentinels -> Memory] /\ disk \in [Sentinels -> Saved]
    BY <1>1 DEF ElInit, Sound
  <2>2. reply \in [Sentinels -> [Sentinels -> Vote]]
    BY NoVoteType DEF ElInit
  <2>3. mishaps \in 0..MaxMishaps
    BY ElectionAssumption DEF ElInit
  <2>4. elected = {} /\ undone \in BOOLEAN
    BY DEF ElInit
  <2> QED BY <2>1, <2>2, <2>3, <2>4 DEF ElTypeOK
<1> QED BY <1>1, <1>2 DEF BaseInv, ElInit, Sound

-----------------------------------------------------------------------------
(* What a step does to the votes *)

OwnVote(n) == [leader |-> n.leader, epoch |-> n.leaderEpoch]

(* No vote is cast: a Sentinel may forget its own, take an answer in or    *)
(* drop it, and answer with the vote it has.                               *)
Quiet ==
    /\ \A s \in Sentinels : /\ sen'[s].leader \in {sen[s].leader, None}
                            /\ sen'[s].leaderEpoch = sen[s].leaderEpoch
    /\ \A s, t \in Sentinels : /\ sen'[s].peer[t] \in {sen[s].peer[t], NoVote, reply[s][t]}
                               /\ reply'[s][t] \in {reply[s][t], NoVote, OwnVote(sen[t])}

(* Sentinel t votes for r in epoch e, which is after that of its last vote.*)
Casts(t, e, r) ==
    /\ sen[t].leaderEpoch < e
    /\ sen'[t].leader = r /\ sen'[t].leaderEpoch = e
    /\ \A u \in Sentinels : u # t => /\ sen'[u].leader = sen[u].leader
                                     /\ sen'[u].leaderEpoch = sen[u].leaderEpoch
    /\ \A s, u \in Sentinels : /\ sen'[s].peer[u] = sen[s].peer[u]
                               /\ reply'[s][u] \in {reply[s][u], OwnVote(sen'[u])}

Voting == \E t, r \in Sentinels, e \in Epochs : Casts(t, e, r)

(* Sentinel s goes on with its failover; if that is proper it has counted  *)
(* a quorum of votes of its epoch, the own vote included.                  *)
Elected(s, n, p) ==
    /\ elected' = elected \cup {[by |-> s, epoch |-> n.failoverEpoch, proper |-> p]}
    /\ n.known = sen[s].known /\ n.peer = sen[s].peer
    /\ p => /\ n.epoch = n.failoverEpoch
            /\ Votes(n, s) + (IF sen'[s].leaderEpoch = n.epoch /\ sen'[s].leader = s
                              THEN 1 ELSE 0) >= Quorum

StepShape ==
    /\ Quiet \/ Voting
    /\ UNCHANGED elected \/ \E s \in Sentinels, n \in Memory, p \in BOOLEAN : Elected(s, n, p)

(* A change of the memory of s that casts no vote. *)
LEMMA QuietBecomes ==
    ASSUME BaseInv, NEW s \in Sentinels, NEW n, NEW save, Becomes(s, n, save), Sound(s, n),
           n.leader \in {sen[s].leader, None}, n.leaderEpoch = sen[s].leaderEpoch,
           \A t \in Sentinels : n.peer[t] \in {sen[s].peer[t], NoVote},
           UNCHANGED <<reply, elected>>
    PROVE  StepShape
<1>1. sen' = [sen EXCEPT ![s] = n] /\ sen \in [Sentinels -> Memory]
  BY DEF Becomes, BaseInv, ElTypeOK
<1>2. sen'[s] = n /\ \A t \in Sentinels : t # s => sen'[t] = sen[t]
  BY <1>1
<1> QED BY <1>2 DEF Quiet, StepShape

LEMMA WaitStartVotes ==
    ASSUME BaseInv, NEW s \in Sentinels, NEW n, Sound(s, n), SameVotes(n, sen[s]),
           n.leader = sen[s].leader, WaitStart(s, n), UNCHANGED reply
    PROVE  StepShape
<1>a. PICK w \in Sentinels : \E v, x : WaitStartShape(s, n, w, v, x)
  BY WaitStartSound
<1>1. PICK v, x : WaitStartShape(s, n, w, v, x)
  BY <1>a
<1>2. sen' = [sen EXCEPT ![s] = x] /\ sen \in [Sentinels -> Memory]
  BY <1>1 DEF WaitStartShape, Becomes, BaseInv, ElTypeOK
<1>3. sen'[s] = x /\ \A t \in Sentinels : t # s => sen'[t] = sen[t]
  BY <1>2
<1>4. n.failoverEpoch \in Epochs /\ n \in Memory
  BY DEF Sound, Memory
<1>5. \/ v.leader = n.leader /\ v.leaderEpoch = n.leaderEpoch
      \/ v.leader = w /\ v.leaderEpoch = n.failoverEpoch /\ n.leaderEpoch < n.failoverEpoch
  BY <1>1, <1>4, VoteLeaderSound DEF WaitStartShape
<1>6. x.leader = v.leader /\ x.leaderEpoch = v.leaderEpoch /\ x.peer = sen[s].peer
  BY <1>1 DEF WaitStartShape, SameVotes
<1>7. Quiet \/ Voting
  <2>1. CASE v.leader = n.leader /\ v.leaderEpoch = n.leaderEpoch
    BY <1>3, <1>6, <2>1 DEF Quiet, SameVotes
  <2>2. CASE v.leader = w /\ v.leaderEpoch = n.failoverEpoch /\ n.leaderEpoch < n.failoverEpoch
    <3>1. Casts(s, n.failoverEpoch, w)
      BY <1>3, <1>6, <2>2 DEF Casts, SameVotes
    <3> QED BY <1>4, <3>1 DEF Voting
  <2> QED BY <1>5, <2>1, <2>2
<1>8. UNCHANGED elected \/ \E p \in BOOLEAN : Elected(s, n, p)
  BY <1>1, <1>3, <1>6 DEF WaitStartShape, Elected, SameVotes
<1> QED BY <1>4, <1>7, <1>8 DEF StepShape


LEMMA EveryStep == BaseInv /\ ElNext => StepShape
<1> SUFFICES ASSUME BaseInv, ElNext PROVE StepShape
  OBVIOUS
<1>0. /\ sen \in [Sentinels -> Memory] /\ reply \in [Sentinels -> [Sentinels -> Vote]]
      /\ \A s \in Sentinels : Sound(s, sen[s]) /\ disk[s].leaderEpoch = sen[s].leaderEpoch
  BY DEF BaseInv, ElTypeOK
<1>a. ASSUME NEW s \in Sentinels, NEW x, NEW save, Becomes(s, x, save), Sound(s, x),
             SameVotes(x, sen[s]), UNCHANGED <<reply, elected>>
      PROVE  StepShape
  BY <1>a, QuietBecomes DEF SameVotes
<1>b. ASSUME NEW s \in Sentinels, NEW save, Becomes(s, NoFailover(sen[s]), save),
             UNCHANGED <<reply, elected>>
      PROVE  StepShape
  BY <1>0, <1>a, <1>b, NoFailoverSound
<1>1. ASSUME NEW s \in Sentinels, StartFailover(s) PROVE StepShape
  <2>1. /\ WaitStart(s, Started(sen[s])) /\ sen[s].epoch < MaxEpoch /\ UNCHANGED reply
    BY <1>1 DEF StartFailover
  <2> QED BY <1>0, <2>1, StartedSound, WaitStartVotes
<1>2. ASSUME NEW s \in Sentinels, Elect(s) PROVE StepShape
  BY <1>0, <1>2, WaitStartVotes DEF Elect, SameVotes
<1>3. ASSUME NEW s \in Sentinels, FailoverCommand(s) PROVE StepShape
  <2> DEFINE n == Started(sen[s])
             x == [n EXCEPT !.forced = TRUE]
  <2>1. sen[s].epoch < MaxEpoch /\ Becomes(s, x, FALSE) /\ UNCHANGED <<reply, elected>>
    BY <1>3 DEF FailoverCommand
  <2>2. Sound(s, n) /\ SameVotes(n, sen[s])
    BY <1>0, <2>1, StartedSound
  <2> HIDE DEF n
  <2>3. Sound(s, x) /\ SameVotes(x, sen[s])
    BY <2>2 DEF Sound, Memory, SameVotes
  <2> HIDE DEF x
  <2> QED BY <1>a, <2>1, <2>3
<1>4. ASSUME NEW s \in Sentinels, SelectSlave(s) PROVE StepShape
  <2>1. ASSUME NEW r \in Servers, UNCHANGED <<reply, elected>>,
               Becomes(s, [sen[s] EXCEPT !.state = "send_slaveof_noone", !.promoted = r], FALSE)
        PROVE  StepShape
    <3> DEFINE x == [sen[s] EXCEPT !.state = "send_slaveof_noone", !.promoted = r]
    <3>0. r # None /\ Sound(s, sen[s])
      BY <1>0, ElectionAssumption
    <3>1. Sound(s, x) /\ SameVotes(x, sen[s])
      BY <3>0 DEF Sound, Memory, FailoverStates, SameVotes
    <3>2. Becomes(s, x, FALSE)
      BY <2>1
    <3> HIDE DEF x
    <3> QED BY <1>a, <2>1, <3>1, <3>2
  <2> QED BY <1>4, <1>b, <2>1 DEF SelectSlave
<1>5. ASSUME NEW s \in Sentinels, SendSlaveOfNoOne(s) \/ WaitPromotion(s) PROVE StepShape
  <2>1. ASSUME sen[s].state = "send_slaveof_noone", UNCHANGED <<reply, elected>>,
               Becomes(s, [sen[s] EXCEPT !.state = "wait_promotion"], FALSE)
        PROVE  StepShape
    <3> DEFINE x == [sen[s] EXCEPT !.state = "wait_promotion"]
    <3>0. Sound(s, sen[s]) /\ sen[s].state \in Selected
      BY <1>0, <2>1 DEF Selected
    <3>1. Sound(s, x) /\ SameVotes(x, sen[s])
      BY <3>0 DEF Sound, Memory, FailoverStates, SameVotes
    <3>2. Becomes(s, x, FALSE)
      BY <2>1
    <3> HIDE DEF x
    <3> QED BY <1>a, <2>1, <3>1, <3>2
  <2> QED BY <1>5, <1>b, <2>1 DEF SendSlaveOfNoOne, WaitPromotion
<1>6. ASSUME NEW s \in Sentinels, PromotionSeen(s) PROVE StepShape
  <2> DEFINE x == [sen[s] EXCEPT !.state = "reconf_slaves", !.config = sen[s].failoverEpoch]
  <2>0. Sound(s, sen[s]) /\ sen[s].state \in Selected
    BY <1>0, <1>6 DEF PromotionSeen, Selected
  <2>1. Sound(s, x) /\ SameVotes(x, sen[s])
    BY <2>0 DEF Sound, Memory, FailoverStates, SameVotes
  <2>2. Becomes(s, x, TRUE) /\ UNCHANGED <<reply, elected>>
    BY <1>6 DEF PromotionSeen
  <2> HIDE DEF x
  <2> QED BY <1>a, <2>1, <2>2
<1>7. ASSUME NEW s \in Sentinels, SwitchToPromoted(s) PROVE StepShape
  <2>1. /\ Becomes(s, ResetMasterAndChangeAddress(sen[s], sen[s].promoted), TRUE)
        /\ UNCHANGED <<reply, elected>>
    BY <1>7 DEF SwitchToPromoted
  <2>2. sen[s].promoted \in Servers
    BY <1>0, <1>7 DEF SwitchToPromoted, Sound, Memory, Selected
  <2> QED BY <1>0, <1>a, <2>1, <2>2, ResetMasterSound
<1>8. ASSUME NEW s \in Sentinels, NEW t \in Sentinels, AskForVote(s, t) PROVE StepShape
  <2> DEFINE e == sen[s].epoch
             v == VoteLeader(sen[t], e, s)
  <2>1. /\ sen' = [sen EXCEPT ![t] = v] /\ UNCHANGED elected
        /\ reply' = [reply EXCEPT ![s][t] = OwnVote(v)]
    BY <1>8 DEF AskForVote, Becomes, OwnVote
  <2>0. e \in Epochs /\ Sound(t, sen[t])
    BY <1>0 DEF Memory
  <2>2. /\ Sound(t, v) /\ v.peer = sen[t].peer /\ e \in Epochs
        /\ \/ v.leader = sen[t].leader /\ v.leaderEpoch = sen[t].leaderEpoch
           \/ v.leader = s /\ v.leaderEpoch = e /\ sen[t].leaderEpoch < e
    BY <2>0, VoteLeaderSound
  <2> HIDE DEF v, e
  <2>3. sen'[t] = v /\ \A u \in Sentinels : u # t => sen'[u] = sen[u]
    BY <1>0, <2>1
  <2>4. \A x, y \in Sentinels : reply'[x][y] = IF x = s /\ y = t THEN OwnVote(v) ELSE reply[x][y]
    BY <1>0, <2>1
  <2>5. CASE v.leader = sen[t].leader /\ v.leaderEpoch = sen[t].leaderEpoch
    <3>1. OwnVote(v) = OwnVote(sen[t])
      BY <2>5 DEF OwnVote
    <3>2. Quiet
      BY <2>2, <2>3, <2>4, <2>5, <3>1 DEF Quiet
    <3> QED BY <2>1, <3>2 DEF StepShape
  <2>6. CASE v.leader = s /\ v.leaderEpoch = e /\ sen[t].leaderEpoch < e
    <3>1. Casts(t, e, s)
      BY <2>2, <2>3, <2>4, <2>6 DEF Casts
    <3> QED BY <2>1, <2>2, <3>1 DEF StepShape, Voting
  <2> QED BY <2>2, <2>5, <2>6
<1>9. ASSUME NEW s \in Sentinels, NEW t \in Sentinels, ReceiveVote(s, t) PROVE StepShape
  <2>1. /\ UNCHANGED elected
        /\ \A x, y \in Sentinels : reply'[x][y] \in {reply[x][y], NoVote}
    BY <1>0, <1>9 DEF ReceiveVote
  <2> DEFINE x == [sen[s] EXCEPT !.peer[t] = reply[s][t]]
  <2>2. sen' = sen \/ sen' = [sen EXCEPT ![s] = x]
    BY <1>9 DEF ReceiveVote, Becomes
  <2>3. sen[s] \in Memory
    BY <1>0
  <2>4. /\ x.leader = sen[s].leader /\ x.leaderEpoch = sen[s].leaderEpoch
        /\ \A y \in Sentinels : x.peer[y] \in {sen[s].peer[y], reply[s][y]}
    BY <2>3 DEF Memory
  <2> HIDE DEF x
  <2>5. sen'[s] \in {sen[s], x} /\ \A y \in Sentinels : y # s => sen'[y] = sen[y]
    BY <1>0, <2>2
  <2> QED BY <2>1, <2>4, <2>5 DEF StepShape, Quiet
<1>10. ASSUME NEW s \in Sentinels, NEW t \in Sentinels, ForgetVote(s, t) PROVE StepShape
  <2> DEFINE x == [sen[s] EXCEPT !.peer[t] = NoVote]
  <2>1. Becomes(s, x, FALSE) /\ UNCHANGED <<reply, elected>>
    BY <1>10 DEF ForgetVote
  <2>2. /\ Sound(s, x) /\ x.leader = sen[s].leader /\ x.leaderEpoch = sen[s].leaderEpoch
        /\ \A u \in Sentinels : x.peer[u] \in {sen[s].peer[u], NoVote}
    BY <1>0, NoVoteType DEF Sound, Memory
  <2> HIDE DEF x
  <2> QED BY <2>1, <2>2, QuietBecomes
<1>11. ASSUME NEW s \in Sentinels, NEW t \in Sentinels, ReceiveHello(t, s) PROVE StepShape
  <2>1. PICK x : /\ x.leader \in {sen[t].leader, None} /\ x.leaderEpoch = sen[t].leaderEpoch
                 /\ x.peer = sen[t].peer /\ sen' = [sen EXCEPT ![t] = x]
    BY <1>11, HelloShape
  <2>2. sen'[t] = x /\ \A u \in Sentinels : u # t => sen'[u] = sen[u]
    BY <1>0, <2>1
  <2>3. UNCHANGED <<reply, elected>>
    BY <1>11 DEF ReceiveHello
  <2> QED BY <2>1, <2>2, <2>3 DEF StepShape, Quiet
<1>12. ASSUME NEW s \in Sentinels, ResetCommand(s) PROVE StepShape
  <2> DEFINE n == ResetMaster(sen[s])
             x == [n EXCEPT !.known = {}, !.peer = [t \in Sentinels |-> NoVote]]
  <2>1. Sound(s, n) /\ SameVotes(n, sen[s])
    BY <1>0, ResetMasterSound
  <2>2. Becomes(s, x, FALSE) /\ UNCHANGED <<reply, elected>>
    BY <1>12 DEF ResetCommand
  <2>3. [t \in Sentinels |-> NoVote] \in [Sentinels -> Vote]
    BY NoVoteType
  <2> HIDE DEF n
  <2>4. /\ Sound(s, x) /\ x.leader = n.leader /\ x.leaderEpoch = n.leaderEpoch
        /\ x.peer = [t \in Sentinels |-> NoVote]
    BY <2>1, <2>3 DEF Sound, Memory
  <2>5. /\ x.leader \in {sen[s].leader, None} /\ x.leaderEpoch = sen[s].leaderEpoch
        /\ \A t \in Sentinels : x.peer[t] \in {sen[s].peer[t], NoVote}
    BY <2>1, <2>4 DEF SameVotes
  <2> HIDE DEF x
  <2> QED BY <2>2, <2>4, <2>5, QuietBecomes
<1>13. ASSUME NEW s \in Sentinels, Restart(s) PROVE StepShape
  <2>1. sen' = [sen EXCEPT ![s] = Restarted(disk[s])] /\ UNCHANGED elected
    BY <1>13 DEF Restart, Restarted
  <2>2. /\ Restarted(disk[s]).leader = None
        /\ Restarted(disk[s]).leaderEpoch = sen[s].leaderEpoch
        /\ \A t \in Sentinels : Restarted(disk[s]).peer[t] = NoVote
    BY <1>0 DEF Restarted
  <2>3. sen'[s] = Restarted(disk[s]) /\ \A u \in Sentinels : u # s => sen'[u] = sen[u]
    BY <1>0, <2>1
  <2>4. \A x, y \in Sentinels : reply'[x][y] \in {reply[x][y], NoVote}
    BY <1>13 DEF Restart
  <2> QED BY <2>1, <2>2, <2>3, <2>4 DEF StepShape, Quiet
<1> QED
  BY <1>1, <1>2, <1>3, <1>4, <1>5, <1>6, <1>7, <1>8, <1>9, <1>10, <1>11, <1>12, <1>13
  DEF ElNext, Tick, Mishap, Exchange

(* sentinelVoteLeader, the configuration file and restarts together: the   *)
(* epoch of a Sentinel's last vote never goes back, and within an epoch    *)
(* its vote passes to no other Sentinel.                                   *)
THEOREM VotesAreFinal == ElSpec => VoteIsFinal
<1> DEFINE Final == \A s \in Sentinels :
             /\ sen'[s].leaderEpoch >= sen[s].leaderEpoch
             /\ sen'[s].leaderEpoch = sen[s].leaderEpoch => sen'[s].leader \in {sen[s].leader, None}
<1>1. BaseInv /\ [ElNext]_elVars => [Final]_elVars
  <2> SUFFICES ASSUME BaseInv, ElNext PROVE Final
    OBVIOUS
  <2>0. \A s \in Sentinels : sen[s].leaderEpoch \in Int
    BY DEF BaseInv, ElTypeOK, Memory, Epochs
  <2>1. CASE Quiet
    BY <2>0, <2>1 DEF Quiet
  <2>2. CASE Voting
    <3>1. PICK t \in Sentinels, e \in Epochs, r \in Sentinels : Casts(t, e, r)
      BY <2>2 DEF Voting
    <3>2. e \in Int
      BY DEF Epochs
    <3> QED BY <2>0, <3>1, <3>2 DEF Casts
  <2> QED BY <2>1, <2>2, EveryStep DEF StepShape
<1> QED BY <1>1, BaseInit, BaseStep, PTL DEF ElSpec, VoteIsFinal


-----------------------------------------------------------------------------
(* The history of the votes: h[t][e] is the vote of t in epoch e, or None. *)
(* No variable holds it (Sentinels forget), but some history explains      *)
(* every vote that is held, on its way or was counted.                     *)

History == [Sentinels -> [Epochs -> Sentinels \cup {None}]]

Backs(h, t, v) == v.leader # None => h[t][v.epoch] = v.leader

VotesInv(h) ==
    /\ \A t \in Sentinels : Backs(h, t, OwnVote(sen[t]))
    /\ \A t \in Sentinels, e \in Epochs : h[t][e] # None => e <= sen[t].leaderEpoch
    /\ \A s, t \in Sentinels : Backs(h, t, sen[s].peer[t]) /\ Backs(h, t, reply[s][t])

Backed(h, a) ==
    \E Q \in SUBSET Sentinels : Cardinality(Q) >= Quorum /\ \A q \in Q : h[q][a.epoch] = a.by

ElectedInv(h) == \A a \in elected : a.proper => Backed(h, a)

HistoryInv == \E h \in History : VotesInv(h) /\ ElectedInv(h)

(* The history g has the votes of h. *)
Extends(h, g) == \A t \in Sentinels, e \in Epochs : h[t][e] # None => g[t][e] = h[t][e]

LEMMA QuietHistory ==
    ASSUME BaseInv, NEW h \in History, VotesInv(h), Quiet
    PROVE  VotesInv(h)'
<1>1. \A t \in Sentinels : \A v : v = NoVote => Backs(h, t, v)
  BY DEF Backs, NoVote
<1>2. ASSUME NEW t \in Sentinels PROVE Backs(h, t, OwnVote(sen'[t]))
  BY DEF Quiet, VotesInv, Backs, OwnVote
<1>3. ASSUME NEW t \in Sentinels, NEW e \in Epochs, h[t][e] # None
      PROVE  e <= sen'[t].leaderEpoch
  BY <1>3 DEF Quiet, VotesInv
<1>4. ASSUME NEW s \in Sentinels, NEW t \in Sentinels
      PROVE  Backs(h, t, sen'[s].peer[t]) /\ Backs(h, t, reply'[s][t])
  <2>1. Backs(h, t, sen[s].peer[t]) /\ Backs(h, t, reply[s][t]) /\ Backs(h, t, OwnVote(sen[t]))
    BY DEF VotesInv
  <2>2. /\ sen'[s].peer[t] \in {sen[s].peer[t], NoVote, reply[s][t]}
        /\ reply'[s][t] \in {reply[s][t], NoVote, OwnVote(sen[t])}
    BY DEF Quiet
  <2> QED BY <1>1, <2>1, <2>2
<1> QED BY <1>2, <1>3, <1>4 DEF VotesInv, Backs, OwnVote

LEMMA VotingHistory ==
    ASSUME BaseInv, NEW h \in History, VotesInv(h), NEW t \in Sentinels, NEW r \in Sentinels,
           NEW e \in Epochs, Casts(t, e, r)
    PROVE  \E g \in History : VotesInv(g)' /\ Extends(h, g)
<1>1. PICK g \in History : g = [h EXCEPT ![t] = [h[t] EXCEPT ![e] = r]]
  BY DEF History
<1>2. \A u \in Sentinels, f \in Epochs : g[u][f] = IF u = t /\ f = e THEN r ELSE h[u][f]
  BY <1>1 DEF History
<1>3. /\ None \notin Sentinels
      /\ \A u \in Sentinels : sen[u].leaderEpoch \in Epochs
      /\ \A f \in Epochs : f \in Int
  BY ElectionAssumption DEF BaseInv, ElTypeOK, Memory, Epochs
<1>4. h[t][e] = None
  BY <1>3 DEF VotesInv, Casts
<1>5. Extends(h, g)
  BY <1>2, <1>4 DEF Extends
<1>6. ASSUME NEW u \in Sentinels, NEW v \in Vote, Backs(h, u, v) PROVE Backs(g, u, v)
  BY <1>5, <1>6 DEF Backs, Extends, Vote
<1>7. ASSUME NEW u \in Sentinels PROVE Backs(g, u, OwnVote(sen'[u]))
  <2>1. CASE u = t
    BY <1>2, <2>1 DEF Casts, Backs, OwnVote
  <2>2. CASE u # t
    <3>1. OwnVote(sen'[u]) = OwnVote(sen[u])
      BY <2>2 DEF Casts, OwnVote
    <3>2. OwnVote(sen[u]) \in Vote
      BY DEF BaseInv, ElTypeOK, Memory, OwnVote, Vote
    <3>3. Backs(h, u, OwnVote(sen[u]))
      BY DEF VotesInv
    <3> QED BY <1>6, <3>1, <3>2, <3>3
  <2> QED BY <2>1, <2>2
<1>8. ASSUME NEW u \in Sentinels, NEW f \in Epochs, g[u][f] # None
      PROVE  f <= sen'[u].leaderEpoch
  <2>1. CASE u = t
    <3>1. f = e \/ f <= sen[u].leaderEpoch
      BY <1>2, <1>8, <2>1 DEF VotesInv
    <3> QED BY <1>3, <2>1, <3>1 DEF Casts
  <2>2. CASE u # t
    BY <1>2, <1>8, <2>2 DEF VotesInv, Casts
  <2> QED BY <2>1, <2>2
<1>9. ASSUME NEW s \in Sentinels, NEW u \in Sentinels
      PROVE  Backs(g, u, sen'[s].peer[u]) /\ Backs(g, u, reply'[s][u])
  <2>1. sen[s].peer[u] \in Vote /\ reply[s][u] \in Vote
    BY DEF BaseInv, ElTypeOK, Memory
  <2>2. Backs(g, u, sen[s].peer[u]) /\ Backs(g, u, reply[s][u])
    BY <1>6, <2>1 DEF VotesInv
  <2>3. sen'[s].peer[u] = sen[s].peer[u] /\ reply'[s][u] \in {reply[s][u], OwnVote(sen'[u])}
    BY DEF Casts
  <2> QED BY <1>7, <2>2, <2>3
<1>10. VotesInv(g)'
  BY <1>7, <1>8, <1>9 DEF VotesInv, Backs, OwnVote
<1> QED BY <1>5, <1>10

(* The Sentinels that an election was won with have all voted for the      *)
(* leader: those whose answers were counted, and the leader itself, which  *)
(* is not among the others it knows.                                       *)
LEMMA ElectedBacked ==
    ASSUME BaseInv, NEW g \in History, NEW s \in Sentinels, NEW n \in Memory,
           NEW p \in BOOLEAN, p, Elected(s, n, p),
           \A t \in Sentinels : Backs(g, t, sen[s].peer[t]), Backs(g, s, OwnVote(sen'[s]))
    PROVE  Backed(g, [by |-> s, epoch |-> n.failoverEpoch, proper |-> p])
<1>1. /\ n.known = sen[s].known /\ n.peer = sen[s].peer /\ n.epoch = n.failoverEpoch
      /\ Votes(n, s) + (IF sen'[s].leaderEpoch = n.epoch /\ sen'[s].leader = s THEN 1 ELSE 0) >= Quorum
  BY DEF Elected
<1>2. IsFiniteSet(Sentinels) /\ None \notin Sentinels /\ Quorum \in Nat
  BY ElectionAssumption
<1>3. sen[s].known \subseteq Sentinels /\ s \notin sen[s].known
  BY DEF BaseInv, Sound, Memory
<1> DEFINE C == Counted(n, s)
<1>4. C \subseteq Sentinels /\ s \notin C /\ \A q \in C : g[q][n.epoch] = s
  BY <1>1, <1>2, <1>3 DEF Counted, Backs
<1>5. IsFiniteSet(C) /\ Cardinality(C) \in Nat
  BY <1>2, <1>4, FS_Subset, FS_CardinalityType
<1>6. Votes(n, s) = Cardinality(C)
  BY DEF Votes
<1> HIDE DEF C
<1>7. CASE sen'[s].leaderEpoch = n.epoch /\ sen'[s].leader = s
  <2>1. Cardinality(C \cup {s}) = Cardinality(C) + 1
    BY <1>4, <1>5, FS_AddElement
  <2>2. g[s][n.epoch] = s
    BY <1>2, <1>7 DEF Backs, OwnVote
  <2>3. Cardinality(C \cup {s}) >= Quorum
    BY <1>1, <1>6, <1>7, <2>1
  <2>4. C \cup {s} \in SUBSET Sentinels /\ \A q \in C \cup {s} : g[q][n.failoverEpoch] = s
    BY <1>1, <1>4, <2>2
  <2> QED BY <2>3, <2>4 DEF Backed
<1>8. CASE ~ (sen'[s].leaderEpoch = n.epoch /\ sen'[s].leader = s)
  <2>1. Cardinality(C) >= Quorum
    BY <1>1, <1>5, <1>6, <1>8
  <2>2. C \in SUBSET Sentinels /\ \A q \in C : g[q][n.failoverEpoch] = s
    BY <1>1, <1>4
  <2> QED BY <2>1, <2>2 DEF Backed
<1> QED BY <1>7, <1>8

LEMMA HistoryStep == BaseInv /\ HistoryInv /\ [ElNext]_elVars => HistoryInv'
<1> SUFFICES ASSUME BaseInv, HistoryInv, [ElNext]_elVars PROVE HistoryInv'
  OBVIOUS
<1>1. PICK h \in History : VotesInv(h) /\ ElectedInv(h)
  BY DEF HistoryInv
<1>2. CASE ElNext
  <2>1. StepShape
    BY <1>2, EveryStep
  <2>2. PICK g \in History : VotesInv(g)' /\ Extends(h, g)
    <3>1. CASE Quiet
      BY <1>1, <3>1, QuietHistory DEF Extends
    <3>2. CASE Voting
      BY <1>1, <3>2, VotingHistory DEF Voting
    <3> QED BY <2>1, <3>1, <3>2 DEF StepShape
  <2>3. ASSUME NEW a \in elected, a.proper PROVE Backed(g, a)
    <3>1. a.epoch \in Epochs /\ a.by \in Sentinels /\ None \notin Sentinels
      BY ElectionAssumption DEF BaseInv, ElTypeOK
    <3>2. PICK Q \in SUBSET Sentinels :
            Cardinality(Q) >= Quorum /\ \A q \in Q : h[q][a.epoch] = a.by
      BY <1>1, <2>3 DEF ElectedInv, Backed
    <3>3. \A q \in Q : g[q][a.epoch] = a.by
      BY <2>2, <3>1, <3>2 DEF Extends
    <3> QED BY <3>2, <3>3 DEF Backed
  <2>4. ASSUME NEW s \in Sentinels, NEW n \in Memory, NEW p \in BOOLEAN, Elected(s, n, p)
        PROVE  ElectedInv(g)'
    <3> DEFINE a == [by |-> s, epoch |-> n.failoverEpoch, proper |-> p]
    <3>1. elected' = elected \cup {a} /\ a.proper = p
      BY <2>4 DEF Elected
    <3>2. \A t \in Sentinels : Backs(g, t, sen[s].peer[t])
      <4>1. \A t \in Sentinels : Backs(h, t, sen[s].peer[t]) /\ sen[s].peer[t] \in Vote
        BY <1>1 DEF VotesInv, BaseInv, ElTypeOK, Memory
      <4> QED BY <2>2, <4>1 DEF Backs, Extends, Vote
    <3>3. Backs(g, s, OwnVote(sen'[s]))
      BY <2>2 DEF VotesInv, Backs, OwnVote
    <3>4. p => Backed(g, a)
      BY <2>4, <3>2, <3>3, ElectedBacked
    <3> HIDE DEF a
    <3>5. \A b \in elected' : b.proper => Backed(g, b)
      BY <2>3, <3>1, <3>4
    <3> QED BY <3>5 DEF ElectedInv, Backed
  <2>5. ASSUME UNCHANGED elected PROVE ElectedInv(g)'
    BY <2>3, <2>5 DEF ElectedInv, Backed
  <2>6. ElectedInv(g)'
    BY <2>1, <2>4, <2>5 DEF StepShape
  <2> QED BY <2>2, <2>6 DEF HistoryInv
<1>3. CASE UNCHANGED elVars
  BY <1>1, <1>3 DEF elVars, HistoryInv, VotesInv, ElectedInv, Backs, Backed, OwnVote
<1> QED BY <1>2, <1>3

LEMMA HistoryInit == ElInit => HistoryInv
<1> SUFFICES ASSUME ElInit PROVE HistoryInv
  OBVIOUS
<1>1. PICK h \in History : h = [t \in Sentinels |-> [e \in Epochs |-> None]]
  BY DEF History
<1>2. \A t \in Sentinels, e \in Epochs : h[t][e] = None
  BY <1>1
<1>3. \A s, t \in Sentinels : /\ sen[t].leader = None /\ sen[s].peer[t].leader = None
                              /\ reply[s][t].leader = None
  BY DEF ElInit, NoVote
<1>4. VotesInv(h)
  BY <1>2, <1>3 DEF VotesInv, Backs, OwnVote
<1>5. ElectedInv(h)
  BY DEF ElInit, ElectedInv
<1> QED BY <1>4, <1>5 DEF HistoryInv

(* Every Sentinel votes at most once in an epoch, over lost and late       *)
(* answers, restarts and resets; so if the configured quorum is more than  *)
(* half of the Sentinels, at most one of them is elected for a failover    *)
(* epoch (sentinelGetLeader), for any number of Sentinels and epochs.      *)
THEOREM LeaderIsUnique ==
    ASSUME 2 * Quorum > Cardinality(Sentinels)
    PROVE  ElSpec => []OneLeaderPerEpoch
<1>1. BaseInv /\ HistoryInv => OneLeaderPerEpoch
  <2> SUFFICES ASSUME BaseInv, HistoryInv, NEW a \in elected, NEW b \in elected,
                      a.epoch = b.epoch, a.proper, b.proper
               PROVE  a.by = b.by
    BY DEF OneLeaderPerEpoch
  <2>1. PICK h \in History : VotesInv(h) /\ ElectedInv(h)
    BY DEF HistoryInv
  <2>2. PICK A \in SUBSET Sentinels :
          Cardinality(A) >= Quorum /\ \A q \in A : h[q][a.epoch] = a.by
    BY <2>1 DEF ElectedInv, Backed
  <2>3. PICK B \in SUBSET Sentinels :
          Cardinality(B) >= Quorum /\ \A q \in B : h[q][b.epoch] = b.by
    BY <2>1 DEF ElectedInv, Backed
  <2>4. IsFiniteSet(Sentinels) /\ IsFiniteSet(A) /\ IsFiniteSet(B) /\ Quorum \in Nat
    BY ElectionAssumption, FS_Subset
  <2>5. Cardinality(A) \in Nat /\ Cardinality(B) \in Nat /\ Cardinality(Sentinels) \in Nat
    BY <2>4, FS_CardinalityType
  <2>6. Cardinality(A) + Cardinality(B) > Cardinality(Sentinels)
    BY <2>2, <2>3, <2>4, <2>5
  <2>7. A \cap B # {}
    BY <2>2, <2>3, <2>4, <2>6, FS_MajoritiesIntersect
  <2> QED BY <2>2, <2>3, <2>7
<1> QED BY <1>1, BaseInit, BaseStep, HistoryInit, HistoryStep, PTL DEF ElSpec


-----------------------------------------------------------------------------
(* Epochs *)

(* A Sentinel has not voted in an epoch it has not heard of, its file may  *)
(* lag behind only in the epoch of a failover that waits for its election, *)
(* and no election is won that the file does not know the epoch of: over a *)
(* restart a Sentinel does not use the epoch of a failover again.          *)
Waits(s) ==
    /\ 0 < sen[s].failoverEpoch /\ sen[s].failoverEpoch <= sen[s].epoch
    /\ disk[s].epoch = sen[s].epoch \/ sen[s].epoch = sen[s].failoverEpoch
    /\ \A a \in elected : a.by = s => a.epoch < sen[s].failoverEpoch

EpochInv ==
    /\ \A s \in Sentinels :
        /\ sen[s].leaderEpoch <= sen[s].epoch
        /\ disk[s].leaderEpoch <= disk[s].epoch
        /\ disk[s].epoch <= sen[s].epoch
        /\ sen[s].state = "wait_start" => Waits(s)
    /\ \A a \in elected : a.epoch <= disk[a.by].epoch

(* The states between the election and the promotion *)
Ahead == {"select_slave", "send_slaveof_noone", "wait_promotion"}

(* sentinelVoteLeader, the fields that are not the vote's *)
LEMMA VoteLeaderKeeps ==
    ASSUME NEW s \in Sentinels, NEW n, Sound(s, n), NEW e \in Epochs, NEW r \in Sentinels,
           n.leaderEpoch <= n.epoch
    PROVE  LET v == VoteLeader(n, e, r) IN
           /\ v.config = n.config /\ v.addr = n.addr /\ v.promoted = n.promoted
           /\ v.failoverEpoch = n.failoverEpoch /\ v.state = n.state
           /\ v.epoch >= n.epoch /\ v.leaderEpoch <= v.epoch
           /\ v = n => n.leaderEpoch >= e \/ n.epoch > e
<1> DEFINE x == Max({n.epoch, e})
           m == [n EXCEPT !.epoch = x]
           w == [m EXCEPT !.leader = r, !.leaderEpoch = m.epoch]
<1>0. n \in Memory /\ n.epoch \in Int /\ e \in Int /\ n.leaderEpoch \in Int
  BY DEF Sound, Memory, Epochs
<1>1. x \in Int /\ x >= n.epoch /\ x >= e /\ (x = n.epoch \/ x = e)
  BY <1>0, MaxOfTwo
<1>2. VoteLeader(n, e, r) = IF m.leaderEpoch < e /\ m.epoch <= e THEN w ELSE m
  BY DEF VoteLeader
<1> HIDE DEF x
<1>3. /\ m.config = n.config /\ m.addr = n.addr /\ m.promoted = n.promoted
      /\ m.failoverEpoch = n.failoverEpoch /\ m.state = n.state
      /\ m.epoch = x /\ m.leaderEpoch = n.leaderEpoch
  BY <1>0 DEF Memory
<1>4. /\ w.config = n.config /\ w.addr = n.addr /\ w.promoted = n.promoted
      /\ w.failoverEpoch = n.failoverEpoch /\ w.state = n.state
      /\ w.epoch = x /\ w.leaderEpoch = x
  BY <1>0 DEF Memory
<1> HIDE DEF m, w
<1>5. CASE m.leaderEpoch < e /\ m.epoch <= e
  BY <1>0, <1>1, <1>2, <1>3, <1>4, <1>5
<1>6. CASE ~ (m.leaderEpoch < e /\ m.epoch <= e)
  BY <1>0, <1>1, <1>2, <1>3, <1>6
<1> QED BY <1>5, <1>6

(* A step of s that is not about its configuration. *)
Plain(s, x) ==
    /\ Sound(s, x) /\ sen' = [sen EXCEPT ![s] = x] /\ UNCHANGED <<elected, undone>>
    /\ x.config = sen[s].config /\ CurrentAddress(x) = CurrentAddress(sen[s])
    /\ x.failoverEpoch = sen[s].failoverEpoch
    /\ x.epoch >= sen[s].epoch /\ x.leaderEpoch <= x.epoch
    /\ \/ disk' = disk /\ x.epoch = sen[s].epoch
       \/ disk' = [disk EXCEPT ![s] = FlushConfig(x)]
    /\ x.state = "wait_start" => sen[s].state = "wait_start"
    /\ x.state \in Ahead => sen[s].state \in Ahead

PlainAction(s) ==
    \/ SelectSlave(s) \/ SendSlaveOfNoOne(s) \/ WaitPromotion(s) \/ SwitchToPromoted(s)
    \/ \E t \in Sentinels : AskForVote(t, s) \/ ReceiveVote(s, t) \/ ForgetVote(s, t)

LEMMA PlainStep ==
    ASSUME BaseInv, EpochInv, NEW s \in Sentinels, PlainAction(s)
    PROVE  \E x : Plain(s, x)
<1>0. /\ Sound(s, sen[s]) /\ sen[s].leaderEpoch <= sen[s].epoch /\ sen[s].epoch \in Int
      /\ sen \in [Sentinels -> Memory] /\ disk \in [Sentinels -> Saved]
      /\ reply \in [Sentinels -> [Sentinels -> Vote]]
  BY DEF BaseInv, ElTypeOK, EpochInv, Sound, Memory, Epochs
<1>a. ASSUME NEW x, Sound(s, x), Becomes(s, x, FALSE), UNCHANGED <<elected, undone>>,
             x.config = sen[s].config, CurrentAddress(x) = CurrentAddress(sen[s]),
             x.failoverEpoch = sen[s].failoverEpoch, x.epoch = sen[s].epoch,
             x.leaderEpoch = sen[s].leaderEpoch,
             x.state = "wait_start" => sen[s].state = "wait_start",
             x.state \in Ahead => sen[s].state \in Ahead
      PROVE  Plain(s, x)
  BY <1>0, <1>a DEF Becomes, Plain
<1>1. ASSUME sen[s].state \in Ahead, Becomes(s, NoFailover(sen[s]), FALSE),
             UNCHANGED <<elected, undone>>
      PROVE  \E x : Plain(s, x)
  <2> DEFINE x == NoFailover(sen[s])
  <2>1. Sound(s, x)
    BY <1>0, NoFailoverSound
  <2>2. /\ x.config = sen[s].config /\ x.addr = sen[s].addr /\ x.epoch = sen[s].epoch
        /\ x.failoverEpoch = sen[s].failoverEpoch /\ x.leaderEpoch = sen[s].leaderEpoch
        /\ x.state = "none"
    BY <1>0 DEF NoFailover, Sound, Memory
  <2>3. Becomes(s, x, FALSE)
    BY <1>1
  <2> HIDE DEF x
  <2>4. CurrentAddress(x) = CurrentAddress(sen[s])
    BY <1>1, <2>2 DEF CurrentAddress, Ahead
  <2> QED BY <1>1, <1>a, <2>1, <2>2, <2>3, <2>4 DEF Ahead
<1>2. CASE SelectSlave(s)
  <2>1. sen[s].state \in Ahead /\ UNCHANGED <<elected, undone>>
    BY <1>2 DEF SelectSlave, Ahead
  <2>2. ASSUME NEW r \in Servers,
               Becomes(s, [sen[s] EXCEPT !.state = "send_slaveof_noone", !.promoted = r], FALSE)
        PROVE  \E x : Plain(s, x)
    <3> DEFINE x == [sen[s] EXCEPT !.state = "send_slaveof_noone", !.promoted = r]
    <3>0. r # None
      BY ElectionAssumption
    <3>1. /\ Sound(s, x) /\ x.config = sen[s].config /\ x.addr = sen[s].addr
          /\ x.epoch = sen[s].epoch /\ x.failoverEpoch = sen[s].failoverEpoch
          /\ x.leaderEpoch = sen[s].leaderEpoch /\ x.state = "send_slaveof_noone"
      BY <1>0, <3>0 DEF Sound, Memory, FailoverStates
    <3>2. Becomes(s, x, FALSE)
      BY <2>2
    <3> HIDE DEF x
    <3>3. CurrentAddress(x) = CurrentAddress(sen[s])
      BY <2>1, <3>1 DEF CurrentAddress, Ahead
    <3> QED BY <1>a, <2>1, <3>1, <3>2, <3>3
  <2> QED BY <1>1, <1>2, <2>1, <2>2 DEF SelectSlave
<1>3. CASE SendSlaveOfNoOne(s)
  <2>1. sen[s].state = "send_slaveof_noone" /\ UNCHANGED <<elected, undone>>
    BY <1>3 DEF SendSlaveOfNoOne
  <2>2. ASSUME Becomes(s, [sen[s] EXCEPT !.state = "wait_promotion"], FALSE)
        PROVE  \E x : Plain(s, x)
    <3> DEFINE x == [sen[s] EXCEPT !.state = "wait_promotion"]
    <3>1. /\ Sound(s, x) /\ x.config = sen[s].config /\ x.addr = sen[s].addr
          /\ x.epoch = sen[s].epoch /\ x.failoverEpoch = sen[s].failoverEpoch
          /\ x.leaderEpoch = sen[s].leaderEpoch /\ x.state = "wait_promotion"
      BY <1>0, <2>1 DEF Sound, Memory, FailoverStates, Selected
    <3>2. Becomes(s, x, FALSE)
      BY <2>2
    <3> HIDE DEF x
    <3>3. CurrentAddress(x) = CurrentAddress(sen[s])
      BY <2>1, <3>1 DEF CurrentAddress
    <3> QED BY <1>a, <2>1, <3>1, <3>2, <3>3 DEF Ahead
  <2> QED BY <1>1, <1>3, <2>1, <2>2 DEF SendSlaveOfNoOne, Ahead
<1>4. CASE WaitPromotion(s)
  BY <1>1, <1>4 DEF WaitPromotion, Ahead
<1>5. CASE SwitchToPromoted(s)
  <2> DEFINE x == ResetMasterAndChangeAddress(sen[s], sen[s].promoted)
  <2>1. /\ Becomes(s, x, TRUE) /\ UNCHANGED <<elected, undone>>
        /\ sen[s].state = "reconf_slaves"
    BY <1>5 DEF SwitchToPromoted
  <2>2. sen[s].promoted \in Servers
    BY <1>0, <2>1 DEF Sound, Memory, Selected
  <2>3. Sound(s, x)
    BY <1>0, <2>2, ResetMasterSound
  <2>4. /\ x.config = sen[s].config /\ x.addr = sen[s].promoted /\ x.epoch = sen[s].epoch
        /\ x.failoverEpoch = sen[s].failoverEpoch /\ x.leaderEpoch = sen[s].leaderEpoch
        /\ x.state = "none"
    BY <1>0 DEF ResetMasterAndChangeAddress, ResetMaster, NoFailover, Sound, Memory
  <2> HIDE DEF x
  <2>5. CurrentAddress(x) = CurrentAddress(sen[s])
    BY <2>1, <2>4 DEF CurrentAddress
  <2>6. sen' = [sen EXCEPT ![s] = x] /\ disk' = [disk EXCEPT ![s] = FlushConfig(x)]
    BY <2>1 DEF Becomes
  <2>7. Plain(s, x)
    BY <1>0, <2>1, <2>3, <2>4, <2>5, <2>6 DEF Plain, Ahead
  <2> QED BY <2>7
<1>6. ASSUME NEW t \in Sentinels, AskForVote(t, s) PROVE \E x : Plain(s, x)
  <2> DEFINE e == sen[t].epoch
             x == VoteLeader(sen[s], e, t)
  <2>0. e \in Epochs
    BY <1>0 DEF Memory
  <2>1. Becomes(s, x, x # sen[s]) /\ UNCHANGED <<elected, undone>>
    BY <1>6 DEF AskForVote
  <2>2. /\ x.config = sen[s].config /\ x.addr = sen[s].addr /\ x.promoted = sen[s].promoted
        /\ x.failoverEpoch = sen[s].failoverEpoch /\ x.state = sen[s].state
        /\ x.epoch >= sen[s].epoch /\ x.leaderEpoch <= x.epoch
    BY <1>0, <2>0, VoteLeaderKeeps
  <2>3. Sound(s, x)
    BY <1>0, <2>0, VoteLeaderSound
  <2> HIDE DEF x
  <2>4. CurrentAddress(x) = CurrentAddress(sen[s])
    BY <2>2 DEF CurrentAddress
  <2>5. /\ sen' = [sen EXCEPT ![s] = x]
        /\ \/ disk' = disk /\ x = sen[s]
           \/ disk' = [disk EXCEPT ![s] = FlushConfig(x)]
    BY <2>1 DEF Becomes
  <2>6. Plain(s, x)
    BY <2>1, <2>2, <2>3, <2>4, <2>5 DEF Plain
  <2> QED BY <2>6
<1>7. ASSUME NEW t \in Sentinels, NEW v \in Vote, UNCHANGED <<elected, undone>>,
             Becomes(s, [sen[s] EXCEPT !.peer[t] = v], FALSE)
      PROVE  \E x : Plain(s, x)
  <2> DEFINE x == [sen[s] EXCEPT !.peer[t] = v]
  <2>1. /\ Sound(s, x) /\ x.config = sen[s].config /\ x.addr = sen[s].addr
        /\ x.epoch = sen[s].epoch /\ x.failoverEpoch = sen[s].failoverEpoch
        /\ x.leaderEpoch = sen[s].leaderEpoch /\ x.state = sen[s].state
        /\ x.promoted = sen[s].promoted
    BY <1>0 DEF Sound, Memory
  <2>2. Becomes(s, x, FALSE)
    BY <1>7
  <2> HIDE DEF x
  <2>3. CurrentAddress(x) = CurrentAddress(sen[s])
    BY <2>1 DEF CurrentAddress
  <2> QED BY <1>7, <1>a, <2>1, <2>2, <2>3
<1>8. ASSUME NEW t \in Sentinels, ReceiveVote(s, t) PROVE \E x : Plain(s, x)
  <2>1. reply[s][t] \in Vote /\ UNCHANGED <<elected, undone>>
    BY <1>0, <1>8 DEF ReceiveVote
  <2>2. CASE t \notin sen[s].known
    <3>1. sen' = sen /\ disk' = disk
      BY <1>8, <2>2 DEF ReceiveVote
    <3>2. sen' = [sen EXCEPT ![s] = sen[s]]
      BY <1>0, <3>1
    <3>3. Sound(s, sen[s]) /\ sen[s].epoch >= sen[s].epoch /\ sen[s].leaderEpoch <= sen[s].epoch
      BY <1>0
    <3>4. Plain(s, sen[s])
      BY <2>1, <3>1, <3>2, <3>3, Zenon DEF Plain
    <3> QED BY <3>4
  <2>3. CASE t \in sen[s].known
    BY <1>7, <1>8, <2>1, <2>3 DEF ReceiveVote
  <2> QED BY <2>2, <2>3
<1>9. ASSUME NEW t \in Sentinels, ForgetVote(s, t) PROVE \E x : Plain(s, x)
  BY <1>7, <1>9, NoVoteType DEF ForgetVote
<1> QED BY <1>2, <1>3, <1>4, <1>5, <1>6, <1>8, <1>9 DEF PlainAction


(* A tick in wait_start, the fields that are not the vote's *)
WaitStartKeeps(s, n, x) ==
    /\ sen' = [sen EXCEPT ![s] = x] /\ Sound(s, x)
    /\ x.config = n.config /\ x.addr = n.addr /\ x.failoverEpoch = n.failoverEpoch
    /\ x.epoch >= n.epoch /\ x.leaderEpoch <= x.epoch
    /\ \/ disk' = [disk EXCEPT ![s] = FlushConfig(x)]
       \/ disk' = disk /\ x.epoch = n.epoch /\ (n.leaderEpoch >= n.failoverEpoch \/ n.epoch > n.failoverEpoch)
    /\ \/ x.state \in {"none", "wait_start"} /\ UNCHANGED elected
       \/ /\ x.state = "select_slave"
          /\ \E p \in BOOLEAN :
                elected' = elected \cup {[by |-> s, epoch |-> n.failoverEpoch, proper |-> p]}

LEMMA WaitStartShapeKeeps ==
    ASSUME NEW s \in Sentinels, NEW n, Sound(s, n), n.state = "wait_start",
           n.leaderEpoch <= n.epoch, WaitStart(s, n)
    PROVE  \E x : WaitStartKeeps(s, n, x)
<1> DEFINE e == n.failoverEpoch
<1>0. e \in Epochs /\ n.epoch \in Int
  BY DEF Sound, Memory, Epochs
<1>1. PICK o \in Elections(s, n, e) :
        \/ /\ Becomes(s, [o.memory EXCEPT !.state = "select_slave"], o.memory # n)
           /\ elected' = elected \cup
                {[by |-> s, epoch |-> n.failoverEpoch,
                  proper |-> o.leader = s /\ n.epoch = n.failoverEpoch]}
        \/ /\ \E timeout \in BOOLEAN :
                Becomes(s, IF timeout THEN NoFailover(o.memory) ELSE o.memory, o.memory # n)
           /\ UNCHANGED elected
  BY DEF WaitStart
<1>2. PICK w \in Sentinels : o.memory = VoteLeader(n, e, w)
  BY <1>1 DEF Elections, Frontrunners
<1> DEFINE v == VoteLeader(n, e, w)
<1>3. /\ v.config = n.config /\ v.addr = n.addr /\ v.failoverEpoch = n.failoverEpoch
      /\ v.state = n.state /\ v.epoch >= n.epoch /\ v.leaderEpoch <= v.epoch
      /\ v = n => n.leaderEpoch >= e \/ n.epoch > e
  BY <1>0, VoteLeaderKeeps
<1>4. Sound(s, v)
  BY <1>0, VoteLeaderSound
<1>5. \/ /\ Becomes(s, [v EXCEPT !.state = "select_slave"], v # n)
         /\ elected' = elected \cup
              {[by |-> s, epoch |-> n.failoverEpoch,
                proper |-> o.leader = s /\ n.epoch = n.failoverEpoch]}
      \/ /\ Becomes(s, NoFailover(v), v # n) \/ Becomes(s, v, v # n)
         /\ UNCHANGED elected
  BY <1>1, <1>2
<1> HIDE DEF v
<1>6. ASSUME NEW x, Becomes(s, x, v # n), Sound(s, x), x.config = v.config, x.addr = v.addr,
             x.failoverEpoch = v.failoverEpoch, x.epoch = v.epoch, x.leaderEpoch = v.leaderEpoch,
             \/ x.state \in {"none", "wait_start"} /\ UNCHANGED elected
             \/ /\ x.state = "select_slave"
                /\ \E p \in BOOLEAN :
                     elected' = elected \cup {[by |-> s, epoch |-> n.failoverEpoch, proper |-> p]}
      PROVE  WaitStartKeeps(s, n, x)
  <2>1. /\ sen' = [sen EXCEPT ![s] = x]
        /\ disk' = [disk EXCEPT ![s] = FlushConfig(x)] \/ (disk' = disk /\ v = n)
    BY <1>6 DEF Becomes
  <2>2. \/ disk' = [disk EXCEPT ![s] = FlushConfig(x)]
        \/ disk' = disk /\ x.epoch = n.epoch /\ (n.leaderEpoch >= n.failoverEpoch \/ n.epoch > n.failoverEpoch)
    BY <1>3, <1>6, <2>1
  <2> QED BY <1>3, <1>6, <2>1, <2>2 DEF WaitStartKeeps
<1>7. CASE /\ Becomes(s, [v EXCEPT !.state = "select_slave"], v # n)
           /\ elected' = elected \cup
                {[by |-> s, epoch |-> n.failoverEpoch,
                  proper |-> o.leader = s /\ n.epoch = n.failoverEpoch]}
  <2> DEFINE x == [v EXCEPT !.state = "select_slave"]
  <2>1. /\ Sound(s, x) /\ x.config = v.config /\ x.addr = v.addr
        /\ x.failoverEpoch = v.failoverEpoch /\ x.epoch = v.epoch /\ x.leaderEpoch = v.leaderEpoch
        /\ x.state = "select_slave"
    BY <1>4 DEF Sound, Memory, FailoverStates, Selected
  <2>2. Becomes(s, x, v # n)
    BY <1>7
  <2>3. \E p \in BOOLEAN :
          elected' = elected \cup {[by |-> s, epoch |-> n.failoverEpoch, proper |-> p]}
    BY <1>7
  <2> HIDE DEF x
  <2> QED BY <1>6, <2>1, <2>2, <2>3
<1>8. CASE Becomes(s, NoFailover(v), v # n) /\ UNCHANGED elected
  <2> DEFINE x == NoFailover(v)
  <2>1. /\ Sound(s, x) /\ x.config = v.config /\ x.addr = v.addr
        /\ x.failoverEpoch = v.failoverEpoch /\ x.epoch = v.epoch /\ x.leaderEpoch = v.leaderEpoch
        /\ x.state = "none"
    BY <1>4, NoFailoverSound DEF NoFailover, Sound, Memory
  <2>2. Becomes(s, x, v # n)
    BY <1>8
  <2> HIDE DEF x
  <2> QED BY <1>6, <1>8, <2>1, <2>2
<1>9. CASE Becomes(s, v, v # n) /\ UNCHANGED elected
  BY <1>3, <1>4, <1>6, <1>9
<1> QED BY <1>5, <1>7, <1>8, <1>9

(* The memory of s becomes x: what EpochInv needs of x. *)
LEMMA EpochBecomes ==
    ASSUME BaseInv, EpochInv, NEW s \in Sentinels, NEW x, Sound(s, x),
           sen' = [sen EXCEPT ![s] = x], NEW d, disk' = [disk EXCEPT ![s] = d],
           d \in Saved, d.leaderEpoch <= d.epoch, d.epoch <= x.epoch, d.epoch >= disk[s].epoch,
           x.leaderEpoch <= x.epoch, elected \subseteq elected',
           \A a \in elected' \ elected : a.by = s /\ a.epoch <= d.epoch,
           x.state = "wait_start" =>
                /\ elected' = elected
                /\ 0 < x.failoverEpoch /\ x.failoverEpoch <= x.epoch
                /\ d.epoch = x.epoch \/ x.epoch = x.failoverEpoch
                /\ \A a \in elected : a.by = s => a.epoch < x.failoverEpoch
    PROVE  EpochInv'
<1>0. /\ sen \in [Sentinels -> Memory] /\ disk \in [Sentinels -> Saved]
      /\ elected \subseteq [by : Sentinels, epoch : Epochs, proper : BOOLEAN]
  BY DEF BaseInv, ElTypeOK
<1>1. /\ sen'[s] = x /\ disk'[s] = d
      /\ \A t \in Sentinels : t # s => sen'[t] = sen[t] /\ disk'[t] = disk[t]
  BY <1>0
<1>2. \A t \in Sentinels : /\ sen[t].leaderEpoch <= sen[t].epoch
                           /\ disk[t].leaderEpoch <= disk[t].epoch
                           /\ disk[t].epoch <= sen[t].epoch
                           /\ sen[t].state = "wait_start" => Waits(t)
  BY DEF EpochInv
<1>3. ASSUME NEW t \in Sentinels, sen'[t].state = "wait_start" PROVE Waits(t)'
  <2>1. CASE t = s
    BY <1>1, <1>3, <2>1 DEF Waits
  <2>2. CASE t # s
    <3>1. Waits(t)
      BY <1>1, <1>2, <1>3, <2>2
    <3>2. \A a \in elected' : a.by = t => a \in elected
      BY <2>2
    <3> QED BY <1>1, <2>2, <3>1, <3>2 DEF Waits
  <2> QED BY <2>1, <2>2
<1>4. ASSUME NEW a \in elected' PROVE a.epoch <= disk'[a.by].epoch
  <2>1. CASE a \in elected
    <3>1. /\ a.epoch <= disk[a.by].epoch /\ a.by \in Sentinels /\ a.epoch \in Int
          /\ disk[s].epoch \in Int /\ d.epoch \in Int
      BY <1>0, <2>1 DEF EpochInv, Saved, Epochs
    <3> QED BY <1>1, <3>1
  <2>2. CASE a \notin elected
    BY <1>1, <2>2
  <2> QED BY <2>1, <2>2
<1>5. \A t \in Sentinels : /\ sen'[t].leaderEpoch <= sen'[t].epoch
                           /\ disk'[t].leaderEpoch <= disk'[t].epoch
                           /\ disk'[t].epoch <= sen'[t].epoch
  BY <1>1, <1>2
<1> QED BY <1>3, <1>4, <1>5 DEF EpochInv


(* The configuration of the memory n is that of Sentinel s. *)
ConfigOf(n, s) == n.config = sen[s].config /\ CurrentAddress(n) = CurrentAddress(sen[s])

(* A hello of s leaves t with the configuration it had or with that of s.  *)
HelloKeeps(s, t, x, m) ==
    /\ Sound(t, x) /\ Sound(t, m) /\ sen' = [sen EXCEPT ![t] = x]
    /\ \/ disk' = disk /\ x.epoch = sen[t].epoch
       \/ disk' = [disk EXCEPT ![t] = FlushConfig(m)]
    /\ m.epoch = x.epoch /\ x.epoch >= sen[t].epoch
    /\ m.leaderEpoch = sen[t].leaderEpoch /\ x.leaderEpoch = sen[t].leaderEpoch
    /\ x.failoverEpoch = sen[t].failoverEpoch /\ x.state \in {"none", sen[t].state}
    /\ x.config \in {sen[t].config, sen[s].config} /\ m.config \in {sen[t].config, sen[s].config}
    /\ ~undone' => /\ ConfigOf(x, s) \/ ConfigOf(x, t)
                   /\ ConfigOf(m, s) \/ ConfigOf(m, t)

LEMMA HelloShapeKeeps ==
    ASSUME BaseInv, NEW s \in Sentinels, NEW t \in Sentinels, ReceiveHello(t, s)
    PROVE  \E x, m : HelloKeeps(s, t, x, m)
<1> DEFINE n == Heard(t, s)
           a == CurrentAddress(sen[s])
           newer == n.config < sen[s].config
           switch == newer /\ n.addr # a
           c == [n EXCEPT !.config = sen[s].config]
<1>0. s # t
  BY DEF ReceiveHello
<1>a. /\ Sound(s, sen[s]) /\ Sound(t, sen[t]) /\ a \in Servers
      /\ sen[t].epoch \in Int /\ sen[s].epoch \in Int
  BY DEF BaseInv, Sound, Memory, Epochs, CurrentAddress, Selected
<1>e. \A i, j \in Int : Max({i, j}) >= i
  BY MaxOfTwo
<1>b. Max({sen[t].epoch, sen[s].epoch}) >= sen[t].epoch
  BY <1>a, <1>e
<1>1. Sound(t, n) /\ n.leaderEpoch = sen[t].leaderEpoch
  BY <1>0, HeardSound
<1>c. sen[t] \in Memory
  BY <1>a DEF Sound
<1>d. /\ n.config = sen[t].config /\ n.addr = sen[t].addr /\ n.state = sen[t].state
      /\ n.promoted = sen[t].promoted /\ n.failoverEpoch = sen[t].failoverEpoch
      /\ n.epoch = Max({sen[t].epoch, sen[s].epoch})
  BY <1>c DEF Heard, Memory
<1>2. /\ n.config = sen[t].config /\ n.addr = sen[t].addr /\ n.state = sen[t].state
      /\ n.promoted = sen[t].promoted /\ n.failoverEpoch = sen[t].failoverEpoch
      /\ n.epoch >= sen[t].epoch
  BY <1>b, <1>d
<1>3. \/ switch /\ Becomes(t, ResetMasterAndChangeAddress(c, a), TRUE)
      \/ /\ ~switch
         /\ sen' = [sen EXCEPT ![t] = IF newer THEN c ELSE n]
         /\ disk' = IF n = sen[t] THEN disk ELSE [disk EXCEPT ![t] = FlushConfig(n)]
  BY DEF ReceiveHello, Heard
<1>4. newer /\ ~switch /\ n.state = "reconf_slaves" => undone'
  BY DEF ReceiveHello, Heard
<1> HIDE DEF n
<1>5. /\ Sound(t, c) /\ c.config = sen[s].config /\ c.addr = n.addr /\ c.state = n.state
      /\ c.promoted = n.promoted /\ c.failoverEpoch = n.failoverEpoch /\ c.epoch = n.epoch
      /\ c.leaderEpoch = n.leaderEpoch
  BY <1>a, <1>1 DEF Sound, Memory
<1> HIDE DEF c
<1>6. ConfigOf(n, t)
  BY <1>2 DEF ConfigOf, CurrentAddress
<1>7. CASE switch /\ Becomes(t, ResetMasterAndChangeAddress(c, a), TRUE)
  <2> DEFINE x == ResetMasterAndChangeAddress(c, a)
  <2>1. Sound(t, x)
    BY <1>a, <1>5, ResetMasterSound
  <2>2. /\ x.config = c.config /\ x.addr = a /\ x.state = "none"
        /\ x.failoverEpoch = c.failoverEpoch /\ x.epoch = c.epoch /\ x.leaderEpoch = c.leaderEpoch
    BY <1>5 DEF ResetMasterAndChangeAddress, ResetMaster, NoFailover, Sound, Memory
  <2>3. sen' = [sen EXCEPT ![t] = x] /\ disk' = [disk EXCEPT ![t] = FlushConfig(x)]
    BY <1>7 DEF Becomes
  <2> HIDE DEF x
  <2>4. ConfigOf(x, s)
    BY <1>5, <2>2 DEF ConfigOf, CurrentAddress
  <2>5. HelloKeeps(s, t, x, x)
    BY <1>1, <1>2, <1>5, <2>1, <2>2, <2>3, <2>4 DEF HelloKeeps
  <2> QED BY <2>5
<1>8. CASE /\ ~switch
           /\ sen' = [sen EXCEPT ![t] = IF newer THEN c ELSE n]
           /\ disk' = IF n = sen[t] THEN disk ELSE [disk EXCEPT ![t] = FlushConfig(n)]
  <2>1. (disk' = disk /\ n.epoch = sen[t].epoch) \/ disk' = [disk EXCEPT ![t] = FlushConfig(n)]
    BY <1>8
  <2>2. CASE newer
    <3>1. ~undone' => ConfigOf(c, s)
      BY <1>4, <1>5, <1>8, <2>2 DEF ConfigOf, CurrentAddress
    <3>2. HelloKeeps(s, t, c, n)
      BY <1>1, <1>2, <1>5, <1>6, <1>8, <2>1, <2>2, <3>1 DEF HelloKeeps
    <3> QED BY <3>2
  <2>3. CASE ~newer
    <3>1. HelloKeeps(s, t, n, n)
      BY <1>1, <1>2, <1>6, <1>8, <2>1, <2>3 DEF HelloKeeps
    <3> QED BY <3>1
  <2> QED BY <2>2, <2>3
<1> QED BY <1>3, <1>7, <1>8

(* What the file of s has when the memory x was saved, or not. *)
LEMMA SavedOrNot ==
    ASSUME BaseInv, EpochInv, NEW s \in Sentinels, NEW x, Sound(s, x), x.leaderEpoch <= x.epoch,
           x.epoch >= sen[s].epoch,
           disk' = disk \/ disk' = [disk EXCEPT ![s] = FlushConfig(x)]
    PROVE  \E d \in Saved : /\ disk' = [disk EXCEPT ![s] = d]
                            /\ d = disk[s] \/ d = FlushConfig(x)
                            /\ disk' = disk \/ d.epoch = x.epoch
                            /\ d.leaderEpoch <= d.epoch /\ d.epoch <= x.epoch
                            /\ d.epoch >= disk[s].epoch
<1>0. /\ disk \in [Sentinels -> Saved] /\ disk[s].epoch \in Int /\ sen[s].epoch \in Int
      /\ x.epoch \in Int /\ disk[s].leaderEpoch <= disk[s].epoch /\ disk[s].epoch <= sen[s].epoch
  BY DEF BaseInv, ElTypeOK, EpochInv, Saved, Sound, Memory, Epochs
<1>1. CASE disk' = disk
  <2>1. disk' = [disk EXCEPT ![s] = disk[s]]
    BY <1>0, <1>1
  <2> QED BY <1>0, <1>1, <2>1
<1>2. CASE disk' = [disk EXCEPT ![s] = FlushConfig(x)]
  <2>1. /\ FlushConfig(x) \in Saved /\ FlushConfig(x).leaderEpoch = x.leaderEpoch
        /\ FlushConfig(x).epoch = x.epoch
    BY FlushType DEF FlushConfig
  <2> DEFINE d == FlushConfig(x)
  <2>2. d \in Saved /\ d.epoch = x.epoch /\ d.leaderEpoch <= d.epoch
    BY <2>1
  <2>3. disk' = [disk EXCEPT ![s] = d] /\ d = FlushConfig(x)
    BY <1>2
  <2> HIDE DEF d
  <2>4. d.epoch <= x.epoch /\ d.epoch >= disk[s].epoch
    BY <1>0, <2>2
  <2> QED BY <2>2, <2>3, <2>4
<1> QED BY <1>1, <1>2


LEMMA EpochInit == ElInit => EpochInv
<1> SUFFICES ASSUME ElInit PROVE EpochInv
  OBVIOUS
<1>1. elected = {} /\ \A s \in Sentinels : /\ sen[s].leaderEpoch = 0 /\ sen[s].epoch = 0
                                           /\ sen[s].state = "none"
                                           /\ disk[s] = FlushConfig(sen[s])
  BY DEF ElInit
<1>a. \A n : FlushConfig(n).epoch = n.epoch /\ FlushConfig(n).leaderEpoch = n.leaderEpoch
  BY DEF FlushConfig
<1>2. \A s \in Sentinels : disk[s].epoch = 0 /\ disk[s].leaderEpoch = 0
  BY <1>1, <1>a
<1> QED BY <1>1, <1>2 DEF EpochInv

LEMMA EpochUnchanged ==
    ASSUME EpochInv, UNCHANGED <<sen, disk, elected>>
    PROVE  EpochInv'
BY DEF EpochInv, Waits

(* The steps that tell the proof of each action apart *)
LEMMA StepCases ==
    ASSUME ElNext
    PROVE  \E s \in Sentinels :
             \/ PlainAction(s) \/ StartFailover(s) \/ Elect(s) \/ FailoverCommand(s)
             \/ PromotionSeen(s) \/ ResetCommand(s) \/ Restart(s)
             \/ \E t \in Sentinels : ReceiveHello(s, t)
BY DEF ElNext, Tick, Mishap, Exchange, PlainAction

LEMMA EpochPlain ==
    ASSUME BaseInv, EpochInv, NEW s \in Sentinels, NEW x, Plain(s, x)
    PROVE  EpochInv'
<1>0. /\ sen[s].epoch \in Int /\ x.epoch \in Int /\ sen[s].failoverEpoch \in Int
      /\ disk[s].epoch \in Int
  BY DEF BaseInv, ElTypeOK, Plain, Sound, Memory, Saved, Epochs
<1>1. /\ Sound(s, x) /\ sen' = [sen EXCEPT ![s] = x] /\ elected' = elected
      /\ x.failoverEpoch = sen[s].failoverEpoch
      /\ x.epoch >= sen[s].epoch /\ x.leaderEpoch <= x.epoch
      /\ \/ disk' = disk /\ x.epoch = sen[s].epoch
         \/ disk' = [disk EXCEPT ![s] = FlushConfig(x)]
      /\ x.state = "wait_start" => sen[s].state = "wait_start"
  BY DEF Plain
<1>2. PICK d \in Saved : /\ disk' = [disk EXCEPT ![s] = d]
                         /\ d = disk[s] \/ d = FlushConfig(x)
                         /\ disk' = disk \/ d.epoch = x.epoch
                         /\ d.leaderEpoch <= d.epoch /\ d.epoch <= x.epoch
                         /\ d.epoch >= disk[s].epoch
  BY <1>1, SavedOrNot
<1>3. ASSUME x.state = "wait_start"
      PROVE  /\ 0 < x.failoverEpoch /\ x.failoverEpoch <= x.epoch
             /\ d.epoch = x.epoch \/ x.epoch = x.failoverEpoch
             /\ \A a \in elected : a.by = s => a.epoch < x.failoverEpoch
  <2>1. Waits(s)
    BY <1>1, <1>3 DEF EpochInv
  <2>2. /\ 0 < sen[s].failoverEpoch /\ sen[s].failoverEpoch <= sen[s].epoch
        /\ disk[s].epoch = sen[s].epoch \/ sen[s].epoch = sen[s].failoverEpoch
        /\ \A a \in elected : a.by = s => a.epoch < sen[s].failoverEpoch
    BY <2>1 DEF Waits
  <2>3. d.epoch = x.epoch \/ x.epoch = x.failoverEpoch
    <3>1. CASE disk' = disk /\ x.epoch = sen[s].epoch
      <4>1. d = disk[s]
        BY <1>2, <3>1 DEF BaseInv, ElTypeOK
      <4> QED BY <1>1, <2>2, <3>1, <4>1
    <3>2. CASE disk' = [disk EXCEPT ![s] = FlushConfig(x)]
      <4>1. disk'[s] = d /\ disk'[s] = FlushConfig(x)
        BY <1>2, <3>2 DEF BaseInv, ElTypeOK
      <4> QED BY <4>1 DEF FlushConfig
    <3> QED BY <1>1, <3>1, <3>2
  <2> QED BY <1>0, <1>1, <2>2, <2>3
<1>4. \A a \in elected' \ elected : a.by = s /\ a.epoch <= d.epoch
  BY <1>1
<1> QED BY <1>1, <1>2, <1>3, <1>4, EpochBecomes

(* A tick in wait_start of a Sentinel that has the memory n, either the    *)
(* one it had or that of the failover it has just started.                 *)
LEMMA EpochWaitStart ==
    ASSUME BaseInv, EpochInv, NEW s \in Sentinels, NEW n, Sound(s, n), NEW x,
           WaitStartKeeps(s, n, x), n.epoch >= sen[s].epoch,
           n.leaderEpoch = sen[s].leaderEpoch,
           0 < n.failoverEpoch, n.failoverEpoch <= n.epoch,
           \A a \in elected : a.by = s => a.epoch < n.failoverEpoch,
           \/ n.epoch = sen[s].epoch /\ (disk[s].epoch = n.epoch \/ n.epoch = n.failoverEpoch)
           \/ n.epoch = n.failoverEpoch /\ n.leaderEpoch < n.failoverEpoch
    PROVE  EpochInv'
<1> DEFINE e == n.failoverEpoch
<1>0. /\ sen[s].epoch \in Int /\ x.epoch \in Int /\ n.epoch \in Int /\ e \in Int
      /\ n.leaderEpoch \in Int /\ disk[s].epoch \in Int /\ disk \in [Sentinels -> Saved]
      /\ disk[s].leaderEpoch = n.leaderEpoch /\ disk[s].leaderEpoch <= disk[s].epoch
  BY DEF BaseInv, ElTypeOK, EpochInv, WaitStartKeeps, Sound, Memory, Saved, Epochs
<1>1. /\ sen' = [sen EXCEPT ![s] = x] /\ Sound(s, x)
      /\ x.failoverEpoch = e /\ x.epoch >= n.epoch /\ x.leaderEpoch <= x.epoch
      /\ \/ disk' = [disk EXCEPT ![s] = FlushConfig(x)]
         \/ disk' = disk /\ x.epoch = n.epoch /\ (n.leaderEpoch >= e \/ n.epoch > e)
      /\ \/ x.state \in {"none", "wait_start"} /\ elected' = elected
         \/ /\ x.state = "select_slave"
            /\ \E p \in BOOLEAN :
                  elected' = elected \cup {[by |-> s, epoch |-> e, proper |-> p]}
  BY DEF WaitStartKeeps
<1>2. PICK d \in Saved : /\ disk' = [disk EXCEPT ![s] = d]
                         /\ d = disk[s] \/ d = FlushConfig(x)
                         /\ disk' = disk \/ d.epoch = x.epoch
                         /\ d.leaderEpoch <= d.epoch /\ d.epoch <= x.epoch
                         /\ d.epoch >= disk[s].epoch
  <2>1. x.epoch >= sen[s].epoch
    BY <1>0, <1>1
  <2> QED BY <1>1, <2>1, SavedOrNot
<1>3. d.epoch >= e /\ (d.epoch = x.epoch \/ x.epoch = e) /\ d.epoch \in Int
  <2>0. d.epoch \in Int
    BY DEF Saved, Epochs
  <2>1. CASE disk' = [disk EXCEPT ![s] = FlushConfig(x)]
    <3>1. d = FlushConfig(x)
      BY <1>0, <1>2, <2>1
    <3>2. d.epoch = x.epoch
      BY <3>1 DEF FlushConfig
    <3> QED BY <1>0, <1>1, <2>0, <3>2
  <2>2. CASE disk' = disk /\ x.epoch = n.epoch /\ (n.leaderEpoch >= e \/ n.epoch > e)
    <3>1. d = disk[s]
      BY <1>0, <1>2, <2>2
    <3>2. n.epoch = sen[s].epoch /\ (disk[s].epoch = n.epoch \/ n.epoch = e)
      BY <1>0, <2>2
    <3> QED BY <1>0, <2>0, <2>2, <3>1, <3>2
  <2> QED BY <1>1, <2>1, <2>2
<1>4. elected \subseteq elected' /\ \A a \in elected' \ elected : a.by = s /\ a.epoch <= d.epoch
  BY <1>1, <1>3
<1>5. x.state = "wait_start" =>
        /\ elected' = elected
        /\ 0 < x.failoverEpoch /\ x.failoverEpoch <= x.epoch
        /\ d.epoch = x.epoch \/ x.epoch = x.failoverEpoch
        /\ \A a \in elected : a.by = s => a.epoch < x.failoverEpoch
  BY <1>0, <1>1, <1>3
<1> QED BY <1>1, <1>2, <1>4, <1>5, EpochBecomes

(* A failover starts in an epoch that is new to the Sentinel. *)
LEMMA NewEpoch ==
    ASSUME BaseInv, EpochInv, NEW s \in Sentinels, NEW a \in elected, a.by = s
    PROVE  a.epoch < sen[s].epoch + 1
<1>1. a.epoch \in Int /\ disk[s].epoch \in Int /\ sen[s].epoch \in Int
  BY DEF BaseInv, ElTypeOK, Memory, Saved, Epochs
<1>2. a.epoch <= disk[s].epoch /\ disk[s].epoch <= sen[s].epoch
  BY DEF EpochInv
<1> QED BY <1>1, <1>2

LEMMA EpochStep ==
    ASSUME BaseInv, EpochInv, [ElNext]_elVars
    PROVE  EpochInv'
<1>1. CASE UNCHANGED elVars
  BY <1>1, EpochUnchanged DEF elVars
<1> SUFFICES ASSUME ElNext PROVE EpochInv'
  BY <1>1
<1> PICK s \in Sentinels :
      \/ PlainAction(s) \/ StartFailover(s) \/ Elect(s) \/ FailoverCommand(s)
      \/ PromotionSeen(s) \/ ResetCommand(s) \/ Restart(s)
      \/ \E t \in Sentinels : ReceiveHello(s, t)
  BY StepCases
<1> DEFINE n == sen[s]
<1>0. /\ Sound(s, n) /\ n.leaderEpoch <= n.epoch /\ n.epoch \in Int /\ n.leaderEpoch \in Int
      /\ n.failoverEpoch \in Int
      /\ disk \in [Sentinels -> Saved] /\ sen \in [Sentinels -> Memory]
      /\ disk[s] \in Saved /\ disk[s].epoch \in Int
      /\ disk[s].leaderEpoch <= disk[s].epoch /\ disk[s].epoch <= n.epoch
  BY DEF BaseInv, EpochInv, ElTypeOK, Sound, Memory, Saved, Epochs
<1>2. CASE PlainAction(s)
  BY <1>2, PlainStep, EpochPlain
<1>3. CASE StartFailover(s)
  <2>1. WaitStart(s, Started(n)) /\ n.epoch < MaxEpoch
    BY <1>3 DEF StartFailover
  <2>2. /\ Sound(s, Started(n)) /\ Started(n).leaderEpoch = n.leaderEpoch
        /\ Started(n).epoch = n.epoch + 1 /\ Started(n).failoverEpoch = n.epoch + 1
        /\ Started(n).state = "wait_start"
    BY <1>0, <2>1, StartedSound DEF SameVotes
  <2>3. PICK x : WaitStartKeeps(s, Started(n), x)
    BY <1>0, <2>1, <2>2, WaitStartShapeKeeps
  <2> DEFINE m == Started(n)
  <2>4. 0 <= n.epoch
    BY <1>0 DEF Sound, Memory, Epochs
  <2>5. \A a \in elected : a.by = s => a.epoch < n.epoch + 1
    BY NewEpoch
  <2>6. /\ m.epoch >= n.epoch /\ 0 < m.failoverEpoch /\ m.failoverEpoch <= m.epoch
        /\ m.epoch = m.failoverEpoch /\ m.leaderEpoch < m.failoverEpoch
        /\ \A a \in elected : a.by = s => a.epoch < m.failoverEpoch
    BY <1>0, <2>2, <2>4, <2>5
  <2>7. m.leaderEpoch = n.leaderEpoch /\ Sound(s, m) /\ WaitStartKeeps(s, m, x)
    BY <2>2, <2>3
  <2> HIDE DEF m
  <2> QED BY <2>6, <2>7, EpochWaitStart
<1>4. CASE Elect(s)
  <2>1. n.state = "wait_start" /\ WaitStart(s, n)
    BY <1>4 DEF Elect
  <2>2. PICK x : WaitStartKeeps(s, n, x)
    BY <1>0, <2>1, WaitStartShapeKeeps
  <2>3. Waits(s)
    BY <2>1 DEF EpochInv
  <2>4. /\ 0 < n.failoverEpoch /\ n.failoverEpoch <= n.epoch
        /\ disk[s].epoch = n.epoch \/ n.epoch = n.failoverEpoch
        /\ \A a \in elected : a.by = s => a.epoch < n.failoverEpoch
    BY <2>3 DEF Waits
  <2>5. n.epoch >= sen[s].epoch /\ n.epoch = sen[s].epoch /\ n.leaderEpoch = sen[s].leaderEpoch
    BY <1>0
  <2> QED BY <1>0, <2>2, <2>4, <2>5, EpochWaitStart
<1>5. CASE FailoverCommand(s)
  <2> DEFINE m == Started(n)
             x == [m EXCEPT !.forced = TRUE]
  <2>1. n.epoch < MaxEpoch /\ Becomes(s, x, FALSE) /\ elected' = elected
    BY <1>5 DEF FailoverCommand
  <2>2. /\ Sound(s, m) /\ m.leaderEpoch = n.leaderEpoch
        /\ m.epoch = n.epoch + 1 /\ m.failoverEpoch = n.epoch + 1
    BY <1>0, <2>1, StartedSound DEF SameVotes
  <2> HIDE DEF m
  <2>3. /\ Sound(s, x) /\ x.leaderEpoch = n.leaderEpoch
        /\ x.epoch = n.epoch + 1 /\ x.failoverEpoch = n.epoch + 1
    BY <2>2 DEF Sound, Memory
  <2>4. sen' = [sen EXCEPT ![s] = x] /\ disk' = [disk EXCEPT ![s] = disk[s]]
    BY <1>0, <2>1 DEF Becomes
  <2> HIDE DEF x
  <2>5. \A a \in elected : a.by = s => a.epoch < n.epoch + 1
    BY NewEpoch
  <2>6. 0 <= n.epoch
    BY <1>0 DEF Sound, Memory, Epochs
  <2>7. /\ disk[s].epoch <= x.epoch /\ disk[s].epoch >= disk[s].epoch /\ x.leaderEpoch <= x.epoch
        /\ 0 < x.failoverEpoch /\ x.failoverEpoch <= x.epoch /\ x.epoch = x.failoverEpoch
        /\ \A a \in elected : a.by = s => a.epoch < x.failoverEpoch
    BY <1>0, <2>3, <2>5, <2>6
  <2>8. elected \subseteq elected' /\ \A a \in elected' \ elected : a.by = s /\ a.epoch <= disk[s].epoch
    BY <2>1
  <2> QED BY <1>0, <2>1, <2>3, <2>4, <2>7, <2>8, EpochBecomes
<1>6. CASE PromotionSeen(s)
  <2> DEFINE x == [n EXCEPT !.state = "reconf_slaves", !.config = n.failoverEpoch]
  <2>1. n.state = "wait_promotion" /\ Becomes(s, x, TRUE) /\ elected' = elected
    BY <1>6 DEF PromotionSeen
  <2>2. /\ Sound(s, x) /\ x.leaderEpoch = n.leaderEpoch /\ x.epoch = n.epoch
        /\ x.state = "reconf_slaves"
    BY <1>0, <2>1 DEF Sound, Memory, FailoverStates, Selected
  <2>3. sen' = [sen EXCEPT ![s] = x] /\ disk' = [disk EXCEPT ![s] = FlushConfig(x)]
    BY <2>1 DEF Becomes
  <2> HIDE DEF x
  <2>4. PICK d \in Saved : /\ disk' = [disk EXCEPT ![s] = d]
                           /\ d.leaderEpoch <= d.epoch /\ d.epoch <= x.epoch
                           /\ d.epoch >= disk[s].epoch
    <3>1. x.epoch >= sen[s].epoch /\ x.leaderEpoch <= x.epoch
      BY <1>0, <2>2
    <3> QED BY <2>2, <2>3, <3>1, SavedOrNot
  <2>5. elected \subseteq elected' /\ \A a \in elected' \ elected : a.by = s /\ a.epoch <= d.epoch
    BY <2>1
  <2> QED BY <1>0, <2>2, <2>3, <2>4, <2>5, EpochBecomes
<1>7. CASE ResetCommand(s)
  <2> DEFINE r == ResetMaster(n)
             x == [r EXCEPT !.known = {}, !.peer = [t \in Sentinels |-> NoVote]]
  <2>1. Becomes(s, x, FALSE) /\ elected' = elected
    BY <1>7 DEF ResetCommand
  <2>2. /\ Sound(s, r) /\ r.leaderEpoch = n.leaderEpoch /\ r.epoch = n.epoch
        /\ r.state = "none"
    BY <1>0, ResetMasterSound DEF SameVotes, ResetMaster, NoFailover, Sound, Memory
  <2> HIDE DEF r
  <2>3. [t \in Sentinels |-> NoVote] \in [Sentinels -> Vote]
    BY NoVoteType
  <2>4. /\ Sound(s, x) /\ x.leaderEpoch = n.leaderEpoch /\ x.epoch = n.epoch
        /\ x.state = "none"
    BY <2>2, <2>3 DEF Sound, Memory
  <2>5. sen' = [sen EXCEPT ![s] = x] /\ disk' = [disk EXCEPT ![s] = disk[s]]
    BY <1>0, <2>1 DEF Becomes
  <2> HIDE DEF x
  <2>6. disk[s].epoch <= x.epoch /\ disk[s].epoch >= disk[s].epoch /\ x.leaderEpoch <= x.epoch
    BY <1>0, <2>4
  <2>7. elected \subseteq elected' /\ \A a \in elected' \ elected : a.by = s /\ a.epoch <= disk[s].epoch
    BY <2>1
  <2> QED BY <1>0, <2>4, <2>5, <2>6, <2>7, EpochBecomes
<1>8. CASE Restart(s)
  <2> DEFINE d == disk[s]
             x == Restarted(d)
  <2>1. sen' = [sen EXCEPT ![s] = x] /\ disk' = disk /\ elected' = elected
    BY <1>8 DEF Restart, Restarted
  <2>2. Sound(s, x)
    BY <1>0, RestartedSound DEF BaseInv
  <2>3. x.leaderEpoch = d.leaderEpoch /\ x.epoch = Max({d.epoch, d.config}) /\ x.state = "none"
    BY DEF Restarted
  <2>4. d.config \in Int /\ d.leaderEpoch \in Int
    BY <1>0 DEF Saved, Epochs
  <2>5. x.epoch \in Int /\ x.epoch >= d.epoch
    BY <1>0, <2>3, <2>4, MaxOfTwo
  <2>6. disk' = [disk EXCEPT ![s] = d]
    BY <1>0, <2>1
  <2>7. d \in Saved /\ d.leaderEpoch <= d.epoch /\ d.epoch <= x.epoch /\ d.epoch >= disk[s].epoch
        /\ x.leaderEpoch <= x.epoch
    BY <1>0, <2>3, <2>4, <2>5
  <2> HIDE DEF x, d
  <2>8. elected \subseteq elected' /\ \A a \in elected' \ elected : a.by = s /\ a.epoch <= d.epoch
    BY <2>1
  <2> QED BY <2>1, <2>2, <2>3, <2>6, <2>7, <2>8, EpochBecomes
<1>9. ASSUME NEW t \in Sentinels, ReceiveHello(s, t) PROVE EpochInv'
  <2>1. PICK x, m : HelloKeeps(t, s, x, m)
    BY <1>9, HelloShapeKeeps
  <2>2. /\ Sound(s, x) /\ Sound(s, m) /\ sen' = [sen EXCEPT ![s] = x]
        /\ \/ disk' = disk /\ x.epoch = n.epoch
           \/ disk' = [disk EXCEPT ![s] = FlushConfig(m)]
        /\ m.epoch = x.epoch /\ x.epoch >= n.epoch
        /\ m.leaderEpoch = n.leaderEpoch /\ x.leaderEpoch = n.leaderEpoch
        /\ x.failoverEpoch = n.failoverEpoch /\ x.state \in {"none", n.state}
    BY <2>1 DEF HelloKeeps
  <2>a. elected' = elected
    BY <1>9 DEF ReceiveHello
  <2>b. x.epoch \in Int
    BY <2>2 DEF Sound, Memory, Epochs
  <2>3. elected' = elected /\ x.epoch \in Int
    BY <2>a, <2>b
  <2>4. PICK d \in Saved : /\ disk' = [disk EXCEPT ![s] = d]
                           /\ disk' = disk \/ d.epoch = m.epoch
                           /\ d.leaderEpoch <= d.epoch /\ d.epoch <= m.epoch
                           /\ d.epoch >= disk[s].epoch
    <3>1. m.epoch >= sen[s].epoch /\ m.leaderEpoch <= m.epoch
      BY <1>0, <2>2, <2>3
    <3> QED BY <2>2, <3>1, SavedOrNot
  <2>5. ASSUME x.state = "wait_start"
        PROVE  /\ 0 < x.failoverEpoch /\ x.failoverEpoch <= x.epoch
               /\ d.epoch = x.epoch \/ x.epoch = x.failoverEpoch
               /\ \A a \in elected : a.by = s => a.epoch < x.failoverEpoch
    <3>1. Waits(s)
      BY <2>2, <2>5 DEF EpochInv
    <3>2. /\ 0 < n.failoverEpoch /\ n.failoverEpoch <= n.epoch
          /\ disk[s].epoch = n.epoch \/ n.epoch = n.failoverEpoch
          /\ \A a \in elected : a.by = s => a.epoch < n.failoverEpoch
      BY <3>1 DEF Waits
    <3>3. d.epoch = x.epoch \/ x.epoch = x.failoverEpoch
      <4>1. CASE disk' = disk /\ x.epoch = n.epoch
        <5>1. d = disk[s]
          BY <1>0, <2>4, <4>1
        <5> QED BY <2>2, <3>2, <4>1, <5>1
      <4>2. CASE disk' = [disk EXCEPT ![s] = FlushConfig(m)]
        <5>1. d = FlushConfig(m)
          BY <1>0, <2>4, <4>2
        <5> QED BY <2>2, <5>1 DEF FlushConfig
      <4> QED BY <2>2, <4>1, <4>2
    <3> QED BY <1>0, <2>2, <2>3, <3>2, <3>3
  <2>6. /\ x.leaderEpoch <= x.epoch /\ d.epoch <= x.epoch
        /\ elected \subseteq elected' /\ \A a \in elected' \ elected : a.by = s /\ a.epoch <= d.epoch
    BY <1>0, <2>2, <2>3, <2>4
  <2> QED BY <2>2, <2>3, <2>4, <2>5, <2>6, EpochBecomes
<1> QED BY <1>2, <1>3, <1>4, <1>5, <1>6, <1>7, <1>8, <1>9


-----------------------------------------------------------------------------
(* Configurations *)

(* A config epoch is that of an election, and who goes ahead was elected   *)
(* for the epoch of its failover.                                          *)
Used(c) == c = 0 \/ \E a \in elected : a.epoch = c

UsedInv ==
    \A s \in Sentinels :
        /\ Used(sen[s].config) /\ Used(disk[s].config)
        /\ sen[s].state \in Ahead =>
             /\ sen[s].failoverEpoch > 0
             /\ \E a \in elected : a.by = s /\ a.epoch = sen[s].failoverEpoch

(* No Sentinel has the config epoch c. *)
Fresh(c) == \A t \in Sentinels : sen[t].config # c /\ disk[t].config # c

(* As long as elections do not collide and no promotion is undone, every   *)
(* config epoch has one master, in the memories and in the files, and the  *)
(* epoch of a failover that is under way is not yet taken.                 *)
Calm == ~undone /\ \A a, b \in elected : a.epoch = b.epoch => a.by = b.by

Named(m) ==
    \A s \in Sentinels : /\ CurrentAddress(sen[s]) = m[sen[s].config]
                         /\ disk[s].addr = m[disk[s].config]

ConfigInv ==
    Calm => /\ \A s \in Sentinels : sen[s].state \in Ahead => Fresh(sen[s].failoverEpoch)
            /\ \E m \in [Epochs -> Servers] : Named(m)

(* Some Sentinel has the configuration (c, a) in memory or on disk. *)
Held(c, a) ==
    \E t \in Sentinels : \/ c = sen[t].config /\ a = CurrentAddress(sen[t])
                         \/ c = disk[t].config /\ a = disk[t].addr

LEMMA ConfigInit == ElInit => UsedInv /\ ConfigInv
<1> SUFFICES ASSUME ElInit PROVE UsedInv /\ ConfigInv
  OBVIOUS
<1>1. \A s \in Sentinels : /\ sen[s].config = 0 /\ sen[s].addr = FirstMaster
                           /\ sen[s].state = "none" /\ disk[s] = FlushConfig(sen[s])
  BY DEF ElInit
<1>2. \A n : FlushConfig(n).config = n.config /\ FlushConfig(n).addr = CurrentAddress(n)
  BY DEF FlushConfig
<1>3. \A s \in Sentinels : /\ disk[s].config = 0 /\ disk[s].addr = FirstMaster
                           /\ CurrentAddress(sen[s]) = FirstMaster
  BY <1>1, <1>2 DEF CurrentAddress
<1> DEFINE m == [c \in Epochs |-> FirstMaster]
<1>4. m \in [Epochs -> Servers] /\ m[0] = FirstMaster
  BY ElectionAssumption DEF Epochs
<1>5. Named(m)
  BY <1>1, <1>3, <1>4 DEF Named
<1> HIDE DEF m
<1> QED BY <1>1, <1>3, <1>4, <1>5 DEF UsedInv, ConfigInv, Used, Ahead

(* The memory of s becomes x and its file d, both with a configuration     *)
(* that was there before; a failover may have been won.                    *)
LEMMA ConfigBecomes ==
    ASSUME BaseInv, UsedInv, ConfigInv, NEW s \in Sentinels, NEW x, NEW d,
           sen' = [sen EXCEPT ![s] = x], disk' = [disk EXCEPT ![s] = d],
           elected \subseteq elected', undone => undone',
           \E t \in Sentinels : x.config \in {sen[t].config, disk[t].config},
           \E t \in Sentinels : d.config \in {sen[t].config, disk[t].config},
           ~undone' => Held(x.config, CurrentAddress(x)) /\ Held(d.config, d.addr),
           x.state \in Ahead =>
             \/ sen[s].state \in Ahead /\ x.failoverEpoch = sen[s].failoverEpoch
             \/ /\ x.failoverEpoch > 0
                /\ \E a \in elected' : a.by = s /\ a.epoch = x.failoverEpoch
                /\ \A a \in elected : a.by = s => a.epoch # x.failoverEpoch
    PROVE  UsedInv' /\ ConfigInv'
<1>0. /\ sen \in [Sentinels -> Memory] /\ disk \in [Sentinels -> Saved]
  BY DEF BaseInv, ElTypeOK
<1>1. /\ sen'[s] = x /\ disk'[s] = d
      /\ \A t \in Sentinels : t # s => sen'[t] = sen[t] /\ disk'[t] = disk[t]
  BY <1>0
<1>2. \A c : Used(c) => Used(c)'
  BY DEF Used
<1>3. Used(x.config)' /\ Used(d.config)'
  BY <1>2 DEF UsedInv
<1>4. ASSUME NEW t \in Sentinels, sen'[t].state \in Ahead
      PROVE  /\ sen'[t].failoverEpoch > 0
             /\ \E a \in elected' : a.by = t /\ a.epoch = sen'[t].failoverEpoch
  <2>1. CASE t = s
    BY <1>1, <1>4, <2>1 DEF UsedInv
  <2>2. CASE t # s
    BY <1>1, <1>4, <2>2 DEF UsedInv
  <2> QED BY <2>1, <2>2
<1>5. UsedInv'
  <2>1. ASSUME NEW t \in Sentinels
        PROVE  Used(sen[t].config)' /\ Used(disk[t].config)'
    <3>1. CASE t = s
      BY <1>1, <1>3, <3>1
    <3>2. CASE t # s
      <4>1. Used(sen[t].config) /\ Used(disk[t].config)
        BY DEF UsedInv
      <4> QED BY <1>1, <1>2, <3>2, <4>1
    <3> QED BY <3>1, <3>2
  <2> QED BY <1>4, <2>1 DEF UsedInv, Used
<1>6. ASSUME Calm'
      PROVE  /\ \A t \in Sentinels : sen'[t].state \in Ahead => Fresh(sen[t].failoverEpoch)'
             /\ \E m \in [Epochs -> Servers] : Named(m)'
  <2>1. Calm /\ ~undone'
    BY <1>6 DEF Calm
  <2>2. \A t \in Sentinels : sen[t].state \in Ahead => Fresh(sen[t].failoverEpoch)
    BY <2>1 DEF ConfigInv
  <2>3. PICK m \in [Epochs -> Servers] : Named(m)
    BY <2>1 DEF ConfigInv
  <2>4. \A c : Fresh(c) => Fresh(c)'
    <3> SUFFICES ASSUME NEW c, Fresh(c), NEW t \in Sentinels
                 PROVE  sen'[t].config # c /\ disk'[t].config # c
      BY DEF Fresh
    <3>1. CASE t = s
      BY <1>1, <3>1 DEF Fresh
    <3>2. CASE t # s
      BY <1>1, <3>2 DEF Fresh
    <3> QED BY <3>1, <3>2
  <2>5. ASSUME NEW t \in Sentinels, sen'[t].state \in Ahead PROVE Fresh(sen'[t].failoverEpoch)
    <3>1. CASE sen[t].state \in Ahead /\ sen'[t].failoverEpoch = sen[t].failoverEpoch
      BY <2>2, <3>1
    <3>2. CASE /\ t = s
               /\ x.failoverEpoch > 0
               /\ \E a \in elected' : a.by = s /\ a.epoch = x.failoverEpoch
               /\ \A a \in elected : a.by = s => a.epoch # x.failoverEpoch
      <4>1. PICK b \in elected' : b.by = s /\ b.epoch = x.failoverEpoch
        BY <3>2
      <4>2. ~Used(x.failoverEpoch)
        <5>1. x.failoverEpoch # 0
          BY <3>2
        <5>2. ASSUME NEW a \in elected, a.epoch = x.failoverEpoch PROVE FALSE
          <6>1. a.by = b.by
            BY <1>6, <4>1, <5>2 DEF Calm
          <6> QED BY <3>2, <4>1, <5>2, <6>1
        <5> QED BY <5>1, <5>2 DEF Used
      <4>3. \A u \in Sentinels : Used(sen[u].config) /\ Used(disk[u].config)
        BY DEF UsedInv
      <4>4. Fresh(x.failoverEpoch)
        BY <4>2, <4>3 DEF Fresh
      <4> QED BY <1>1, <3>2, <4>4
    <3>3. CASE t # s
      BY <1>1, <2>5, <3>1, <3>3
    <3> QED BY <1>1, <2>5, <3>1, <3>2, <3>3
  <2>6. \A c, a : Held(c, a) => a = m[c]
    BY <2>3 DEF Held, Named
  <2>7. Named(m)'
    <3> SUFFICES ASSUME NEW t \in Sentinels
                 PROVE  /\ CurrentAddress(sen'[t]) = m[sen'[t].config]
                        /\ disk'[t].addr = m[disk'[t].config]
      BY DEF Named, CurrentAddress
    <3>1. CASE t = s
      BY <1>1, <2>1, <2>6, <3>1
    <3>2. CASE t # s
      BY <1>1, <2>3, <3>2 DEF Named
    <3> QED BY <3>1, <3>2
  <2> QED BY <2>4, <2>5, <2>7
<1> QED BY <1>5, <1>6 DEF ConfigInv

(* The promotion is seen: the epoch of the failover gets its master. *)
LEMMA ConfigPromotion ==
    ASSUME BaseInv, UsedInv, ConfigInv, NEW s \in Sentinels, PromotionSeen(s)
    PROVE  UsedInv' /\ ConfigInv'
<1> DEFINE n == sen[s]
           c == n.failoverEpoch
           x == [n EXCEPT !.state = "reconf_slaves", !.config = c]
<1>0. sen \in [Sentinels -> Memory] /\ disk \in [Sentinels -> Saved] /\ Sound(s, n)
  BY DEF BaseInv, ElTypeOK
<1>1. /\ n.state = "wait_promotion" /\ sen' = [sen EXCEPT ![s] = x]
      /\ disk' = [disk EXCEPT ![s] = FlushConfig(x)] /\ elected' = elected /\ undone' = undone
  BY DEF PromotionSeen, Becomes
<1>2. /\ x.state = "reconf_slaves" /\ x.config = c /\ x.promoted = n.promoted
      /\ n.promoted \in Servers /\ c \in Epochs
  BY <1>0, <1>1 DEF Sound, Memory, Selected
<1> HIDE DEF x
<1> DEFINE d == FlushConfig(x)
<1>3. CurrentAddress(x) = n.promoted /\ d.config = c /\ d.addr = n.promoted
  BY <1>2 DEF FlushConfig, CurrentAddress
<1>4. /\ sen'[s] = x /\ disk'[s] = d
      /\ \A t \in Sentinels : t # s => sen'[t] = sen[t] /\ disk'[t] = disk[t]
  BY <1>0, <1>1
<1> HIDE DEF d
<1>5. c > 0 /\ \E a \in elected : a.by = s /\ a.epoch = c
  BY <1>1 DEF UsedInv, Ahead
<1>6. UsedInv'
  <2>1. ASSUME NEW t \in Sentinels
        PROVE  Used(sen'[t].config) /\ Used(disk'[t].config)
    <3>1. CASE t = s
      BY <1>2, <1>3, <1>4, <1>5, <3>1 DEF Used
    <3>2. CASE t # s
      BY <1>4, <3>2 DEF UsedInv
    <3> QED BY <3>1, <3>2
  <2>2. ASSUME NEW t \in Sentinels, sen'[t].state \in Ahead
        PROVE  /\ sen'[t].failoverEpoch > 0
               /\ \E a \in elected : a.by = t /\ a.epoch = sen'[t].failoverEpoch
    <3>1. t # s
      BY <1>2, <1>4, <2>2 DEF Ahead
    <3> QED BY <1>4, <2>2, <3>1 DEF UsedInv
  <2> QED BY <1>1, <2>1, <2>2 DEF UsedInv, Used
<1>7. ASSUME Calm'
      PROVE  /\ \A t \in Sentinels : sen'[t].state \in Ahead => Fresh(sen[t].failoverEpoch)'
             /\ \E m \in [Epochs -> Servers] : Named(m)'
  <2>1. Calm
    BY <1>1, <1>7 DEF Calm
  <2>2. \A t \in Sentinels : sen[t].state \in Ahead => Fresh(sen[t].failoverEpoch)
    BY <2>1 DEF ConfigInv
  <2>3. PICK m \in [Epochs -> Servers] : Named(m)
    BY <2>1 DEF ConfigInv
  <2>4. Fresh(c)
    BY <1>1, <2>2 DEF Ahead
  <2>5. ASSUME NEW t \in Sentinels, sen'[t].state \in Ahead
        PROVE  Fresh(sen[t].failoverEpoch)'
    <3>1. t # s /\ sen'[t] = sen[t]
      BY <1>2, <1>4, <2>5 DEF Ahead
    <3>2. PICK a \in elected : a.by = t /\ a.epoch = sen[t].failoverEpoch
      BY <2>5, <3>1 DEF UsedInv
    <3>3. PICK b \in elected : b.by = s /\ b.epoch = c
      BY <1>5
    <3>4. sen[t].failoverEpoch # c
      BY <2>1, <3>1, <3>2, <3>3 DEF Calm
    <3>5. Fresh(sen[t].failoverEpoch)
      BY <2>2, <2>5, <3>1
    <3>6. ASSUME NEW u \in Sentinels
          PROVE  sen'[u].config # sen[t].failoverEpoch /\ disk'[u].config # sen[t].failoverEpoch
      <4>1. CASE u = s
        BY <1>2, <1>3, <1>4, <3>4, <4>1
      <4>2. CASE u # s
        BY <1>4, <3>5, <4>2 DEF Fresh
      <4> QED BY <4>1, <4>2
    <3> QED BY <3>1, <3>6 DEF Fresh
  <2>a. [m EXCEPT ![c] = n.promoted] \in [Epochs -> Servers]
    BY <1>2
  <2>b. PICK k \in [Epochs -> Servers] : k = [m EXCEPT ![c] = n.promoted]
    BY <2>a
  <2>6. k \in [Epochs -> Servers] /\ k[c] = n.promoted /\ \A e \in Epochs : e # c => k[e] = m[e]
    BY <1>2, <2>b
  <2>7. Named(k)'
    <3> SUFFICES ASSUME NEW t \in Sentinels
                 PROVE  /\ CurrentAddress(sen'[t]) = k[sen'[t].config]
                        /\ disk'[t].addr = k[disk'[t].config]
      BY DEF Named, CurrentAddress
    <3>1. CASE t = s
      BY <1>2, <1>3, <1>4, <2>6, <3>1
    <3>2. CASE t # s
      <4>1. sen[t].config \in Epochs /\ disk[t].config \in Epochs
        BY <1>0 DEF Memory, Saved
      <4>2. sen[t].config # c /\ disk[t].config # c
        BY <2>4 DEF Fresh
      <4>3. CurrentAddress(sen[t]) = m[sen[t].config] /\ disk[t].addr = m[disk[t].config]
        BY <2>3 DEF Named
      <4> QED BY <1>4, <2>6, <3>2, <4>1, <4>2, <4>3
    <3> QED BY <3>1, <3>2
  <2> QED BY <2>5, <2>6, <2>7
<1> QED BY <1>6, <1>7 DEF ConfigInv

LEMMA ConfigUnchanged ==
    ASSUME UsedInv, ConfigInv, UNCHANGED <<sen, disk, elected, undone>>
    PROVE  UsedInv' /\ ConfigInv'
BY DEF UsedInv, ConfigInv, Used, Calm, Fresh, Named, CurrentAddress

(* The file of s is as it was, or has the configuration of x. *)
LEMMA FileHeld ==
    ASSUME BaseInv, NEW s \in Sentinels, NEW x,
           disk' = disk \/ disk' = [disk EXCEPT ![s] = FlushConfig(x)],
           \E t \in Sentinels : x.config \in {sen[t].config, disk[t].config},
           ~undone' => Held(x.config, CurrentAddress(x))
    PROVE  \E d : /\ disk' = [disk EXCEPT ![s] = d]
                  /\ \E t \in Sentinels : d.config \in {sen[t].config, disk[t].config}
                  /\ ~undone' => Held(d.config, d.addr)
<1>1. CASE disk' = disk
  <2>1. disk' = [disk EXCEPT ![s] = disk[s]]
    BY <1>1 DEF BaseInv, ElTypeOK
  <2>2. Held(disk[s].config, disk[s].addr)
    BY DEF Held
  <2> QED BY <2>1, <2>2
<1>2. CASE disk' = [disk EXCEPT ![s] = FlushConfig(x)]
  <2>1. FlushConfig(x).config = x.config /\ FlushConfig(x).addr = CurrentAddress(x)
    BY DEF FlushConfig
  <2> QED BY <1>2, <2>1
<1> QED BY <1>1, <1>2

LEMMA ConfigStep ==
    ASSUME BaseInv, EpochInv, UsedInv, ConfigInv, [ElNext]_elVars
    PROVE  UsedInv' /\ ConfigInv'
<1>1. CASE UNCHANGED elVars
  BY <1>1, ConfigUnchanged DEF elVars
<1> SUFFICES ASSUME ElNext PROVE UsedInv' /\ ConfigInv'
  BY <1>1
<1> PICK s \in Sentinels :
      \/ PlainAction(s) \/ StartFailover(s) \/ Elect(s) \/ FailoverCommand(s)
      \/ PromotionSeen(s) \/ ResetCommand(s) \/ Restart(s)
      \/ \E t \in Sentinels : ReceiveHello(s, t)
  BY StepCases
<1> DEFINE n == sen[s]
<1>0. /\ Sound(s, n) /\ n.leaderEpoch <= n.epoch /\ n.epoch \in Int
      /\ disk \in [Sentinels -> Saved] /\ sen \in [Sentinels -> Memory]
  BY DEF BaseInv, EpochInv, ElTypeOK, Sound, Memory, Epochs
<1>a. ASSUME NEW x, sen' = [sen EXCEPT ![s] = x],
             disk' = disk \/ disk' = [disk EXCEPT ![s] = FlushConfig(x)],
             elected \subseteq elected', undone => undone', x.config = n.config,
             ~undone' => CurrentAddress(x) = CurrentAddress(n),
             x.state \in Ahead =>
               \/ n.state \in Ahead /\ x.failoverEpoch = n.failoverEpoch
               \/ /\ x.failoverEpoch > 0
                  /\ \E a \in elected' : a.by = s /\ a.epoch = x.failoverEpoch
                  /\ \A a \in elected : a.by = s => a.epoch # x.failoverEpoch
      PROVE  UsedInv' /\ ConfigInv'
  <2>1. \E t \in Sentinels : x.config \in {sen[t].config, disk[t].config}
    BY <1>a
  <2>2. ~undone' => Held(x.config, CurrentAddress(x))
    BY <1>a DEF Held
  <2>3. PICK d : /\ disk' = [disk EXCEPT ![s] = d]
                 /\ \E t \in Sentinels : d.config \in {sen[t].config, disk[t].config}
                 /\ ~undone' => Held(d.config, d.addr)
    BY <1>a, <2>1, <2>2, FileHeld
  <2> QED BY <1>a, <2>1, <2>2, <2>3, ConfigBecomes
<1>2. CASE PlainAction(s)
  <2>1. PICK x : Plain(s, x)
    BY <1>2, PlainStep
  <2>2. /\ sen' = [sen EXCEPT ![s] = x] /\ UNCHANGED <<elected, undone>>
        /\ x.config = n.config /\ CurrentAddress(x) = CurrentAddress(n)
        /\ x.failoverEpoch = n.failoverEpoch
        /\ disk' = disk \/ disk' = [disk EXCEPT ![s] = FlushConfig(x)]
        /\ x.state \in Ahead => n.state \in Ahead
    BY <2>1 DEF Plain
  <2> QED BY <1>a, <2>2
<1>b. ASSUME NEW m, Sound(s, m), NEW x, WaitStartKeeps(s, m, x), undone' = undone,
             m.config = n.config, m.addr = n.addr, n.state \in {"none", "wait_start"},
             0 < m.failoverEpoch, \A a \in elected : a.by = s => a.epoch < m.failoverEpoch
      PROVE  UsedInv' /\ ConfigInv'
  <2>1. /\ sen' = [sen EXCEPT ![s] = x] /\ x.config = n.config /\ x.addr = n.addr
        /\ x.failoverEpoch = m.failoverEpoch
        /\ disk' = disk \/ disk' = [disk EXCEPT ![s] = FlushConfig(x)]
        /\ \/ x.state \in {"none", "wait_start"} /\ UNCHANGED elected
           \/ /\ x.state = "select_slave"
              /\ \E p \in BOOLEAN :
                    elected' = elected \cup {[by |-> s, epoch |-> m.failoverEpoch, proper |-> p]}
    BY <1>b DEF WaitStartKeeps
  <2>2. CurrentAddress(x) = CurrentAddress(n)
    BY <1>b, <2>1 DEF CurrentAddress
  <2>3. elected \subseteq elected'
    BY <2>1
  <2>4. ASSUME x.state \in Ahead
        PROVE  /\ x.failoverEpoch > 0
               /\ \E a \in elected' : a.by = s /\ a.epoch = x.failoverEpoch
               /\ \A a \in elected : a.by = s => a.epoch # x.failoverEpoch
    <3>1. m.failoverEpoch \in Int
      BY <1>b DEF Sound, Memory, Epochs
    <3>2. PICK p \in BOOLEAN :
            elected' = elected \cup {[by |-> s, epoch |-> m.failoverEpoch, proper |-> p]}
      BY <2>1, <2>4 DEF Ahead
    <3> DEFINE b == [by |-> s, epoch |-> m.failoverEpoch, proper |-> p]
    <3>a. b \in elected' /\ b.by = s /\ b.epoch = m.failoverEpoch
      BY <3>2
    <3> HIDE DEF b
    <3>3. \E a \in elected' : a.by = s /\ a.epoch = m.failoverEpoch
      BY <3>a
    <3>4. \A a \in elected : a.by = s => a.epoch # m.failoverEpoch
      BY <1>b, <3>1
    <3> QED BY <1>b, <2>1, <3>1, <3>3, <3>4
  <2> QED BY <1>a, <1>b, <2>1, <2>2, <2>3, <2>4
<1>3. CASE StartFailover(s)
  <2> DEFINE m == Started(n)
  <2>1. WaitStart(s, m) /\ n.state = "none" /\ n.epoch < MaxEpoch /\ undone' = undone
    BY <1>3 DEF StartFailover
  <2>2. /\ Sound(s, m) /\ m.leaderEpoch = n.leaderEpoch
        /\ m.epoch = n.epoch + 1 /\ m.failoverEpoch = n.epoch + 1
        /\ m.state = "wait_start"
    BY <1>0, <2>1, StartedSound DEF SameVotes
  <2>3. m.config = n.config /\ m.addr = n.addr
    BY <1>0 DEF Started, Sound, Memory
  <2> HIDE DEF m
  <2>4. 0 <= n.epoch /\ n.leaderEpoch \in Int
    BY <1>0 DEF Sound, Memory, Epochs
  <2>5. PICK x : WaitStartKeeps(s, m, x)
    <3>1. m.leaderEpoch <= m.epoch
      BY <1>0, <2>2, <2>4
    <3> QED BY <2>1, <2>2, <3>1, WaitStartShapeKeeps
  <2>6. 0 < m.failoverEpoch /\ \A a \in elected : a.by = s => a.epoch < m.failoverEpoch
    BY <1>0, <2>2, <2>4, NewEpoch
  <2> QED BY <1>b, <2>1, <2>2, <2>3, <2>5, <2>6
<1>4. CASE Elect(s)
  <2>1. n.state = "wait_start" /\ WaitStart(s, n) /\ undone' = undone
    BY <1>4 DEF Elect
  <2>2. PICK x : WaitStartKeeps(s, n, x)
    BY <1>0, <2>1, WaitStartShapeKeeps
  <2>3. 0 < n.failoverEpoch /\ \A a \in elected : a.by = s => a.epoch < n.failoverEpoch
    BY <2>1 DEF EpochInv, Waits
  <2> QED BY <1>0, <1>b, <2>1, <2>2, <2>3
<1>5. CASE FailoverCommand(s)
  <2> DEFINE m == Started(n)
             x == [m EXCEPT !.forced = TRUE]
  <2>1. /\ n.state = "none" /\ n.epoch < MaxEpoch /\ Becomes(s, x, FALSE)
        /\ elected' = elected /\ undone' = undone
    BY <1>5 DEF FailoverCommand
  <2>2. /\ Sound(s, m) /\ m.state = "wait_start" /\ m.config = n.config /\ m.addr = n.addr
    BY <1>0, <2>1, StartedSound DEF Started, Sound, Memory
  <2> HIDE DEF m
  <2>3. x.config = n.config /\ x.addr = n.addr /\ x.state = "wait_start"
    BY <2>2 DEF Sound, Memory
  <2>4. sen' = [sen EXCEPT ![s] = x] /\ disk' = disk
    BY <2>1 DEF Becomes
  <2> HIDE DEF x
  <2>5. CurrentAddress(x) = CurrentAddress(n)
    BY <2>1, <2>3 DEF CurrentAddress
  <2> QED BY <1>a, <2>1, <2>3, <2>4, <2>5 DEF Ahead
<1>6. CASE PromotionSeen(s)
  BY <1>6, ConfigPromotion
<1>7. CASE ResetCommand(s)
  <2> DEFINE r == ResetMaster(n)
             x == [r EXCEPT !.known = {}, !.peer = [t \in Sentinels |-> NoVote]]
  <2>1. /\ Becomes(s, x, FALSE) /\ elected' = elected
        /\ undone' = (undone \/ n.state = "reconf_slaves")
    BY <1>7 DEF ResetCommand
  <2>2. Sound(s, r) /\ r.config = n.config /\ r.addr = n.addr /\ r.state = "none"
    BY <1>0, ResetMasterSound DEF ResetMaster, NoFailover, Sound, Memory
  <2> HIDE DEF r
  <2>3. x.config = n.config /\ x.addr = n.addr /\ x.state = "none"
    BY <2>2 DEF Sound, Memory
  <2>4. sen' = [sen EXCEPT ![s] = x] /\ disk' = disk
    BY <2>1 DEF Becomes
  <2> HIDE DEF x
  <2>5. ~undone' => CurrentAddress(x) = CurrentAddress(n)
    BY <2>1, <2>3 DEF CurrentAddress
  <2>6. undone => undone'
    BY <2>1
  <2> QED BY <1>a, <2>1, <2>3, <2>4, <2>5, <2>6 DEF Ahead
<1>8. CASE Restart(s)
  <2> DEFINE d == disk[s]
             x == Restarted(d)
  <2>1. sen' = [sen EXCEPT ![s] = x] /\ disk' = disk /\ elected' = elected /\ undone' = undone
    BY <1>8 DEF Restart, Restarted
  <2>2. x.config = d.config /\ CurrentAddress(x) = d.addr /\ x.state = "none"
    BY DEF Restarted, CurrentAddress
  <2>3. disk' = [disk EXCEPT ![s] = d]
    BY <1>0, <2>1
  <2> HIDE DEF x
  <2>4. Held(x.config, CurrentAddress(x)) /\ Held(d.config, d.addr)
    BY <2>2 DEF Held
  <2>5. \E t \in Sentinels : x.config \in {sen[t].config, disk[t].config}
    BY <2>2
  <2>6. \E t \in Sentinels : d.config \in {sen[t].config, disk[t].config}
    OBVIOUS
  <2> HIDE DEF d
  <2> QED BY <2>1, <2>2, <2>3, <2>4, <2>5, <2>6, ConfigBecomes DEF Ahead
<1>9. ASSUME NEW t \in Sentinels, ReceiveHello(s, t) PROVE UsedInv' /\ ConfigInv'
  <2>1. PICK x, m : HelloKeeps(t, s, x, m)
    BY <1>9, HelloShapeKeeps
  <2>2. /\ sen' = [sen EXCEPT ![s] = x]
        /\ disk' = disk \/ disk' = [disk EXCEPT ![s] = FlushConfig(m)]
        /\ x.failoverEpoch = n.failoverEpoch /\ x.state \in {"none", n.state}
        /\ x.config \in {n.config, sen[t].config} /\ m.config \in {n.config, sen[t].config}
        /\ ~undone' => /\ ConfigOf(x, t) \/ ConfigOf(x, s)
                       /\ ConfigOf(m, t) \/ ConfigOf(m, s)
    BY <2>1 DEF HelloKeeps
  <2>3. elected' = elected /\ (undone => undone')
    BY <1>9 DEF ReceiveHello
  <2>4. \A k : ConfigOf(k, t) \/ ConfigOf(k, s) => Held(k.config, CurrentAddress(k))
    BY DEF ConfigOf, Held
  <2>5. \E u \in Sentinels : x.config \in {sen[u].config, disk[u].config}
    BY <2>2
  <2>6. \E u \in Sentinels : m.config \in {sen[u].config, disk[u].config}
    BY <2>2
  <2>7. PICK d : /\ disk' = [disk EXCEPT ![s] = d]
                 /\ \E u \in Sentinels : d.config \in {sen[u].config, disk[u].config}
                 /\ ~undone' => Held(d.config, d.addr)
    BY <2>2, <2>4, <2>6, FileHeld
  <2>8. x.state \in Ahead => n.state \in Ahead
    BY <2>2 DEF Ahead
  <2> QED BY <2>2, <2>3, <2>4, <2>5, <2>7, <2>8, ConfigBecomes
<1> QED BY <1>2, <1>3, <1>4, <1>5, <1>6, <1>7, <1>8, <1>9

(* Two Sentinels with the same config epoch name the same master, for any  *)
(* number of Sentinels and of restarts, as long as no two went ahead with  *)
(* a failover of one epoch (forced and late elections included) and no     *)
(* promotion was undone (PromotionSeen, ReceiveHello, Restart).  No quorum *)
(* is assumed.                                                             *)
THEOREM ConfigIsUnique == ElSpec => []SameEpochSameMaster
<1>1. BaseInv /\ ConfigInv => SameEpochSameMaster
  <2> SUFFICES ASSUME BaseInv, ConfigInv, Calm, NEW s \in Sentinels, NEW t \in Sentinels,
                      sen[s].config = sen[t].config
               PROVE  CurrentAddress(sen[s]) = CurrentAddress(sen[t])
    BY DEF SameEpochSameMaster, Calm, BaseInv, ElTypeOK
  <2>1. PICK m \in [Epochs -> Servers] : Named(m)
    BY DEF ConfigInv
  <2> QED BY <2>1 DEF Named
<1> QED BY <1>1, BaseInit, BaseStep, EpochInit, EpochStep, ConfigInit, ConfigStep, PTL DEF ElSpec
=============================================================================
