------------------------ MODULE EventLifecycleProofs ------------------------
(***************************************************************************)
(* The safety properties of EventLifecycle for every set of events,        *)
(* threads and jobs and every bound.                                       *)
(***************************************************************************)
EXTENDS EventLifecycle, FiniteSetTheorems, TLAPS

USE BoundsAssumption, NoneAssumption

-----------------------------------------------------------------------------
(* Facts about single jobs and passes.                                     *)

(* A job that is not "none" is a live job about an event of the table. *)
LEMMA LiveJobType ==
    ASSUME NEW r \in MonitorJob, r.pc # "none"
    PROVE  /\ r.pc \in Live
           /\ r.event \in Events
           /\ r.waited \in 0..MaxWait
           /\ r.tries \in 0..MaxRetry
BY DEF MonitorJob, NoJob

(* Goto moves one job between two live program counters and changes        *)
(* nothing else of it.                                                     *)
LEMMA GotoType ==
    ASSUME job \in [Jobs -> MonitorJob], NEW j \in Jobs, NEW from \in Live, NEW to \in Live,
           Goto(j, from, to)
    PROVE  /\ job' \in [Jobs -> MonitorJob]
           /\ job[j].event \in Events
           /\ job[j].pc = from
           /\ job'[j].pc = to
           /\ \A i \in Jobs : job'[i].event = job[i].event
           /\ \A i \in Jobs : i # j => job'[i] = job[i]
<1>1. job[j] \in MonitorJob /\ job[j].pc = from /\ from # "none"
  BY DEF Goto, Live, Running
<1>2. job[j].event \in Events /\ job[j] \in [pc : Live, event : Events, waited : 0..MaxWait, tries : 0..MaxRetry]
  BY <1>1 DEF MonitorJob, NoJob
<1>3. [job[j] EXCEPT !.pc = to] \in MonitorJob
  BY <1>2 DEF MonitorJob
<1>4. job' = [job EXCEPT ![j] = [job[j] EXCEPT !.pc = to]]
  BY DEF Goto
<1>5. [job[j] EXCEPT !.pc = to].event = job[j].event /\ [job[j] EXCEPT !.pc = to].pc = to
  BY <1>2
<1> QED BY <1>1, <1>2, <1>3, <1>4, <1>5

(* Every variable of EventLifecycle keeps its type: in particular no job   *)
(* waits longer than MaxWait or is retried more than MaxRetry times.       *)
THEOREM TypeCorrect == Spec => []TypeOK
<1>1. Init => TypeOK
  BY DEF Init, TypeOK, Idle, MonitorJob, OddsPass, EventRow, Statuses
<1>2. TypeOK /\ [Next]_vars => TypeOK'
  <2> SUFFICES ASSUME TypeOK, [Next]_vars PROVE TypeOK'
    OBVIOUS
  <2> USE DEF TypeOK
  <2>0. {"queued", "retry", "wait", "claim", "kickoff", "play", "close", "record", "finish"} = Live
    BY DEF Live, Running
  <2>1. ASSUME NEW e \in Events, Approach(e) PROVE TypeOK'
    BY <2>1 DEF Approach
  <2>s. \A E : SlipsWith(E) \in [Events -> 0..MaxSlips]
    BY DEF SlipsWith
  <2>2. ASSUME NEW w \in OddsThreads, Scan(w) PROVE TypeOK'
    BY <2>2, <2>s DEF Scan, Read, StartingNow, OddsPass
  <2>3. ASSUME NEW w \in OddsThreads, NEW e \in Events, NEW j \in Jobs, PerformAsync(w, e, j)
        PROVE TypeOK'
    <3>1. [pc |-> "queued", event |-> e, waited |-> 0, tries |-> 0] \in MonitorJob
      BY <2>0 DEF MonitorJob
    <3>2. odds' \in [OddsThreads -> OddsPass]
      BY <2>3 DEF PerformAsync, OddsPass, Idle
    <3> QED BY <2>3, <3>1, <3>2 DEF PerformAsync
  <2>4. ASSUME NEW w \in OddsThreads, Save(w) PROVE TypeOK'
    <3>1. odds[w].cur \in Events /\ odds[w].todo \in SUBSET Events
      BY <2>4 DEF Save, OddsPass, Idle
    <3>2. row' \in [Events -> EventRow]
      BY <2>4, <3>1 DEF Save, EventRow
    <3>3. odds' \in [OddsThreads -> OddsPass]
      BY <2>4, <3>1 DEF Save, OddsPass, Idle
    <3> QED BY <2>4, <3>2, <3>3 DEF Save
  <2>5. ASSUME NEW w \in OddsThreads, EndPass(w) \/ Interrupt(w) PROVE TypeOK'
    BY <2>5, <2>s DEF EndPass, Interrupt, OddsPass
  <2>6. ASSUME NEW j \in Jobs, JobStep(j) PROVE TypeOK'
    <3>1. CASE Fetch(j)
      <4>1. job' \in [Jobs -> MonitorJob] /\ job[j].event \in Events
        <5>1. Goto(j, "queued", "wait")
          BY <3>1 DEF Fetch
        <5> QED BY <5>1, <2>0, GotoType
      <4> QED BY <3>1, <4>1 DEF Fetch
    <3>2. CASE EmptyTimeline(j)
      <4>1. [job[j] EXCEPT !.waited = @ + 1] \in MonitorJob
        BY <3>2 DEF EmptyTimeline, MonitorJob, NoJob
      <4> QED BY <3>2, <4>1 DEF EmptyTimeline
    <3>3. CASE GiveUpWaiting(j)
      <4>1. job' \in [Jobs -> MonitorJob] /\ job[j].event \in Events
        <5>1. Goto(j, "wait", "finish")
          BY <3>3 DEF GiveUpWaiting
        <5> QED BY <5>1, <2>0, GotoType
      <4> QED BY <3>3, <4>1 DEF GiveUpWaiting
    <3>4. CASE MatchOnline(j)
      <4>1. job' \in [Jobs -> MonitorJob] /\ job[j].event \in Events
        <5>1. Goto(j, "wait", "claim")
          BY <3>4 DEF MatchOnline
        <5> QED BY <5>1, <2>0, GotoType
      <4> QED BY <3>4, <4>1 DEF MatchOnline
    <3>5. CASE ClaimKey(j)
      <4>1. job' \in [Jobs -> MonitorJob] /\ job[j].event \in Events
        <5>1. Goto(j, "claim", "kickoff")
          BY <3>5 DEF ClaimKey
        <5> QED BY <5>1, <2>0, GotoType
      <4> QED BY <3>5, <4>1 DEF ClaimKey
    <3>6. CASE KickOff(j)
      <4>1. job' \in [Jobs -> MonitorJob] /\ job[j].event \in Events
        <5>1. Goto(j, "kickoff", "play")
          BY <3>6 DEF KickOff
        <5> QED BY <5>1, <2>0, GotoType
      <4>2. row' \in [Events -> EventRow]
        BY <3>6, <4>1 DEF KickOff, EventRow, Statuses
      <4> QED BY <3>6, <4>1, <4>2 DEF KickOff
    <3>7. ASSUME NEW over \in BOOLEAN, Poll(j, over) PROVE TypeOK'
      <4>1. job' \in [Jobs -> MonitorJob] /\ job[j].event \in Events
        <5>1. PICK to \in {"close", "play"} : Goto(j, "play", to)
          BY <3>7 DEF Poll
        <5> QED BY <5>1, <2>0, GotoType
      <4> QED BY <3>7, <4>1 DEF Poll
    <3>8. CASE DeleteKey(j)
      <4>1. job' \in [Jobs -> MonitorJob] /\ job[j].event \in Events
        <5>1. Goto(j, "close", "record")
          BY <3>8 DEF DeleteKey
        <5> QED BY <5>1, <2>0, GotoType
      <4> QED BY <3>8, <4>1 DEF DeleteKey
    <3>9. CASE RecordUpdates(j)
      <4>1. job' \in [Jobs -> MonitorJob] /\ job[j].event \in Events
        <5>1. Goto(j, "record", "finish")
          BY <3>9 DEF RecordUpdates
        <5> QED BY <5>1, <2>0, GotoType
      <4> QED BY <3>9, <4>1 DEF RecordUpdates
    <3>10. CASE EndEvent(j)
      <4>1. row' \in [Events -> EventRow]
        BY <3>10 DEF EndEvent, EventRow, Statuses
      <4> QED BY <3>10, <4>1 DEF EndEvent, MonitorJob
    <3> QED BY <2>6, <3>1, <3>2, <3>3, <3>4, <3>5, <3>6, <3>7, <3>8, <3>9, <3>10 DEF JobStep
  <2>7. ASSUME NEW j \in Jobs, SidekiqStep(j) PROVE TypeOK'
    <3>1. CASE Raise(j)
      <4>1. [job[j] EXCEPT !.pc = "retry", !.waited = 0, !.tries = @ + 1] \in MonitorJob
        BY <3>1, <2>0 DEF Raise, MonitorJob, NoJob, Running
      <4> QED BY <3>1, <4>1 DEF Raise
    <3>2. CASE Retry(j)
      <4>1. job' \in [Jobs -> MonitorJob] /\ job[j].event \in Events
        <5>1. Goto(j, "retry", "queued")
          BY <3>2 DEF Retry
        <5> QED BY <5>1, <2>0, GotoType
      <4> QED BY <3>2, <4>1 DEF Retry
    <3>3. CASE Exhaust(j)
      <4>1. job[j].event \in Events
        BY <3>3, LiveJobType DEF Exhaust, Running
      <4> QED BY <3>3, <4>1 DEF Exhaust, MonitorJob
    <3> QED BY <2>7, <3>1, <3>2, <3>3 DEF SidekiqStep
  <2>8. CASE Crash
    <3>1. \A j \in Jobs : job[j].pc \in Running => job[j].event \in Events
      BY LiveJobType DEF Running
    <3>2. lost' \subseteq Events
      BY <2>8, <3>1 DEF Crash
    <3>3. job' \in [Jobs -> MonitorJob]
      BY <2>8 DEF Crash, MonitorJob
    <3>4. odds' \in [OddsThreads -> OddsPass]
      BY <2>8 DEF Crash, OddsPass
    <3> QED BY <2>8, <2>s, <3>2, <3>3, <3>4 DEF Crash
  <2>9. CASE UNCHANGED vars
    BY <2>9 DEF vars
  <2> QED BY <2>1, <2>2, <2>3, <2>4, <2>5, <2>6, <2>7, <2>8, <2>9 DEF Next, OddsStep
<1> QED BY <1>1, <1>2, PTL DEF Spec

-----------------------------------------------------------------------------
(* No event is left marked and unattended, whatever overlaps, raises or    *)
(* dies.                                                                   *)

Attended(e) == row[e].status = "ENDED" \/ LiveJobs(e) # {} \/ e \in lost

(* NoSilentAbandon alone is not inductive: Save marks an event the pass    *)
(* queued a job for some time ago. The event in the hands of a pass is     *)
(* attended as well, from perform_async on.                                *)
AbandonInv ==
    /\ \A e \in Events : row[e].monitored \/ row[e].status = "IN_PLAY" => Attended(e)
    /\ \A w \in OddsThreads : odds[w].pc = "save" => Attended(odds[w].cur)

(* A step that moves one job between live program counters keeps every     *)
(* event's set of live jobs.                                               *)
LEMMA GotoLiveJobs ==
    ASSUME job \in [Jobs -> MonitorJob], NEW j \in Jobs, NEW from \in Live, NEW to \in Live,
           Goto(j, from, to)
    PROVE  \A e \in Events : LiveJobs(e)' = LiveJobs(e)
BY GotoType DEF LiveJobs

(* What a step must do to keep AbandonInv: an attended event stays so, and *)
(* every event newly marked, put in play or taken in hand is attended.     *)
LEMMA AttendedStep ==
    ASSUME TypeOK, AbandonInv, TypeOK',
           \A e \in Events : Attended(e) => Attended(e)',
           \A e \in Events : (row'[e] # row[e] /\ (row'[e].monitored \/ row'[e].status = "IN_PLAY"))
                                => Attended(e)',
           \A w \in OddsThreads : (odds'[w] # odds[w] /\ odds'[w].pc = "save")
                                => Attended(odds[w].cur)'
    PROVE  AbandonInv'
<1>1. \A w \in OddsThreads : odds[w].pc = "save" => odds[w].cur \in Events
  BY DEF TypeOK, OddsPass, Idle
<1>2. \A w \in OddsThreads : (odds'[w].pc = "save" => Attended(odds[w].cur)')
  BY <1>1 DEF AbandonInv
<1>3. \A e \in Events : row'[e].monitored \/ row'[e].status = "IN_PLAY" => Attended(e)'
  BY DEF AbandonInv
<1> QED BY <1>2, <1>3 DEF AbandonInv, Attended, LiveJobs

(* The main theorem of this module: an event that OddsWorker has marked or *)
(* a job has put in play is ended, has a job, or had one that Sidekiq lost.*)
THEOREM NeverSilentlyAbandoned == Spec => []NoSilentAbandon
<1>1. Init => AbandonInv
  BY DEF Init, AbandonInv, Idle
<1>2. TypeOK /\ TypeOK' /\ AbandonInv /\ [Next]_vars => AbandonInv'
  <2> SUFFICES ASSUME TypeOK, TypeOK', AbandonInv, [Next]_vars PROVE AbandonInv'
    OBVIOUS
  <2>0. {"queued", "retry", "wait", "claim", "kickoff", "play", "close", "record", "finish"} = Live
    BY DEF Live, Running
  <2>a. ASSUME row' = row, odds' = odds, lost' = lost, \A e \in Events : LiveJobs(e)' = LiveJobs(e)
        PROVE  AbandonInv'
    <3>1. \A e \in Events : Attended(e) => Attended(e)'
      BY <2>a DEF Attended
    <3> QED BY <2>a, <3>1, AttendedStep
  <2>b. ASSUME row' = row, job' = job, lost' = lost,
               \A w \in OddsThreads : odds'[w] = odds[w] \/ odds'[w].pc # "save"
        PROVE  AbandonInv'
    <3>1. \A e \in Events : Attended(e) => Attended(e)'
      BY <2>b DEF Attended, LiveJobs
    <3> QED BY <2>b, <3>1, AttendedStep
  <2>1. ASSUME NEW e \in Events, Approach(e) PROVE AbandonInv'
    BY <2>1, <2>a DEF Approach, LiveJobs
  <2>2. ASSUME NEW w \in OddsThreads, Scan(w) \/ EndPass(w) \/ Interrupt(w) PROVE AbandonInv'
    BY <2>2, <2>b DEF Scan, Read, EndPass, Interrupt, Idle, TypeOK
  <2>3. ASSUME NEW w \in OddsThreads, NEW e \in Events, NEW j \in Jobs, PerformAsync(w, e, j)
        PROVE AbandonInv'
    <3>1. \A f \in Events : LiveJobs(f) \subseteq LiveJobs(f)'
      BY <2>3, <2>0 DEF PerformAsync, LiveJobs, TypeOK
    <3>2. j \in LiveJobs(e)'
      BY <2>3, <2>0 DEF PerformAsync, LiveJobs, TypeOK
    <3>3. Attended(e)'
      BY <3>2 DEF Attended
    <3>4. \A f \in Events : Attended(f) => Attended(f)'
      BY <2>3, <3>1 DEF PerformAsync, Attended
    <3>5. \A v \in OddsThreads : (odds'[v] # odds[v] /\ odds'[v].pc = "save") => odds'[v].cur = e
      BY <2>3 DEF PerformAsync, TypeOK
    <3>6. \A v \in OddsThreads : (odds'[v] # odds[v] /\ odds'[v].pc = "save") => Attended(odds[v].cur)'
      BY <3>3, <3>5
    <3> QED BY <2>3, <3>4, <3>6, AttendedStep DEF PerformAsync
  <2>4. ASSUME NEW w \in OddsThreads, Save(w) PROVE AbandonInv'
    <3> DEFINE c == odds[w].cur
    <3>1. c \in Events /\ Attended(c)
      BY <2>4 DEF Save, AbandonInv, TypeOK, OddsPass, Idle
    <3>2. \A e \in Events : row'[e].status = row[e].status /\ (e # c => row'[e] = row[e])
      BY <2>4 DEF Save, TypeOK, EventRow
    <3>3. \A e \in Events : Attended(e) => Attended(e)'
      BY <2>4, <3>2 DEF Save, Attended, LiveJobs
    <3>4. \A e \in Events : (row'[e] # row[e] /\ (row'[e].monitored \/ row'[e].status = "IN_PLAY")) => Attended(e)'
      BY <3>1, <3>2, <3>3
    <3>5. \A v \in OddsThreads : odds'[v] = odds[v] \/ odds'[v].pc # "save"
      BY <2>4 DEF Save, TypeOK, OddsPass, Idle
    <3> QED BY <3>3, <3>4, <3>5, AttendedStep
  <2>5. ASSUME NEW j \in Jobs, JobStep(j) PROVE AbandonInv'
    <3>1. CASE Fetch(j) \/ GiveUpWaiting(j) \/ MatchOnline(j) \/ ClaimKey(j) \/ DeleteKey(j) \/ RecordUpdates(j)
      <4>1. \A e \in Events : LiveJobs(e)' = LiveJobs(e)
        BY <3>1, <2>0, GotoLiveJobs
           DEF Fetch, GiveUpWaiting, MatchOnline, ClaimKey, DeleteKey, RecordUpdates, TypeOK
      <4> QED BY <3>1, <4>1, <2>a DEF Fetch, GiveUpWaiting, MatchOnline, ClaimKey, DeleteKey, RecordUpdates
    <3>2. ASSUME NEW over \in BOOLEAN, Poll(j, over) PROVE AbandonInv'
      <4>1. \A e \in Events : LiveJobs(e)' = LiveJobs(e)
        BY <3>2, <2>0, GotoLiveJobs DEF Poll, TypeOK
      <4> QED BY <3>2, <4>1, <2>a DEF Poll
    <3>3. CASE EmptyTimeline(j)
      <4>1. \A i \in Jobs : job'[i].pc = job[i].pc /\ job'[i].event = job[i].event
        <5>1. job[j] \in [pc : Live, event : Events, waited : 0..MaxWait, tries : 0..MaxRetry]
          BY <3>3 DEF EmptyTimeline, TypeOK, MonitorJob, NoJob
        <5> QED BY <3>3, <5>1 DEF EmptyTimeline, TypeOK
      <4>2. \A e \in Events : LiveJobs(e)' = LiveJobs(e)
        BY <4>1 DEF LiveJobs
      <4> QED BY <3>3, <4>2, <2>a DEF EmptyTimeline
    <3>4. CASE KickOff(j)
      <4>0. job[j].event \in Events /\ job[j].pc = "kickoff"
        BY <3>4, <2>0, GotoType DEF KickOff, TypeOK
      <4>1. PICK e \in Events : e = job[j].event
        BY <4>0
      <4>2. \A f \in Events : LiveJobs(f)' = LiveJobs(f)
        BY <3>4, <2>0, GotoLiveJobs DEF KickOff, TypeOK
      <4>3. j \in LiveJobs(e)
        BY <4>0, <4>1, <2>0 DEF LiveJobs
      <4>4. \A f \in Events : f # e => row'[f] = row[f]
        BY <3>4, <4>1 DEF KickOff, TypeOK
      <4>5. Attended(e)'
        BY <4>1, <4>2, <4>3 DEF Attended
      <4>6. \A f \in Events : Attended(f) => Attended(f)'
        BY <3>4, <4>2, <4>4, <4>5 DEF KickOff, Attended
      <4> QED BY <3>4, <4>4, <4>5, <4>6, AttendedStep DEF KickOff
    <3>5. CASE EndEvent(j)
      <4>1. PICK e \in Events : e = job[j].event
        BY <3>5, LiveJobType DEF EndEvent, TypeOK
      <4>2. row'[e].status = "ENDED" /\ \A f \in Events : f # e => row'[f] = row[f]
        BY <3>5, <4>1 DEF EndEvent, TypeOK
      <4>3. \A f \in Events : f # e => LiveJobs(f) \subseteq LiveJobs(f)'
        BY <3>5, <4>1 DEF EndEvent, TypeOK, LiveJobs
      <4>4. \A f \in Events : Attended(f) => Attended(f)'
        BY <3>5, <4>2, <4>3 DEF EndEvent, Attended
      <4>5. Attended(e)'
        BY <4>2 DEF Attended
      <4> QED BY <3>5, <4>2, <4>4, <4>5, AttendedStep DEF EndEvent
    <3> QED BY <2>5, <3>1, <3>2, <3>3, <3>4, <3>5 DEF JobStep
  <2>6. ASSUME NEW j \in Jobs, SidekiqStep(j) PROVE AbandonInv'
    <3>1. CASE Raise(j)
      <4>1. \A i \in Jobs : job'[i].event = job[i].event /\ (job[i].pc \in Live <=> job'[i].pc \in Live)
        <5>1. job[j] \in [pc : Live, event : Events, waited : 0..MaxWait, tries : 0..MaxRetry]
          BY <3>1 DEF Raise, TypeOK, MonitorJob, NoJob, Running
        <5>2. job' = [job EXCEPT ![j] = [job[j] EXCEPT !.pc = "retry", !.waited = 0, !.tries = @ + 1]]
          BY <3>1 DEF Raise
        <5>3. job'[j].event = job[j].event /\ job'[j].pc = "retry"
          BY <5>1, <5>2 DEF TypeOK
        <5> QED BY <5>1, <5>2, <5>3, <2>0 DEF TypeOK
      <4>2. \A e \in Events : LiveJobs(e)' = LiveJobs(e)
        BY <4>1 DEF LiveJobs
      <4> QED BY <3>1, <4>2, <2>a DEF Raise
    <3>2. CASE Retry(j)
      <4>1. \A e \in Events : LiveJobs(e)' = LiveJobs(e)
        BY <3>2, <2>0, GotoLiveJobs DEF Retry, TypeOK
      <4> QED BY <3>2, <4>1, <2>a DEF Retry
    <3>3. CASE Exhaust(j)
      <4>0. PICK e \in Events : e = job[j].event
        BY <3>3, LiveJobType DEF Exhaust, TypeOK, Running
      <4>1. \A f \in Events : f # e => LiveJobs(f) \subseteq LiveJobs(f)'
        BY <3>3, <4>0 DEF Exhaust, TypeOK, LiveJobs
      <4>2. \A f \in Events : Attended(f) => Attended(f)'
        BY <3>3, <4>0, <4>1 DEF Exhaust, Attended
      <4> QED BY <3>3, <4>2, AttendedStep DEF Exhaust
    <3> QED BY <2>6, <3>1, <3>2, <3>3 DEF SidekiqStep
  <2>7. CASE Crash
    <3>1. \A e \in Events : Attended(e) => Attended(e)'
      <4> TAKE e \in Events
      <4>1. CASE \E j \in LiveJobs(e) : job[j].pc \in Running
        BY <2>7, <4>1 DEF Crash, LiveJobs, Attended
      <4>2. CASE \A j \in LiveJobs(e) : job[j].pc \notin Running
        <5>1. LiveJobs(e) \subseteq LiveJobs(e)'
          BY <2>7, <4>2 DEF Crash, LiveJobs, TypeOK
        <5> QED BY <2>7, <5>1 DEF Crash, Attended
      <4> QED BY <4>1, <4>2
    <3>2. \A w \in OddsThreads : odds'[w].pc # "save"
      BY <2>7 DEF Crash, Idle
    <3> QED BY <2>7, <3>1, <3>2, AttendedStep DEF Crash
  <2>8. CASE UNCHANGED vars
    BY <2>8, <2>a DEF vars, LiveJobs
  <2> QED BY <2>1, <2>2, <2>3, <2>4, <2>5, <2>6, <2>7, <2>8 DEF Next, OddsStep
<1>3. AbandonInv => NoSilentAbandon
  BY DEF AbandonInv, NoSilentAbandon, Attended
<1> QED BY <1>1, <1>2, <1>3, TypeCorrect, PTL DEF Spec

-----------------------------------------------------------------------------
(* How many monitors an event may have, and whether ENDED is final: passes *)
(* overlap and are cut off, jobs raise and processes die as they like.     *)

(* Passes that have read the event and not yet queued its job *)
Pending(e) == {w \in OddsThreads : e \in odds[w].todo}

(* Monitors the event has and those it is about to get *)
Weight(e) == Cardinality(LiveJobs(e)) + Cardinality(Pending(e))

Held(e) == \E w \in OddsThreads : e \in InHand(w)

(* MonitorsBounded is not inductive: a pass queues a job for an event it   *)
(* read long ago.  An event has at most one monitor, or pass about to      *)
(* queue one, more than it has slips; and if it has that many then the     *)
(* next pass will leave it alone, or will slip: it is marked, or a pass    *)
(* has it in hand.  An ended event without a slip has no monitor left.     *)
Sound(e) ==
    /\ slips[e] < MaxSlips =>
          /\ Weight(e) <= 1 + slips[e]
          /\ Weight(e) <= slips[e] \/ row[e].monitored \/ Held(e)
    /\ row[e].status = "ENDED" /\ slips[e] = 0 => Weight(e) = 0

SlipInv ==
    /\ \A e \in Events : Sound(e)
    /\ \A w \in OddsThreads : odds[w].pc = "save" => odds[w].cur \notin odds[w].todo

(* Weights are numbers. *)
LEMMA WeightType ==
    ASSUME NEW e \in Events
    PROVE  /\ IsFiniteSet(LiveJobs(e)) /\ IsFiniteSet(Pending(e))
           /\ Cardinality(LiveJobs(e)) \in Nat /\ Cardinality(Pending(e)) \in Nat
           /\ Weight(e) \in Nat
<1>1. IsFiniteSet(LiveJobs(e)) /\ IsFiniteSet(Pending(e))
  BY FiniteAssumption, FS_Subset DEF LiveJobs, Pending
<1> QED BY <1>1, FS_CardinalityType DEF Weight

(* Fewer jobs and fewer passes weigh less; one job or one pass counts one. *)
LEMMA Lighter ==
    ASSUME NEW e \in Events,
           LiveJobs(e)' \subseteq LiveJobs(e), Pending(e)' \subseteq Pending(e)
    PROVE  /\ Weight(e)' \in Nat /\ Weight(e)' <= Weight(e)
           /\ LiveJobs(e)' # LiveJobs(e) \/ Pending(e)' # Pending(e) => Weight(e)' < Weight(e)
<1>1. /\ IsFiniteSet(LiveJobs(e)) /\ IsFiniteSet(Pending(e))
      /\ Cardinality(LiveJobs(e)) \in Nat /\ Cardinality(Pending(e)) \in Nat
  BY WeightType
<1>2. /\ IsFiniteSet(LiveJobs(e)') /\ IsFiniteSet(Pending(e)')
      /\ Cardinality(LiveJobs(e)') \in Nat /\ Cardinality(Pending(e)') \in Nat
      /\ Cardinality(LiveJobs(e)') <= Cardinality(LiveJobs(e))
      /\ Cardinality(Pending(e)') <= Cardinality(Pending(e))
      /\ LiveJobs(e)' # LiveJobs(e) => Cardinality(LiveJobs(e)') < Cardinality(LiveJobs(e))
      /\ Pending(e)' # Pending(e) => Cardinality(Pending(e)') < Cardinality(Pending(e))
  BY <1>1, FS_Subset, FS_CardinalityType
<1> QED BY <1>1, <1>2 DEF Weight

(* The three ways in which a step can treat an event that a pass does not  *)
(* read in it: it leaves it marked or in hand; it drops a job or a pass;   *)
(* it counts a slip.                                                       *)
LEMMA SoundStep ==
    ASSUME TypeOK, TypeOK', NEW e \in Events, Sound(e),
           LiveJobs(e)' \subseteq LiveJobs(e), Pending(e)' \subseteq Pending(e),
           \/ /\ slips'[e] = slips[e]
              /\ row[e].monitored \/ Held(e) => row'[e].monitored \/ Held(e)'
              /\ row'[e].status = "ENDED" => row[e].status = "ENDED"
           \/ /\ slips'[e] = slips[e]
              /\ LiveJobs(e)' # LiveJobs(e) \/ Pending(e)' # Pending(e)
           \/ slips'[e] = IF slips[e] < MaxSlips THEN slips[e] + 1 ELSE slips[e]
    PROVE  Sound(e)'
<1>1. /\ Weight(e)' \in Nat /\ Weight(e)' <= Weight(e) /\ Weight(e) \in Nat
      /\ LiveJobs(e)' # LiveJobs(e) \/ Pending(e)' # Pending(e) => Weight(e)' < Weight(e)
      /\ slips[e] \in 0..MaxSlips /\ slips'[e] \in 0..MaxSlips
  BY Lighter, WeightType DEF TypeOK
<1>2. CASE /\ slips'[e] = slips[e]
           /\ row[e].monitored \/ Held(e) => row'[e].monitored \/ Held(e)'
           /\ row'[e].status = "ENDED" => row[e].status = "ENDED"
  BY <1>1, <1>2 DEF Sound
<1>3. CASE /\ slips'[e] = slips[e]
           /\ LiveJobs(e)' # LiveJobs(e) \/ Pending(e)' # Pending(e)
  BY <1>1, <1>3 DEF Sound
<1>4. CASE slips'[e] = IF slips[e] < MaxSlips THEN slips[e] + 1 ELSE slips[e]
  BY <1>1, <1>4 DEF Sound
<1> QED BY <1>2, <1>3, <1>4

(* The job steps that end no job keep every event's set of jobs, and at    *)
(* most take an event out of ENDED.                                        *)
LEMMA QuietJobStep ==
    ASSUME TypeOK, NEW j \in Jobs,
           \/ JobStep(j) /\ ~EndEvent(j)
           \/ Raise(j) \/ Retry(j)
    PROVE  /\ \A e \in Events : LiveJobs(e)' = LiveJobs(e)
           /\ UNCHANGED <<odds, slips>>
           /\ \A e \in Events : /\ row'[e].monitored = row[e].monitored
                                /\ row'[e].status = "ENDED" => row[e].status = "ENDED"
<1>0. {"queued", "retry", "wait", "claim", "kickoff", "play", "close", "record", "finish"} = Live
  BY DEF Live, Running
<1>a. job \in [Jobs -> MonitorJob] /\ row \in [Events -> EventRow]
  BY DEF TypeOK
<1>1. CASE \/ Fetch(j) \/ GiveUpWaiting(j) \/ MatchOnline(j) \/ ClaimKey(j) \/ DeleteKey(j)
           \/ RecordUpdates(j) \/ Retry(j)
  BY <1>0, <1>1, <1>a, GotoLiveJobs
     DEF Fetch, GiveUpWaiting, MatchOnline, ClaimKey, DeleteKey, RecordUpdates, Retry
<1>2. ASSUME NEW over \in BOOLEAN, Poll(j, over)
      PROVE  (\A e \in Events : LiveJobs(e)' = LiveJobs(e)) /\ UNCHANGED <<odds, slips, row>>
  BY <1>0, <1>2, <1>a, GotoLiveJobs DEF Poll
<1>3. CASE EmptyTimeline(j)
  <2>1. job[j] \in [pc : Live, event : Events, waited : 0..MaxWait, tries : 0..MaxRetry]
    BY <1>3, <1>a DEF EmptyTimeline, MonitorJob, NoJob
  <2>2. \A i \in Jobs : job'[i].pc = job[i].pc /\ job'[i].event = job[i].event
    BY <1>3, <1>a, <2>1 DEF EmptyTimeline
  <2> QED BY <1>3, <2>2 DEF EmptyTimeline, LiveJobs
<1>4. CASE KickOff(j)
  <2>1. \A e \in Events : LiveJobs(e)' = LiveJobs(e)
    BY <1>0, <1>4, <1>a, GotoLiveJobs DEF KickOff
  <2>2. job[j].event \in Events
    BY <1>0, <1>4, <1>a, GotoType DEF KickOff
  <2>3. \A e \in Events : row'[e].monitored = row[e].monitored
                          /\ (row'[e].status = "ENDED" => row[e].status = "ENDED")
    BY <1>4, <1>a, <2>2 DEF KickOff, EventRow
  <2> QED BY <1>4, <2>1, <2>3 DEF KickOff
<1>5. CASE Raise(j)
  <2>1. job[j] \in [pc : Live, event : Events, waited : 0..MaxWait, tries : 0..MaxRetry]
    BY <1>5, <1>a DEF Raise, MonitorJob, NoJob, Running
  <2>2. job' = [job EXCEPT ![j] = [job[j] EXCEPT !.pc = "retry", !.waited = 0, !.tries = @ + 1]]
    BY <1>5 DEF Raise
  <2>3. /\ job'[j].event = job[j].event /\ job'[j].pc \in Live /\ job[j].pc \in Live
        /\ \A i \in Jobs : i # j => job'[i] = job[i]
    BY <1>0, <1>a, <2>1, <2>2
  <2>4. \A e \in Events : LiveJobs(e)' = LiveJobs(e)
    BY <2>3 DEF LiveJobs
  <2> QED BY <1>5, <2>4 DEF Raise
<1> QED BY <1>1, <1>2, <1>3, <1>4, <1>5 DEF JobStep

(* A pass that reads an event while no other has it in hand adds the one   *)
(* monitor the event may still get, otherwise one for which it slips.      *)
LEMMA SlipScan ==
    ASSUME TypeOK, TypeOK', SlipInv, NEW w \in OddsThreads, Scan(w)
    PROVE  SlipInv'
<1> DEFINE E == {e \in StartingNow : ~row[e].monitored}
<1>1. /\ odds[w] = Idle /\ odds' = [odds EXCEPT ![w] = [pc |-> "scan", todo |-> E, cur |-> None]]
      /\ slips' = SlipsWith(E \cap UNION {InHand(v) : v \in OddsThreads})
      /\ UNCHANGED <<row, job>>
  BY DEF Scan, Read, TypeOK, OddsPass
<1>2. /\ \A v \in OddsThreads : v # w => odds'[v] = odds[v]
      /\ odds'[w].todo = E /\ odds'[w].cur = None /\ odds'[w].pc = "scan"
  BY <1>1 DEF TypeOK
<1>3. E \subseteq Events /\ \A e \in E : row[e].status # "ENDED" /\ ~row[e].monitored
  BY DEF StartingNow, TypeOK
<1>4. \A e \in Events : slips'[e] = IF e \in E /\ Held(e) /\ slips[e] < MaxSlips
                                    THEN slips[e] + 1 ELSE slips[e]
  BY <1>1 DEF SlipsWith, Held
<1> HIDE DEF E
<1>5. odds[w].todo = {} /\ odds[w].cur = None
  BY <1>1 DEF Idle
<1>6. ASSUME NEW e \in Events PROVE Sound(e)'
  <2>1. LiveJobs(e)' = LiveJobs(e) /\ Sound(e)
    BY <1>1 DEF LiveJobs, SlipInv
  <2>2. CASE e \in E
    <3>1. Pending(e)' = Pending(e) \cup {w} /\ w \notin Pending(e) /\ Held(e)'
      BY <1>2, <1>5, <2>2 DEF Pending, Held, InHand
    <3>2. Cardinality(Pending(e)') = Cardinality(Pending(e)) + 1
      BY <3>1, WeightType, FS_AddElement
    <3>3. Weight(e)' = Weight(e) + 1 /\ Weight(e) \in Nat
      BY <2>1, <3>2, WeightType DEF Weight
    <3>4. slips[e] \in 0..MaxSlips
      BY DEF TypeOK
    <3>5. row'[e].status # "ENDED" /\ ~row[e].monitored
      BY <1>1, <1>3, <2>2
    <3> QED BY <1>4, <2>1, <2>2, <3>1, <3>3, <3>4, <3>5 DEF Sound
  <2>3. CASE e \notin E
    <3>1. Pending(e)' = Pending(e)
      BY <1>2, <1>5, <2>3 DEF Pending
    <3>2. Held(e) => Held(e)'
      BY <1>2, <1>5 DEF Held, InHand
    <3>3. slips'[e] = slips[e] /\ row'[e] = row[e]
      BY <1>1, <1>4, <2>3
    <3> QED BY <2>1, <3>1, <3>2, <3>3, SoundStep
  <2> QED BY <2>2, <2>3
<1>7. \A v \in OddsThreads : odds'[v].pc = "save" => odds'[v].cur \notin odds'[v].todo
  BY <1>2 DEF SlipInv
<1> QED BY <1>6, <1>7 DEF SlipInv

(* The pass that queues a job gives up its claim for the job.              *)
LEMMA SlipPerformAsync ==
    ASSUME TypeOK, TypeOK', SlipInv, NEW w \in OddsThreads, NEW e \in Events, NEW j \in Jobs,
           PerformAsync(w, e, j)
    PROVE  SlipInv'
<1>1. /\ odds[w].pc = "scan" /\ e \in odds[w].todo /\ job[j].pc = "none"
      /\ UNCHANGED <<row, slips>>
      /\ \A v \in OddsThreads : v # w => odds'[v] = odds[v]
      /\ odds'[w].todo = odds[w].todo \ {e} /\ odds'[w].cur = e
      /\ \A i \in Jobs : i # j => job'[i] = job[i]
      /\ job'[j].pc = "queued" /\ job'[j].event = e
  BY DEF PerformAsync, TypeOK
<1>2. odds[w].cur = None
  BY <1>1 DEF TypeOK, OddsPass, Idle
<1>a. "queued" \in Live /\ "none" \notin Live
  BY DEF Live, Running
<1>3. ASSUME NEW f \in Events PROVE Sound(f)'
  <2>1. CASE f = e
    <3>1. LiveJobs(e)' = LiveJobs(e) \cup {j} /\ j \notin LiveJobs(e)
      BY <1>1, <1>a DEF LiveJobs
    <3>2. Pending(e)' = Pending(e) \ {w} /\ w \in Pending(e) /\ Held(e)'
      BY <1>1 DEF Pending, Held, InHand
    <3>3. Cardinality(LiveJobs(e)') = Cardinality(LiveJobs(e)) + 1
      BY <3>1, WeightType, FS_AddElement
    <3>4. Cardinality(Pending(e) \ {w}) = Cardinality(Pending(e)) - 1
      BY <3>2, WeightType, FS_RemoveElement
    <3>5. Weight(e)' = Weight(e)
      BY <3>2, <3>3, <3>4, WeightType DEF Weight
    <3> QED BY <1>1, <2>1, <3>2, <3>5 DEF Sound, SlipInv
  <2>2. CASE f # e
    <3>1. LiveJobs(f)' = LiveJobs(f)
      BY <1>1, <1>a, <2>2 DEF LiveJobs
    <3>2. Pending(f)' = Pending(f)
      BY <1>1, <2>2 DEF Pending
    <3>3. Held(f) => Held(f)'
      BY <1>1, <1>2, <2>2 DEF Held, InHand
    <3> QED BY <1>1, <3>1, <3>2, <3>3, SoundStep DEF SlipInv
  <2> QED BY <2>1, <2>2
<1>4. \A v \in OddsThreads : odds'[v].pc = "save" => odds'[v].cur \notin odds'[v].todo
  BY <1>1 DEF SlipInv
<1> QED BY <1>3, <1>4 DEF SlipInv

(* A pass that saves the mark, comes to its end or is cut off. *)
LEMMA SlipPass ==
    ASSUME TypeOK, TypeOK', SlipInv, NEW w \in OddsThreads, Save(w) \/ EndPass(w) \/ Interrupt(w)
    PROVE  SlipInv'
<1>0. odds \in [OddsThreads -> OddsPass] /\ row \in [Events -> EventRow]
  BY DEF TypeOK
<1>1. CASE Save(w)
  <2>1. PICK c \in Events : c = odds[w].cur
    BY <1>0, <1>1 DEF Save, OddsPass, Idle
  <2>2. /\ \A v \in OddsThreads : v # w => odds'[v] = odds[v]
        /\ odds'[w].todo = odds[w].todo /\ odds'[w].pc = "scan"
        /\ UNCHANGED <<job, slips>>
    BY <1>0, <1>1 DEF Save, OddsPass, Idle
  <2>3. /\ row'[c].monitored /\ \A e \in Events : row'[e].status = row[e].status
        /\ \A e \in Events : e # c => row'[e] = row[e]
    BY <1>0, <1>1, <2>1 DEF Save, EventRow
  <2>4. ASSUME NEW e \in Events PROVE Sound(e)'
    <3>1. LiveJobs(e)' = LiveJobs(e) /\ Pending(e)' = Pending(e)
      BY <2>2 DEF LiveJobs, Pending
    <3>2. e # c => (Held(e) => Held(e)')
      BY <2>1, <2>2 DEF Held, InHand
    <3> QED BY <2>2, <2>3, <3>1, <3>2, SoundStep DEF SlipInv
  <2>5. \A v \in OddsThreads : odds'[v].pc = "save" => odds'[v].cur \notin odds'[v].todo
    BY <2>2 DEF SlipInv
  <2> QED BY <2>4, <2>5 DEF SlipInv
<1>2. CASE EndPass(w)
  <2>1. /\ odds[w].todo = {} /\ odds[w].cur = None
        /\ \A v \in OddsThreads : v # w => odds'[v] = odds[v]
        /\ odds'[w].todo = {} /\ odds'[w].pc = "idle" /\ UNCHANGED <<job, slips, row>>
    BY <1>0, <1>2 DEF EndPass, OddsPass, Idle
  <2>2. ASSUME NEW e \in Events PROVE Sound(e)'
    <3>1. LiveJobs(e)' = LiveJobs(e) /\ Pending(e)' = Pending(e)
      BY <2>1 DEF LiveJobs, Pending
    <3>2. Held(e) => Held(e)'
      BY <2>1 DEF Held, InHand
    <3> QED BY <2>1, <3>1, <3>2, SoundStep DEF SlipInv
  <2>3. \A v \in OddsThreads : odds'[v].pc = "save" => odds'[v].cur \notin odds'[v].todo
    BY <2>1 DEF SlipInv
  <2> QED BY <2>2, <2>3 DEF SlipInv
<1>3. CASE Interrupt(w)
  <2>1. /\ \A v \in OddsThreads : v # w => odds'[v] = odds[v]
        /\ odds'[w].todo = {} /\ odds'[w].pc = "idle" /\ UNCHANGED <<job, row>>
        /\ slips' = SlipsWith({odds[w].cur})
    BY <1>0, <1>3 DEF Interrupt, Idle
  <2>2. ASSUME NEW e \in Events PROVE Sound(e)'
    <3>1. LiveJobs(e)' = LiveJobs(e) /\ Pending(e)' = Pending(e) \ {w} /\ Sound(e)
      BY <2>1 DEF LiveJobs, Pending, SlipInv
    <3>2. CASE e = odds[w].cur
      <4>1. slips'[e] = IF slips[e] < MaxSlips THEN slips[e] + 1 ELSE slips[e]
        BY <2>1, <3>2 DEF SlipsWith
      <4> QED BY <3>1, <4>1, SoundStep
    <3>3. CASE e # odds[w].cur
      <4>1. slips'[e] = slips[e]
        BY <2>1, <3>3 DEF SlipsWith
      <4>2. CASE e \in odds[w].todo
        <5>1. w \in Pending(e)
          BY <4>2 DEF Pending
        <5> QED BY <3>1, <4>1, <5>1, SoundStep
      <4>3. CASE e \notin odds[w].todo
        <5>1. Held(e) => Held(e)'
          BY <2>1, <3>3, <4>3 DEF Held, InHand
        <5> QED BY <2>1, <3>1, <4>1, <5>1, SoundStep
      <4> QED BY <4>2, <4>3
    <3> QED BY <3>2, <3>3
  <2>3. \A v \in OddsThreads : odds'[v].pc = "save" => odds'[v].cur \notin odds'[v].todo
    BY <2>1 DEF SlipInv
  <2> QED BY <2>2, <2>3 DEF SlipInv
<1> QED BY <1>1, <1>2, <1>3

(* A job that ends its event, or of which Sidekiq gives up, is dropped. *)
LEMMA SlipJobGone ==
    ASSUME TypeOK, TypeOK', SlipInv, NEW j \in Jobs, EndEvent(j) \/ Exhaust(j)
    PROVE  SlipInv'
<1>1. /\ job[j].pc \in Live /\ job[j].event \in Events
      /\ job'[j].pc \notin Live /\ \A i \in Jobs : i # j => job'[i] = job[i]
      /\ UNCHANGED <<odds, slips>>
  BY LiveJobType DEF EndEvent, Exhaust, TypeOK, NoJob, Live, Running
<1>2. PICK c \in Events : c = job[j].event
  BY <1>1
<1>3. \A e \in Events : e # c => row'[e] = row[e]
  BY <1>2 DEF EndEvent, Exhaust, TypeOK
<1>4. ASSUME NEW e \in Events PROVE Sound(e)'
  <2>1. Pending(e)' = Pending(e) /\ (Held(e) => Held(e)')
    BY <1>1 DEF Pending, Held, InHand
  <2>2. LiveJobs(e)' = LiveJobs(e) \ {j}
    BY <1>1 DEF LiveJobs
  <2>3. e = c => j \in LiveJobs(e)
    BY <1>1, <1>2 DEF LiveJobs
  <2> QED BY <1>1, <1>3, <2>1, <2>2, <2>3, SoundStep DEF SlipInv
<1> QED BY <1>1, <1>4 DEF SlipInv

(* A crash drops the running jobs and every pass. *)
LEMMA SlipCrash ==
    ASSUME TypeOK, TypeOK', SlipInv, Crash
    PROVE  SlipInv'
<1>1. /\ \A v \in OddsThreads : odds'[v].todo = {} /\ odds'[v].pc = "idle"
      /\ row' = row /\ slips' = SlipsWith({odds[w].cur : w \in OddsThreads})
      /\ \A i \in Jobs : job'[i].pc \in Live => job'[i] = job[i]
  BY DEF Crash, Idle, NoJob, Live, Running
<1>2. ASSUME NEW e \in Events PROVE Sound(e)'
  <2>1. LiveJobs(e)' \subseteq LiveJobs(e) /\ Pending(e)' = {} /\ Sound(e)
    BY <1>1 DEF LiveJobs, Pending, SlipInv
  <2>2. CASE \E w \in OddsThreads : odds[w].cur = e
    <3>1. slips'[e] = IF slips[e] < MaxSlips THEN slips[e] + 1 ELSE slips[e]
      BY <1>1, <2>2 DEF SlipsWith
    <3> QED BY <2>1, <3>1, SoundStep
  <2>3. CASE ~\E w \in OddsThreads : odds[w].cur = e
    <3>1. slips'[e] = slips[e]
      BY <1>1, <2>3 DEF SlipsWith
    <3>2. Pending(e) = {} => ~Held(e)
      BY <2>3 DEF Pending, Held, InHand
    <3> QED BY <1>1, <2>1, <3>1, <3>2, SoundStep
  <2> QED BY <2>2, <2>3
<1> QED BY <1>1, <1>2 DEF SlipInv

LEMMA SlipInit == Init => SlipInv
<1> SUFFICES ASSUME Init PROVE SlipInv
  OBVIOUS
<1>1. ASSUME NEW e \in Events PROVE Sound(e)
  <2>1. LiveJobs(e) = {} /\ Pending(e) = {}
    BY DEF Init, LiveJobs, Pending, NoJob, Idle, Live, Running
  <2>2. Weight(e) = 0
    BY <2>1, FS_EmptySet DEF Weight
  <2> QED BY <2>2 DEF Init, Sound
<1> QED BY <1>1 DEF Init, SlipInv, Idle

LEMMA SlipStep == TypeOK /\ TypeOK' /\ SlipInv /\ [Next]_vars => SlipInv'
<1> SUFFICES ASSUME TypeOK, TypeOK', SlipInv, [Next]_vars PROVE SlipInv'
  OBVIOUS
<1>a. ASSUME UNCHANGED <<odds, slips>>,
             \A e \in Events : /\ LiveJobs(e)' = LiveJobs(e)
                               /\ row'[e].monitored = row[e].monitored
                               /\ row'[e].status = "ENDED" => row[e].status = "ENDED"
      PROVE  SlipInv'
  <2>1. ASSUME NEW e \in Events PROVE Sound(e)'
    <3>1. Pending(e)' = Pending(e) /\ Held(e)' = Held(e)
      BY <1>a DEF Pending, Held, InHand
    <3> QED BY <1>a, <3>1, SoundStep DEF SlipInv
  <2> QED BY <1>a, <2>1 DEF SlipInv
<1>1. ASSUME NEW e \in Events, Approach(e) PROVE SlipInv'
  BY <1>1, <1>a DEF Approach, LiveJobs
<1>2. ASSUME NEW w \in OddsThreads, OddsStep(w) \/ Interrupt(w) PROVE SlipInv'
  BY <1>2, SlipScan, SlipPerformAsync, SlipPass DEF OddsStep
<1>3. ASSUME NEW j \in Jobs, JobStep(j) \/ SidekiqStep(j) PROVE SlipInv'
  <2>1. CASE EndEvent(j) \/ Exhaust(j)
    BY <2>1, SlipJobGone
  <2>2. CASE (JobStep(j) /\ ~EndEvent(j)) \/ Raise(j) \/ Retry(j)
    BY <2>2, <1>a, QuietJobStep
  <2> QED BY <1>3, <2>1, <2>2 DEF SidekiqStep
<1>4. CASE Crash
  BY <1>4, SlipCrash
<1>5. CASE UNCHANGED vars
  BY <1>5, <1>a DEF vars, LiveJobs
<1> QED BY <1>1, <1>2, <1>3, <1>4, <1>5 DEF Next

(* However passes overlap and are cut off: a monitor more than one takes a *)
(* slip for each.                                                          *)
THEOREM MonitorsAreBounded == Spec => []MonitorsBounded
<1>1. TypeOK /\ SlipInv => MonitorsBounded
  <2> SUFFICES ASSUME TypeOK, SlipInv, NEW e \in Events, slips[e] < MaxSlips
               PROVE  Cardinality(LiveJobs(e)) <= 1 + slips[e]
    BY DEF MonitorsBounded
  <2>1. Weight(e) <= 1 + slips[e] /\ slips[e] \in Nat
    BY DEF SlipInv, Sound, TypeOK
  <2> QED BY <2>1, WeightType DEF Weight
<1> QED BY <1>1, SlipInit, SlipStep, TypeCorrect, PTL DEF Spec

(* No step takes an event without a slip out of ENDED: the only one that   *)
(* could is the kick-off of a job, and such an event has none left.        *)
THEOREM EndedStaysEnded == Spec => EndedIsFinal
<1>1. ASSUME TypeOK, SlipInv, [Next]_vars, NEW e \in Events, row[e].status = "ENDED", slips[e] = 0
      PROVE  row'[e].status = "ENDED"
  <2>0. row \in [Events -> EventRow] /\ job \in [Jobs -> MonitorJob]
    BY <1>1 DEF TypeOK
  <2>1. ASSUME NEW w \in OddsThreads, Save(w) PROVE row'[e].status = "ENDED"
    BY <1>1, <2>0, <2>1 DEF Save, EventRow
  <2>2. ASSUME NEW j \in Jobs, KickOff(j) PROVE row'[e].status = "ENDED"
    <3>1. job[j].pc \in Live
      BY <2>2 DEF KickOff, Goto, Live, Running
    <3>2. Weight(e) = 0
      BY <1>1 DEF SlipInv, Sound
    <3>3. LiveJobs(e) = {}
      BY <3>2, WeightType, FS_EmptySet DEF Weight
    <3>4. job[j].event # e
      BY <3>1, <3>3 DEF LiveJobs
    <3> QED BY <1>1, <2>0, <2>2, <3>4 DEF KickOff
  <2>3. ASSUME NEW j \in Jobs, EndEvent(j) PROVE row'[e].status = "ENDED"
    BY <1>1, <2>0, <2>3 DEF EndEvent
  <2>4. \/ \E w \in OddsThreads : Save(w)
        \/ \E j \in Jobs : KickOff(j) \/ EndEvent(j)
        \/ UNCHANGED row
    BY <1>1 DEF Next, OddsStep, JobStep, SidekiqStep, vars, Approach, Scan, Read, PerformAsync,
                EndPass, Interrupt, Fetch, EmptyTimeline, GiveUpWaiting, MatchOnline, ClaimKey, Poll,
                DeleteKey, RecordUpdates, Raise, Retry, Exhaust, Crash
  <2> QED BY <1>1, <2>1, <2>2, <2>3, <2>4
<1>2. TypeOK /\ SlipInv /\ [Next]_vars =>
        [\A e \in Events : row[e].status = "ENDED" /\ slips[e] = 0 => row'[e].status = "ENDED"]_vars
  BY <1>1
<1> QED BY <1>2, SlipInit, SlipStep, TypeCorrect, PTL DEF Spec, EndedIsFinal

-----------------------------------------------------------------------------
-----------------------------------------------------------------------------
(* What a job leaves behind.                                               *)

(* A job that has not deleted the key of its event yet *)
Owners(e) == {j \in Jobs : job[j].pc \in Live \ {"record", "finish"} /\ job[j].event = e}

(* KeyHasOwner is not inductive: the last live job of a key's event might  *)
(* be past the deletion of the key.  A key has a job that will delete it,  *)
(* and a job that is about to end its event has imported the updates or    *)
(* has given up waiting.                                                   *)
LeftInv ==
    /\ \A e \in board : Owners(e) # {} \/ e \in lost \cup timedOut
    /\ \A j \in Jobs : job[j].pc = "finish" => job[j].event \in recorded \cup timedOut
    /\ EndedHasUpdates

(* What a step that ends no event has to do to keep LeftInv. *)
LEMMA LeftMove ==
    ASSUME TypeOK, LeftInv,
           \A e \in Events : row'[e].status = "ENDED" => row[e].status = "ENDED",
           lost \subseteq lost', recorded \subseteq recorded', timedOut \subseteq timedOut',
           board' \subseteq Events,
           \A e \in board' \cap board :
              \A i \in Owners(e) : i \in Owners(e)' \/ e \in lost' \cup timedOut',
           \A e \in board' \ board : Owners(e)' # {},
           \A i \in Jobs : job'[i].pc = "finish" =>
                \/ job[i].pc = "finish" /\ job'[i].event = job[i].event
                \/ job'[i].event \in recorded' \cup timedOut'
    PROVE  LeftInv'
<1>1. \A e \in board' : Owners(e)' # {} \/ e \in lost' \cup timedOut'
  BY DEF LeftInv
<1>2. \A i \in Jobs : job'[i].pc = "finish" => job'[i].event \in recorded' \cup timedOut'
  BY DEF LeftInv
<1>3. EndedHasUpdates'
  BY DEF LeftInv, EndedHasUpdates
<1> QED BY <1>1, <1>2, <1>3 DEF LeftInv

(* A job goes from one program counter to another: it owns the key of its  *)
(* event before and after, unless it goes to "record" or "finish".         *)
LEMMA GotoOwners ==
    ASSUME job \in [Jobs -> MonitorJob], NEW j \in Jobs, NEW from \in Live, NEW to \in Live,
           Goto(j, from, to)
    PROVE  /\ \A e \in Events : \A i \in Owners(e) :
                i \in Owners(e)' \/ (i = j /\ e = job[j].event /\ to \in {"record", "finish"})
           /\ to \notin {"record", "finish"} => j \in Owners(job[j].event)'
           /\ \A i \in Jobs : job'[i].pc = "finish" =>
                (job[i].pc = "finish" /\ job'[i].event = job[i].event) \/ (i = j /\ to = "finish")
           /\ job[j].event \in Events /\ job'[j].event = job[j].event
<1>1. /\ job[j].event \in Events /\ job'[j].pc = to
      /\ \A i \in Jobs : job'[i].event = job[i].event
      /\ \A i \in Jobs : i # j => job'[i] = job[i]
  BY GotoType
<1>2. ASSUME NEW e \in Events, NEW i \in Owners(e)
      PROVE  i \in Owners(e)' \/ (i = j /\ e = job[j].event /\ to \in {"record", "finish"})
  BY <1>1 DEF Owners
<1>3. PICK e \in Events : e = job[j].event
  BY <1>1
<1>4. to \notin {"record", "finish"} => j \in Owners(e)'
  BY <1>1, <1>3 DEF Owners
<1>5. to \notin {"record", "finish"} => j \in Owners(job[j].event)'
  BY <1>1, <1>3, <1>4 DEF Owners
<1>6. \A i \in Jobs : job'[i].pc = "finish" =>
                (job[i].pc = "finish" /\ job'[i].event = job[i].event) \/ (i = j /\ to = "finish")
  BY <1>1
<1> QED BY <1>1, <1>2, <1>5, <1>6

LEMMA LeftJobStep ==
    ASSUME TypeOK, LeftInv, NEW j \in Jobs, JobStep(j)
    PROVE  LeftInv'
<1>0. {"queued", "retry", "wait", "claim", "kickoff", "play", "close", "record", "finish"} = Live
  BY DEF Live, Running
<1>a. /\ job \in [Jobs -> MonitorJob] /\ row \in [Events -> EventRow] /\ board \subseteq Events
  BY DEF TypeOK
<1> DEFINE e == job[j].event
<1>b. ASSUME NEW from \in Live, NEW to \in Live \ {"record", "finish"}, Goto(j, from, to),
             UNCHANGED <<lost, recorded, timedOut>>,
             board' = board \/ board' = board \cup {e},
             \A f \in Events : row'[f].status = "ENDED" => row[f].status = "ENDED"
      PROVE  LeftInv'
  <2>1. /\ \A f \in Events : \A i \in Owners(f) : i \in Owners(f)'
        /\ j \in Owners(e)' /\ e \in Events /\ job'[j].event = e
        /\ \A i \in Jobs : job'[i].pc = "finish" => job[i].pc = "finish" /\ job'[i].event = job[i].event
    BY <1>a, <1>b, GotoOwners
  <2>2. PICK g \in Events : g = e
    BY <2>1
  <2>3. j \in Owners(g)'
    BY <2>1, <2>2 DEF Owners
  <2>4. \A f \in board' \ board : Owners(f)' # {}
    BY <1>b, <2>2, <2>3
  <2>5. \A f \in board' \cap board : \A i \in Owners(f) : i \in Owners(f)' \/ f \in lost' \cup timedOut'
    BY <1>a, <2>1
  <2>6. board' \subseteq Events
    BY <1>a, <1>b, <2>1
  <2> QED BY <1>b, <2>1, <2>4, <2>5, <2>6, LeftMove
<1>1. CASE Fetch(j)
  BY <1>0, <1>1, <1>b DEF Fetch
<1>2. CASE EmptyTimeline(j)
  <2>1. job[j] \in [pc : Live, event : Events, waited : 0..MaxWait, tries : 0..MaxRetry]
    BY <1>2, <1>a DEF EmptyTimeline, MonitorJob, NoJob
  <2>2. \A i \in Jobs : job'[i].pc = job[i].pc /\ job'[i].event = job[i].event
    BY <1>2, <1>a, <2>1 DEF EmptyTimeline
  <2>3. \A f \in Events : Owners(f)' = Owners(f)
    BY <2>2 DEF Owners
  <2>4. UNCHANGED <<row, board, lost, recorded, timedOut>>
    BY <1>2 DEF EmptyTimeline
  <2> QED BY <1>a, <2>2, <2>3, <2>4, LeftMove
<1>3. CASE GiveUpWaiting(j)
  <2>1. /\ Goto(j, "wait", "finish") /\ timedOut' = timedOut \cup {e}
        /\ UNCHANGED <<row, board, lost, recorded>>
    BY <1>3 DEF GiveUpWaiting
  <2>2. /\ \A f \in Events : \A i \in Owners(f) : i \in Owners(f)' \/ f = e
        /\ \A i \in Jobs : job'[i].pc = "finish" =>
                (job[i].pc = "finish" /\ job'[i].event = job[i].event) \/ i = j
        /\ e \in Events /\ job'[j].event = e
    BY <1>0, <1>a, <2>1, GotoOwners
  <2> QED BY <1>a, <2>1, <2>2, LeftMove
<1>4. CASE MatchOnline(j)
  BY <1>0, <1>4, <1>b DEF MatchOnline
<1>5. CASE ClaimKey(j)
  BY <1>0, <1>5, <1>b DEF ClaimKey
<1>6. CASE KickOff(j)
  <2>1. e \in Events
    BY <1>0, <1>6, <1>a, GotoType DEF KickOff
  <2>2. \A f \in Events : row'[f].status = "ENDED" => row[f].status = "ENDED"
    BY <1>6, <1>a, <2>1 DEF KickOff, EventRow
  <2> QED BY <1>0, <1>6, <1>b, <2>2 DEF KickOff
<1>7. ASSUME NEW over \in BOOLEAN, Poll(j, over) PROVE LeftInv'
  BY <1>0, <1>7, <1>b DEF Poll
<1>8. CASE DeleteKey(j)
  <2>1. /\ Goto(j, "close", "record") /\ board' = board \ {e}
        /\ UNCHANGED <<row, timedOut, lost, recorded>>
    BY <1>8 DEF DeleteKey
  <2>a. "close" \in Live /\ "record" \in Live
    BY <1>0
  <2>b. /\ \A f \in Events : \A i \in Owners(f) : i \in Owners(f)' \/ (i = j /\ f = e)
        /\ \A i \in Jobs : job'[i].pc = "finish" =>
             (job[i].pc = "finish" /\ job'[i].event = job[i].event) \/ (i = j /\ "record" = "finish")
    BY <1>a, <2>1, <2>a, GotoOwners, Zenon
  <2>2. /\ \A f \in Events : \A i \in Owners(f) : i \in Owners(f)' \/ f = e
        /\ \A i \in Jobs : job'[i].pc = "finish" => job[i].pc = "finish" /\ job'[i].event = job[i].event
    BY <2>b
  <2> QED BY <1>a, <2>1, <2>2, LeftMove
<1>9. CASE RecordUpdates(j)
  <2>1. /\ Goto(j, "record", "finish") /\ recorded' = recorded \cup {e} /\ job[j].pc = "record"
        /\ UNCHANGED <<row, board, lost, timedOut>>
    BY <1>9 DEF RecordUpdates, Goto
  <2>a. "record" \in Live /\ "finish" \in Live
    BY <1>0
  <2>2. /\ \A f \in Events : \A i \in Owners(f) : i \in Owners(f)' \/ i = j
        /\ \A i \in Jobs : job'[i].pc = "finish" =>
                (job[i].pc = "finish" /\ job'[i].event = job[i].event) \/ i = j
        /\ job'[j].event = e
    BY <1>a, <2>1, <2>a, GotoOwners, Zenon
  <2>3. \A f \in Events : j \notin Owners(f)
    BY <2>1 DEF Owners
  <2> QED BY <1>a, <2>1, <2>2, <2>3, LeftMove
<1>10. CASE EndEvent(j)
  <2>1. /\ job[j].pc = "finish" /\ e \in Events
        /\ UNCHANGED <<board, lost, recorded, timedOut>>
    BY <1>10, <1>a, LiveJobType DEF EndEvent
  <2>2. \A f \in Events : f # e => row'[f] = row[f]
    BY <1>10, <1>a, <2>1 DEF EndEvent
  <2>3. job'[j].pc = "none" /\ \A i \in Jobs : i # j => job'[i] = job[i]
    BY <1>10, <1>a DEF EndEvent, NoJob
  <2>4. \A f \in Events : Owners(f) \subseteq Owners(f)'
    BY <2>1, <2>3 DEF Owners
  <2>5. EndedHasUpdates'
    BY <2>1, <2>2 DEF LeftInv, EndedHasUpdates
  <2>6. \A f \in board' : Owners(f)' # {} \/ f \in lost' \cup timedOut'
    BY <1>a, <2>1, <2>4 DEF LeftInv
  <2>7. \A i \in Jobs : job'[i].pc = "finish" => job'[i].event \in recorded' \cup timedOut'
    BY <2>1, <2>3 DEF LeftInv
  <2> QED BY <2>5, <2>6, <2>7 DEF LeftInv
<1> QED BY <1>1, <1>2, <1>3, <1>4, <1>5, <1>6, <1>7, <1>8, <1>9, <1>10 DEF JobStep

LEMMA LeftStep ==
    ASSUME TypeOK, LeftInv, [Next]_vars
    PROVE  LeftInv'
<1>0. {"queued", "retry", "wait", "claim", "kickoff", "play", "close", "record", "finish"} = Live
  BY DEF Live, Running
<1>a. /\ job \in [Jobs -> MonitorJob] /\ row \in [Events -> EventRow] /\ board \subseteq Events
  BY DEF TypeOK
<1>b. ASSUME UNCHANGED <<job, board, lost, recorded, timedOut>>,
             \A f \in Events : row'[f].status = "ENDED" => row[f].status = "ENDED"
      PROVE  LeftInv'
  <2>1. \A f : Owners(f)' = Owners(f)
    BY <1>b DEF Owners
  <2> QED BY <1>a, <1>b, <2>1, LeftMove
<1>1. ASSUME NEW e \in Events, Approach(e) PROVE LeftInv'
  BY <1>1, <1>b DEF Approach
<1>2. ASSUME NEW w \in OddsThreads, Scan(w) \/ EndPass(w) \/ Interrupt(w) PROVE LeftInv'
  BY <1>2, <1>b DEF Scan, Read, EndPass, Interrupt
<1>3. ASSUME NEW w \in OddsThreads, NEW e \in Events, NEW j \in Jobs, PerformAsync(w, e, j)
      PROVE LeftInv'
  <2>1. /\ job[j].pc = "none" /\ job'[j].pc = "queued"
        /\ \A i \in Jobs : i # j => job'[i] = job[i]
        /\ UNCHANGED <<row, board, lost, recorded, timedOut>>
    BY <1>3, <1>a DEF PerformAsync
  <2>2. \A f \in Events : Owners(f) \subseteq Owners(f)'
    BY <1>0, <2>1 DEF Owners
  <2> QED BY <1>a, <2>1, <2>2, LeftMove
<1>4. ASSUME NEW w \in OddsThreads, Save(w) PROVE LeftInv'
  <2>1. \A f \in Events : row'[f].status = row[f].status
    BY <1>4, <1>a DEF Save, EventRow
  <2> QED BY <1>4, <1>b, <2>1 DEF Save
<1>5. ASSUME NEW j \in Jobs, JobStep(j) PROVE LeftInv'
  BY <1>5, LeftJobStep
<1>6. ASSUME NEW j \in Jobs, Raise(j) PROVE LeftInv'
  <2>1. job[j] \in [pc : Live, event : Events, waited : 0..MaxWait, tries : 0..MaxRetry]
    BY <1>6, <1>a DEF Raise, MonitorJob, NoJob, Running
  <2>2. job' = [job EXCEPT ![j] = [job[j] EXCEPT !.pc = "retry", !.waited = 0, !.tries = @ + 1]]
    BY <1>6 DEF Raise
  <2>3. /\ job'[j].pc = "retry" /\ job'[j].event = job[j].event
        /\ \A i \in Jobs : i # j => job'[i] = job[i]
        /\ UNCHANGED <<row, board, lost, recorded, timedOut>>
    BY <1>6, <1>a, <2>1, <2>2 DEF Raise
  <2>4. \A f \in Events : Owners(f) \subseteq Owners(f)'
    BY <1>0, <2>3 DEF Owners
  <2> QED BY <1>a, <2>3, <2>4, LeftMove
<1>7. ASSUME NEW j \in Jobs, Retry(j) PROVE LeftInv'
  <2>1. Goto(j, "retry", "queued") /\ UNCHANGED <<row, board, lost, recorded, timedOut>>
    BY <1>7 DEF Retry
  <2>2. /\ \A f \in Events : \A i \in Owners(f) : i \in Owners(f)'
        /\ \A i \in Jobs : job'[i].pc = "finish" => job[i].pc = "finish" /\ job'[i].event = job[i].event
    BY <1>0, <1>a, <2>1, GotoOwners
  <2> QED BY <1>a, <2>1, <2>2, LeftMove
<1>8. ASSUME NEW j \in Jobs, Exhaust(j) PROVE LeftInv'
  <2>1. /\ job'[j].pc = "none" /\ \A i \in Jobs : i # j => job'[i] = job[i]
        /\ lost' = lost \cup {job[j].event}
        /\ UNCHANGED <<row, board, recorded, timedOut>>
    BY <1>8, <1>a DEF Exhaust, NoJob
  <2>2. \A f \in Events : \A i \in Owners(f) : i \in Owners(f)' \/ f \in lost'
    BY <2>1 DEF Owners
  <2> QED BY <1>a, <2>1, <2>2, LeftMove
<1>9. CASE Crash
  <2>1. /\ \A i \in Jobs : job'[i] = IF job[i].pc \in Running THEN NoJob ELSE job[i]
        /\ lost' = lost \cup {job[j].event : j \in {i \in Jobs : job[i].pc \in Running}}
        /\ UNCHANGED <<row, board, recorded, timedOut>>
    BY <1>9 DEF Crash
  <2>2. \A f \in Events : \A i \in Owners(f) : i \in Owners(f)' \/ f \in lost'
    BY <2>1 DEF Owners
  <2>3. \A i \in Jobs : job'[i].pc = "finish" => job[i].pc = "finish" /\ job'[i].event = job[i].event
    BY <2>1 DEF NoJob
  <2> QED BY <1>a, <2>1, <2>2, <2>3, LeftMove
<1>10. CASE UNCHANGED vars
  BY <1>10, <1>b DEF vars
<1> QED BY <1>1, <1>2, <1>3, <1>4, <1>5, <1>6, <1>7, <1>8, <1>9, <1>10
        DEF Next, OddsStep, SidekiqStep

(* However passes overlap, jobs raise and processes die: a key of Redis    *)
(* outlives the jobs of its event only if Sidekiq lost one or one gave up  *)
(* waiting, and an ended event has its updates unless a job gave up.       *)
THEOREM LeavesNothingBehind == Spec => []NothingLeftBehind
<1>1. Init => LeftInv
  BY DEF Init, LeftInv, EndedHasUpdates, NoJob
<1>2. TypeOK /\ LeftInv /\ [Next]_vars => LeftInv'
  BY LeftStep
<1>3. LeftInv => NothingLeftBehind
  <2> SUFFICES ASSUME LeftInv, NEW e \in board PROVE LiveJobs(e) # {} \/ e \in lost \cup timedOut
    BY DEF NothingLeftBehind, KeyHasOwner, LeftInv
  <2>1. Owners(e) \subseteq LiveJobs(e)
    BY DEF Owners, LiveJobs
  <2> QED BY <2>1 DEF LeftInv
<1> QED BY <1>1, <1>2, <1>3, TypeCorrect, PTL DEF Spec
=============================================================================
