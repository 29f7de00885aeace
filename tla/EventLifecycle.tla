--------------------------- MODULE EventLifecycle ---------------------------
(***************************************************************************)
(* The life of a betting event: OddsWorker (app/workers/odds.rb) finds the *)
(* events about to start and queues one MonitorWEBWorker job for each      *)
(* (app/workers/monitor_web.rb); the job follows the match and ends it.    *)
(* Both run on Sidekiq threads and share the events table, the job queue   *)
(* and the "event-web-monitor-<id>" keys of Redis.                         *)
(*                                                                         *)
(* A step is one access to shared state or one answer of the web service.  *)
(* A statement that raises has had no effect.                              *)
(***************************************************************************)
EXTENDS Naturals, FiniteSets

CONSTANTS
    Events,       \* primary keys of the events table
    OddsThreads,  \* threads that may run OddsWorker.perform at one time
    Jobs,         \* identities for the MonitorWEBWorker jobs alive at one time
    MaxWait,      \* empty answers accepted before giving up (200 in the code)
    MaxRetry,     \* Sidekiq's retries of a raising job (25 by default)
    MaxMishaps,   \* bound: interrupted OddsWorker passes and process crashes
    MaxSlips,     \* bound: slips of an event are counted up to this number
    None          \* no event

ASSUME BoundsAssumption ==
    MaxWait \in Nat /\ MaxRetry \in Nat /\ MaxMishaps \in Nat /\ MaxSlips \in Nat \ {0}
ASSUME FiniteAssumption == IsFiniteSet(OddsThreads) /\ IsFiniteSet(Jobs)
ASSUME NoneAssumption == None \notin Events

VARIABLES
    row,       \* the events table: status and monitored of each event
    near,      \* events whose open_date is at most 10 minutes away
    odds,      \* each OddsWorker pass: its pc, the events left, the one in hand
    job,       \* each MonitorWEBWorker job: its pc, event, empty answers, retries
    board,     \* events that have a key "event-web-monitor-<id>" in Redis
    recorded,  \* events whose updates have been imported
    timedOut,  \* history: events ended after MaxWait empty answers
    lost,      \* history: events one of whose jobs Sidekiq gave up or lost
    slips,     \* history: how often a pass read the event while another had it in
               \* hand, or was cut between perform_async and save of the event
    mishaps    \* mishaps so far

vars == <<row, near, odds, job, board, recorded, timedOut, lost, slips, mishaps>>

(* "not_started" stands for the code's string "not started". *)
Statuses == {"not_started", "IN_PLAY", "ENDED"}
Running == {"wait", "claim", "kickoff", "play", "close", "record", "finish"}
Live == Running \cup {"queued", "retry"}

Idle == [pc |-> "idle", todo |-> {}, cur |-> None]
NoJob == [pc |-> "none", event |-> None, waited |-> 0, tries |-> 0]

EventRow == [status : Statuses, monitored : BOOLEAN]
OddsPass == {Idle}
            \cup [pc : {"scan"}, todo : SUBSET Events, cur : {None}]
            \cup [pc : {"save"}, todo : SUBSET Events, cur : Events]
MonitorJob == {NoJob} \cup [pc : Live, event : Events, waited : 0..MaxWait, tries : 0..MaxRetry]

(* The types of the variables: every live job is about an event of the     *)
(* table, has seen at most MaxWait empty answers (the loop of              *)
(* monitor_web.rb:39-50) and is retried at most MaxRetry times.            *)
TypeOK ==
    /\ row \in [Events -> EventRow]
    /\ near \subseteq Events
    /\ odds \in [OddsThreads -> OddsPass]
    /\ job \in [Jobs -> MonitorJob]
    /\ board \subseteq Events
    /\ recorded \subseteq Events
    /\ timedOut \subseteq Events
    /\ lost \subseteq Events
    /\ slips \in [Events -> 0..MaxSlips]
    /\ mishaps \in 0..MaxMishaps

Init ==
    /\ row = [e \in Events |-> [status |-> "not_started", monitored |-> FALSE]]
    /\ near = {}
    /\ odds = [w \in OddsThreads |-> Idle]
    /\ job = [j \in Jobs |-> NoJob]
    /\ board = {}
    /\ recorded = {}
    /\ timedOut = {}
    /\ lost = {}
    /\ slips = [e \in Events |-> 0]
    /\ mishaps = 0

-----------------------------------------------------------------------------
(* The clock: an event's open_date comes within 10 minutes.                *)

Approach(e) ==
    /\ e \notin near
    /\ near' = near \cup {e}
    /\ UNCHANGED <<row, odds, job, board, recorded, timedOut, lost, slips, mishaps>>

-----------------------------------------------------------------------------
(* OddsWorker.perform, the part that starts monitors.                      *)

StartingNowAnyStatus == near

StartingNow == {e \in near : row[e].status # "ENDED"}

(* The events a pass has yet to queue, and the one whose monitored it has  *)
(* yet to save.                                                            *)
InHand(w) == odds[w].todo \cup {odds[w].cur}

SlipsWith(E) ==
    [e \in Events |-> IF e \in E /\ slips[e] < MaxSlips THEN slips[e] + 1 ELSE slips[e]]

Read(w, E) ==
    /\ odds[w].pc = "idle"
    /\ odds' = [odds EXCEPT ![w] = [pc |-> "scan", todo |-> E, cur |-> None]]
    /\ slips' = SlipsWith(E \cap UNION {InHand(v) : v \in OddsThreads})
    /\ UNCHANGED <<row, near, job, board, recorded, timedOut, lost, mishaps>>

ScanIgnoringMonitored(w) == Read(w, StartingNow)

(* Event.starting_now is one query: the pass works on the rows it read. *)
Scan(w) == Read(w, {e \in StartingNow : ~row[e].monitored})

PerformAsync(w, e, j) ==
    /\ odds[w].pc = "scan"
    /\ e \in odds[w].todo
    /\ job[j].pc = "none"
    /\ job' = [job EXCEPT ![j] =
          [pc |-> "queued", event |-> e, waited |-> 0, tries |-> 0]]
    /\ odds' = [odds EXCEPT ![w] = [pc |-> "save", todo |-> odds[w].todo \ {e}, cur |-> e]]
    /\ UNCHANGED <<row, near, board, recorded, timedOut, lost, slips, mishaps>>

(* e.save writes the changed attribute alone: the status another job has   *)
(* written since the query survives.                                       *)
Save(w) ==
    /\ odds[w].pc = "save"
    /\ row' = [row EXCEPT ![odds[w].cur].monitored = TRUE]
    /\ odds' = [odds EXCEPT ![w].pc = "scan", ![w].cur = None]
    /\ UNCHANGED <<near, job, board, recorded, timedOut, lost, slips, mishaps>>

(* The pass goes on to queue the odds refreshes (module OddsSchedule), which *)
(* touches none of this module's state, and ends.                          *)
EndPass(w) ==
    /\ odds[w].pc = "scan"
    /\ odds[w].todo = {}
    /\ odds' = [odds EXCEPT ![w] = Idle]
    /\ UNCHANGED <<row, near, job, board, recorded, timedOut, lost, slips, mishaps>>

(* A statement of the pass raises: Sidekiq runs perform again from the top. *)
Interrupt(w) ==
    /\ odds[w].pc # "idle"
    /\ mishaps < MaxMishaps
    /\ mishaps' = mishaps + 1
    /\ odds' = [odds EXCEPT ![w] = Idle]
    /\ slips' = SlipsWith({odds[w].cur})
    /\ UNCHANGED <<row, near, job, board, recorded, timedOut, lost>>

-----------------------------------------------------------------------------
(* MonitorWEBWorker.perform(id)                                            *)

Goto(j, from, to) ==
    /\ job[j].pc = from
    /\ job' = [job EXCEPT ![j].pc = to]

Fetch(j) ==
    /\ Goto(j, "queued", "wait")
    /\ UNCHANGED <<row, near, odds, board, recorded, timedOut, lost, slips, mishaps>>

EmptyTimeline(j) ==
    /\ job[j].pc = "wait"
    /\ job[j].waited < MaxWait
    /\ job' = [job EXCEPT ![j].waited = @ + 1]
    /\ UNCHANGED <<row, near, odds, board, recorded, timedOut, lost, slips, mishaps>>

GiveUpWaiting(j) ==
    /\ job[j].waited = MaxWait
    /\ Goto(j, "wait", "finish")
    /\ timedOut' = timedOut \cup {job[j].event}
    /\ UNCHANGED <<row, near, odds, board, recorded, lost, slips, mishaps>>

MatchOnline(j) ==
    /\ job[j].waited < MaxWait
    /\ Goto(j, "wait", "claim")
    /\ UNCHANGED <<row, near, odds, board, recorded, timedOut, lost, slips, mishaps>>

(* $redis.set(rediskey,nil) *)
ClaimKey(j) ==
    /\ Goto(j, "claim", "kickoff")
    /\ board' = board \cup {job[j].event}
    /\ UNCHANGED <<row, near, odds, recorded, timedOut, lost, slips, mishaps>>

(* The runner rows (module RunnerRegistry), then the event is in play. *)
KickOff(j) ==
    /\ Goto(j, "kickoff", "play")
    /\ row' = [row EXCEPT ![job[j].event].status = "IN_PLAY"]
    /\ UNCHANGED <<near, odds, board, recorded, timedOut, lost, slips, mishaps>>

(* One turn of the polling loop: the key is written before the loop looks  *)
(* at the match status.                                                    *)
Poll(j, over) ==
    /\ Goto(j, "play", IF over THEN "close" ELSE "play")
    /\ board' = board \cup {job[j].event}
    /\ UNCHANGED <<row, near, odds, recorded, timedOut, lost, slips, mishaps>>

DeleteKey(j) ==
    /\ Goto(j, "close", "record")
    /\ board' = board \ {job[j].event}
    /\ UNCHANGED <<row, near, odds, recorded, timedOut, lost, slips, mishaps>>

RecordUpdatesForgotten(j) ==
    /\ Goto(j, "record", "finish")
    /\ UNCHANGED <<row, near, odds, board, recorded, timedOut, lost, slips, mishaps>>

RecordUpdates(j) ==
    /\ Goto(j, "record", "finish")
    /\ recorded' = recorded \cup {job[j].event}
    /\ UNCHANGED <<row, near, odds, board, timedOut, lost, slips, mishaps>>

EndEventKeepingStatus(j) ==
    /\ job[j].pc = "finish"
    /\ row' = [row EXCEPT ![job[j].event].monitored = FALSE]
    /\ job' = [job EXCEPT ![j] = NoJob]
    /\ UNCHANGED <<near, odds, board, recorded, timedOut, lost, slips, mishaps>>

EndEvent(j) ==
    /\ job[j].pc = "finish"
    /\ row' = [row EXCEPT ![job[j].event] = [status |-> "ENDED", monitored |-> FALSE]]
    /\ job' = [job EXCEPT ![j] = NoJob]
    /\ UNCHANGED <<near, odds, board, recorded, timedOut, lost, slips, mishaps>>

-----------------------------------------------------------------------------
(* Sidekiq                                                                 *)

(* A raising job waits for its retry, which starts perform from the top. *)
RaiseWithoutRetry(j) ==
    /\ job[j].pc \in Running
    /\ job[j].tries < MaxRetry
    /\ job' = [job EXCEPT ![j] = NoJob]
    /\ UNCHANGED <<row, near, odds, board, recorded, timedOut, lost, slips, mishaps>>

Raise(j) ==
    /\ job[j].pc \in Running
    /\ job[j].tries < MaxRetry
    /\ job' = [job EXCEPT ![j].pc = "retry", ![j].waited = 0, ![j].tries = @ + 1]
    /\ UNCHANGED <<row, near, odds, board, recorded, timedOut, lost, slips, mishaps>>

Retry(j) ==
    /\ Goto(j, "retry", "queued")
    /\ UNCHANGED <<row, near, odds, board, recorded, timedOut, lost, slips, mishaps>>

Exhaust(j) ==
    /\ job[j].pc \in Running
    /\ job[j].tries = MaxRetry
    /\ job' = [job EXCEPT ![j] = NoJob]
    /\ lost' = lost \cup {job[j].event}
    /\ UNCHANGED <<row, near, odds, board, recorded, timedOut, slips, mishaps>>

(* The Sidekiq process dies: what its threads were running is gone, the    *)
(* queue and the retry set live on in Redis.                               *)
Crash ==
    /\ mishaps < MaxMishaps
    /\ mishaps' = mishaps + 1
    /\ odds' = [w \in OddsThreads |-> Idle]
    /\ job' = [j \in Jobs |-> IF job[j].pc \in Running THEN NoJob ELSE job[j]]
    /\ lost' = lost \cup {job[j].event : j \in {i \in Jobs : job[i].pc \in Running}}
    /\ slips' = SlipsWith({odds[w].cur : w \in OddsThreads})
    /\ UNCHANGED <<row, near, board, recorded, timedOut>>

-----------------------------------------------------------------------------

OddsStep(w) ==
    \/ Scan(w) \/ Save(w) \/ EndPass(w)
    \/ \E e \in Events, j \in Jobs : PerformAsync(w, e, j)

JobStep(j) ==
    \/ Fetch(j) \/ EmptyTimeline(j) \/ GiveUpWaiting(j) \/ MatchOnline(j)
    \/ ClaimKey(j) \/ KickOff(j) \/ Poll(j, TRUE) \/ Poll(j, FALSE)
    \/ DeleteKey(j) \/ RecordUpdates(j) \/ EndEvent(j)

SidekiqStep(j) == Raise(j) \/ Retry(j) \/ Exhaust(j)

Next ==
    \/ \E e \in Events : Approach(e)
    \/ \E w \in OddsThreads : OddsStep(w) \/ Interrupt(w)
    \/ \E j \in Jobs : JobStep(j) \/ SidekiqStep(j)
    \/ Crash

Spec == Init /\ [][Next]_vars

(* What the scheduling of the code guarantees: the pass is queued every 30 *)
(* seconds and runs on, a job's thread runs on, Sidekiq re-queues a job    *)
(* that waits for its retry, and every match is over at some time.         *)
Fairness ==
    /\ \A e \in Events : WF_vars(Approach(e))
    /\ \A w \in OddsThreads : WF_vars(OddsStep(w))
    /\ \A j \in Jobs : /\ WF_vars(JobStep(j))
                       /\ WF_vars(Poll(j, TRUE))
                       /\ WF_vars(Retry(j))

FairSpec == Spec /\ Fairness

-----------------------------------------------------------------------------
(* Properties                                                              *)

LiveJobs(e) == {j \in Jobs : job[j].pc \in Live /\ job[j].event = e}

(* An event that has been taken on (marked monitored by OddsWorker, or put *)
(* in play by a job) and has not ended still has a job that will end it,   *)
(* unless Sidekiq lost that job: queueing before saving (odds.rb:45-48)    *)
(* means that no interruption of a pass, overlap of passes or retry leaves *)
(* an event marked and unattended.                                         *)
NoSilentAbandon ==
    \A e \in Events :
        /\ row[e].status # "ENDED"
        /\ row[e].monitored \/ row[e].status = "IN_PLAY"
        => LiveJobs(e) # {} \/ e \in lost

(* What the test of e.monitored in OddsWorker.perform is worth when passes *)
(* overlap, are cut off and are run again: an event has at most one        *)
(* MonitorWEBWorker job (queued, running or waiting for a retry) more than *)
(* it has slips, so every extra monitor needs its own overlap or cut, and  *)
(* jobs that raise, retry or die never make one.                           *)
MonitorsBounded ==
    \A e \in Events : slips[e] < MaxSlips => Cardinality(LiveJobs(e)) <= 1 + slips[e]

(* A Redis key "event-web-monitor-<id>", which B91Worker takes for a match *)
(* in progress, outlives the event's jobs only when Sidekiq lost a job or  *)
(* a retried job gave up waiting for the timeline.                         *)
KeyHasOwner ==
    \A e \in board : LiveJobs(e) # {} \/ e \in lost \cup timedOut

(* An ended event has its updates in the database, unless the web service  *)
(* never answered for it (monitor_web.rb:104-108).                         *)
EndedHasUpdates ==
    \A e \in Events : row[e].status = "ENDED" => e \in recorded \cup timedOut

(* No Redis key outlives the jobs of its event, and no event ends without  *)
(* its updates, except where Sidekiq lost the job or the web service never *)
(* answered.                                                               *)
NothingLeftBehind == KeyHasOwner /\ EndedHasUpdates

(* ENDED is final for an event without a slip, whatever slips other events *)
(* had: no retry, late save or later pass brings it back into play. After  *)
(* a slip a second monitor may, and the event goes from ENDED to IN_PLAY.  *)
EndedIsFinal ==
    [][\A e \in Events :
          row[e].status = "ENDED" /\ slips[e] = 0 => row'[e].status = "ENDED"]_vars

(* Every event that comes close to its start is ended, whatever the web    *)
(* service answers, unless Sidekiq runs out of retries for its job.        *)
EventuallyEnded ==
    \A e \in Events : e \in near ~> row[e].status = "ENDED" \/ e \in lost
=============================================================================
