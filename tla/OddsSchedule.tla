---------------------------- MODULE OddsSchedule ----------------------------
(***************************************************************************)
(* Which events OddsWorker (app/workers/odds.rb) sends to                  *)
(* RefreshOddsWorker, and how often. Every half minute a pass goes through *)
(* five windows of kick-off times. The first is swept by every pass; each  *)
(* of the other four at most once in its period, which is kept by a time   *)
(* stamp in Redis: time(range) reads the stamp, and writes it in a second  *)
(* call. The clock runs between any two steps, so the windows move under a *)
(* pass. The first half of perform, which starts the monitors, is module   *)
(* EventLifecycle.                                                         *)
(***************************************************************************)
EXTENDS Integers, Sequences

CONSTANTS
    Events,
    OpenDate,    \* kick-off of each event
    Threads,     \* threads that may run a pass at one time
    Period,      \* seconds between two sweeps of a window: 300, 600, 1800, 3600
    Opens,       \* from now to where a window opens: 11 min, 2, 5, 12 h
    NowEdge,     \* the first window ends 10 min from now
    Horizon,     \* stands for no upper end
    Tracked,     \* bound: the threads and windows of which sweeps are noted, any
    Start, MaxTime  \* bound: the clock runs from Start to MaxTime

Ranges == <<"soon", "later", "tomorow", "someday">>
Range == {"soon", "later", "tomorow", "someday"}

(* What the constants are *)
ScheduleAssumption ==
    /\ OpenDate \in [Events -> Int]
    /\ Period \in [Range -> Nat] /\ Opens \in [Range -> Nat]
    /\ NowEdge \in Nat /\ Horizon \in Nat /\ NowEdge < Opens["soon"]
    /\ \A i \in 1..3 : Opens[Ranges[i]] < Opens[Ranges[i + 1]]
    /\ Opens["someday"] < Horizon
    /\ Tracked \subseteq [thread : Threads, range : Range]
    /\ MaxTime \in Nat /\ Start \in 0..MaxTime

VARIABLES
    now,     \* Time.now
    stamp,   \* the Redis keys soon, later, tomorow and someday
    pass,    \* each thread: the window it is at, what it does, and how often
             \* it has queued each event
    tracked, \* one of Tracked
    swept    \* history: when this thread swept this window, the last two times
             \* since a process was started

vars == <<now, stamp, pass, tracked, swept>>

Idle == [at |-> 0, pc |-> "idle", queued |-> [e \in Events |-> 0]]

(* The types; no time that was noted is ahead of the clock.                *)
TypeOK ==
    /\ now \in Start..MaxTime
    /\ stamp \in [Range -> 0..now]
    /\ pass \in [Threads -> [at : 0..5, pc : {"idle", "check", "set", "sweep", "done"},
                             queued : [Events -> Nat]]]
    /\ tracked \in Tracked
    /\ swept \in Seq(0..now) /\ Len(swept) <= 2

Init ==
    /\ now = Start
    /\ stamp = [r \in Range |-> 0]
    /\ pass = [t \in Threads |-> Idle]
    /\ tracked \in Tracked
    /\ swept = << >>

-----------------------------------------------------------------------------
(* The scopes of app/models/event.rb. *)

StartingNow(e) == OpenDate[e] <= now + NowEdge

(* The variant of the windows without an upper end. *)
StartingOpen(i, e) == OpenDate[e] >= now + Opens[Ranges[i]]

Closes(i) == IF i = 4 THEN Horizon ELSE Opens[Ranges[i + 1]]
Starting(i, e) ==
    /\ OpenDate[e] >= now + Opens[Ranges[i]]
    /\ OpenDate[e] < now + Closes(i)

(* RefreshOddsWorker.perform_async for every event of a window. *)
Queue(t, es) == [e \in Events |-> pass[t].queued[e] + IF e \in es THEN 1 ELSE 0]

-----------------------------------------------------------------------------
Tick ==
    /\ now < MaxTime
    /\ now' = now + 1
    /\ UNCHANGED <<stamp, pass, tracked, swept>>

(* A pass begins and sweeps Event.starting_now. *)
SweepNow(t) ==
    /\ pass[t].pc = "idle"
    /\ pass' = [pass EXCEPT ![t] =
                  [at |-> 1, pc |-> "check", queued |-> Queue(t, {e \in Events : StartingNow(e)})]]
    /\ UNCHANGED <<now, stamp, tracked, swept>>

Due(r) == now - stamp[r] > Period[r]

(* The window after this one, if there is one. *)
Advance(p) == IF p.at = 4 THEN [p EXCEPT !.pc = "done"] ELSE [p EXCEPT !.at = @ + 1, !.pc = "check"]

(* time(range): the stamp is read and compared. *)
Check(t) ==
    /\ pass[t].pc = "check"
    /\ pass' = [pass EXCEPT ![t] = IF Due(Ranges[@.at]) THEN [@ EXCEPT !.pc = "set"] ELSE Advance(@)]
    /\ UNCHANGED <<now, stamp, tracked, swept>>

(* time(range): the stamp is written. *)
SetStamp(t) ==
    /\ pass[t].pc = "set"
    /\ stamp' = [stamp EXCEPT ![Ranges[pass[t].at]] = now]
    /\ pass' = [pass EXCEPT ![t].pc = "sweep"]
    /\ UNCHANGED <<now, tracked, swept>>

IsTracked(t) == tracked = [thread |-> t, range |-> Ranges[pass[t].at]]

Sweep(t) ==
    /\ pass[t].pc = "sweep"
    /\ LET es == {e \in Events : Starting(pass[t].at, e)} IN
          pass' = [pass EXCEPT ![t] = Advance([@ EXCEPT !.queued = Queue(t, es)])]
    /\ swept' = CASE ~IsTracked(t) -> swept
                   [] IsTracked(t) /\ swept = << >> -> <<now>>
                   [] OTHER -> <<swept[Len(swept)], now>>
    /\ UNCHANGED <<now, stamp, tracked>>

(* perform returns, or a statement of it raises. *)
EndPass(t) ==
    /\ pass[t].pc # "idle"
    /\ pass' = [pass EXCEPT ![t] = Idle]
    /\ UNCHANGED <<now, stamp, tracked, swept>>

(* A process starts: config/initializers/redis.rb clears the stamps, those *)
(* of a pass that another process is in the middle of too.                 *)
Boot ==
    /\ stamp' = [r \in Range |-> 0]
    /\ swept' = << >>
    /\ UNCHANGED <<now, pass, tracked>>

Next ==
    \/ Tick \/ Boot
    \/ \E t \in Threads : SweepNow(t) \/ Check(t) \/ SetStamp(t) \/ Sweep(t) \/ EndPass(t)

Spec == Init /\ [][Next]_vars

-----------------------------------------------------------------------------
(* However long a pass takes, it queues no event twice: the windows are    *)
(* swept from the near one to the far one while events only come nearer.   *)
OncePerPass == \A t \in Threads, e \in Events : pass[t].queued[e] <= 1

(* What the stamps are worth although they are read and written in two     *)
(* calls, by any number of passes at a time, and the window is swept some  *)
(* time after: when a thread sweeps a window, its last sweep but one is    *)
(* more than the period ago, unless a process was started since. So n      *)
(* threads together sweep a window at most 2n times in a period.           *)
ThrottledStep ==
    Sweep(tracked.thread) /\ IsTracked(tracked.thread) /\ Len(swept) = 2
        => now - swept[1] > Period[tracked.range]

(* Both, of every step. *)
SweepsSpaced == [][OncePerPass' /\ ThrottledStep]_vars
=============================================================================
