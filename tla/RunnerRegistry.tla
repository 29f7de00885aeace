--------------------------- MODULE RunnerRegistry ---------------------------
(***************************************************************************)
(* The table of teams, as MonitorWEBWorker.perform fills it: find_by, then *)
(* Runner.create when nothing was found (app/workers/monitor_web.rb), each *)
(* a query of its own, and create itself a SELECT for the uniqueness       *)
(* validation followed by an INSERT (app/models/runner.rb). The database   *)
(* compares names without regard to case in find_by, and byte by byte in   *)
(* the validation; before_save, which runs after the validation, writes    *)
(* the name in lower case.                                                 *)
(***************************************************************************)
EXTENDS Naturals, Sequences

CONSTANTS
    Names,    \* team names as Betfair spells them
    Down,     \* downcase, a function on Names
    Jobs,     \* monitor jobs
    Home, Away,  \* the names in each job's first answer
    None      \* nil

(* What the constants are *)
RegistryAssumption ==
    /\ Down \in [Names -> Names] /\ \A n \in Names : Down[Down[n]] = Down[n]
    /\ Home \in [Jobs -> Names] /\ Away \in [Jobs -> Names]
    /\ None \notin Nat /\ None \notin Names

VARIABLES
    rows,  \* names of the runners table, in the order of the ids
    job,   \* each job: pc, the side it looks up and the ids it got
    overlapped  \* history: a job was started while another one ran

vars == <<rows, job, overlapped>>

Sides == {"home", "away"}
Name(j) == IF job[j].side = "home" THEN Home[j] ELSE Away[j]

(* The types; the ids a job holds are ids of rows.                         *)
TypeOK ==
    /\ rows \in Seq(Names)
    /\ job \in [Jobs -> [pc : {"find", "validate", "insert", "done"}, side : Sides,
                         id : [Sides -> {0, None} \cup 1..Len(rows)]]]
    /\ overlapped \in BOOLEAN

NewJob == [pc |-> "find", side |-> "home", id |-> [s \in Sides |-> 0]]

Init ==
    /\ rows = << >>
    /\ job = [j \in Jobs |-> NewJob]
    /\ overlapped = FALSE

-----------------------------------------------------------------------------
(* The rows a lookup matches. *)
Matching(n) == {i \in 1..Len(rows) : Down[rows[i]] = Down[n]}
Same(n) == {i \in 1..Len(rows) : rows[i] = n}

(* The side is resolved: on to the other one, or to the rest of the job. *)
Resolved(j, id) ==
    job' = [job EXCEPT ![j].id[job[j].side] = id,
                       ![j].side = "away",
                       ![j].pc = IF job[j].side = "home" THEN "find" ELSE "done"]

OthersRun(j) == \E k \in Jobs \ {j} : job[k].pc # "done" /\ job[k] # NewJob

(* The variant whose lookup is byte by byte too. *)
FindExact(j) ==
    /\ job[j].pc = "find"
    /\ \/ \E i \in Same(Name(j)) : Resolved(j, i)
       \/ Same(Name(j)) = {} /\ job' = [job EXCEPT ![j].pc = "validate"]
    /\ overlapped' = (overlapped \/ OthersRun(j))
    /\ UNCHANGED rows

Find(j) ==
    /\ job[j].pc = "find"
    /\ \/ \E i \in Matching(Name(j)) : Resolved(j, i)
       \/ Matching(Name(j)) = {} /\ job' = [job EXCEPT ![j].pc = "validate"]
    /\ overlapped' = (overlapped \/ OthersRun(j))
    /\ UNCHANGED rows

(* validates_uniqueness_of :name. A record that fails it is not saved and  *)
(* its id is nil.                                                          *)
Validate(j) ==
    /\ job[j].pc = "validate"
    /\ \/ Same(Name(j)) # {} /\ Resolved(j, None)
       \/ Same(Name(j)) = {} /\ job' = [job EXCEPT ![j].pc = "insert"]
    /\ UNCHANGED <<rows, overlapped>>

Insert(j) ==
    /\ job[j].pc = "insert"
    /\ rows' = Append(rows, Down[Name(j)])
    /\ Resolved(j, Len(rows) + 1)
    /\ UNCHANGED overlapped

Done == (\A j \in Jobs : job[j].pc = "done") /\ UNCHANGED vars

Next == (\E j \in Jobs : Find(j) \/ Validate(j) \/ Insert(j)) \/ Done

Spec == Init /\ [][Next]_vars

-----------------------------------------------------------------------------
(* A job that has an id for a side has the id of that side's team, however *)
(* many jobs were creating teams at the time.                              *)
RightTeam ==
    \A j \in Jobs :
        /\ job[j].id["home"] \in 1..Len(rows) => rows[job[j].id["home"]] = Down[Home[j]]
        /\ job[j].id["away"] \in 1..Len(rows) => rows[job[j].id["away"]] = Down[Away[j]]

(* The validates_uniqueness_of :name of runner.rb: jobs that ran one after *)
(* another leave one row for each team, and every side has got an id,      *)
(* although lookup, validation and before_save treat case differently.     *)
SerialComplete ==
    ~overlapped =>
        /\ \A i, k \in 1..Len(rows) : rows[i] = rows[k] => i = k
        /\ \A j \in Jobs : job[j].pc = "done" => None \notin {job[j].id[s] : s \in Sides}

(* No monitor gets the id of another team, and monitors that do not        *)
(* overlap leave one row per team.                                         *)
TeamsSound == RightTeam /\ SerialComplete
=============================================================================
