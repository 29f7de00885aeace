----------------------------- MODULE MCWorkers -----------------------------
(***************************************************************************)
(* The TLC instance of the workers of the application.  A behaviour is one *)
(* of the session cache, of the catalogue, of the schedule or of the       *)
(* registry, as part says; the others stay where they began.               *)
(***************************************************************************)
EXTENDS SessionCache, TLC

CONSTANTS
    None,
    Listed, Markets, Selections, EventOf, MarketOf, UniqOf, Already, Named, WithCc,
    Workers, MaxRaises, MaxOverlaps,
    Events, OpenDate, Threads, Period, Opens, NowEdge, Horizon, Tracked, Start, Last,
    Names, Down, Jobs, Home, Away

VARIABLES
    part,
    offered, events, markets, selections, work, raises, overlaps,
    time, stamp, pass, tracked, swept,
    rows, job, together

C == INSTANCE MarketCatalogue WITH Events <- Listed
S == INSTANCE OddsSchedule WITH MaxTime <- Last, now <- time
R == INSTANCE RunnerRegistry WITH overlapped <- together

(* Three events: one complete, one without a country code, one whose name  *)
(* does not read "home v away"; a market of each, the first with a runner  *)
(* that is listed with two handicaps. The first and the third event are    *)
(* listed from the start.                                                  *)
MCEventOf == "m1" :> "e1" @@ "m2" :> "e2" @@ "m3" :> "e3"
MCMarketOf == "s1" :> "m1" @@ "s2" :> "m1"
MCUniqOf == "s1" :> "u1" @@ "s2" :> "u1"

(* The minutes and hours of the code shrunk to a few ticks, in their order *)
MCOpenDate == "e" :> 6
MCPeriod == "soon" :> 0 @@ "later" :> 0 @@ "tomorow" :> 1 @@ "someday" :> 1
MCOpens == "soon" :> 2 @@ "later" :> 3 @@ "tomorow" :> 4 @@ "someday" :> 5
MCTracked == {[thread |-> 1, range |-> "later"]}

(* Three teams, two of them not in lower case, one spelt in two ways, and  *)
(* four matches between them                                               *)
MCDown == "Porto" :> "porto" @@ "porto" :> "porto" @@ "benfica" :> "benfica"
              @@ "Sporting" :> "sporting" @@ "sporting" :> "sporting"
MCHome == <<"Porto", "benfica", "Sporting", "porto">>
MCAway == <<"benfica", "Sporting", "Porto", "Sporting">>

ASSUME WorkersAssumption == C!CatalogueAssumption /\ S!ScheduleAssumption /\ R!RegistryAssumption

catalogueVars == <<offered, events, markets, selections, work, raises, overlaps>>
scheduleVars == <<time, stamp, pass, tracked, swept>>
registryVars == <<rows, job, together>>
allVars == <<part, vars, catalogueVars, scheduleVars, registryVars>>

WorkersInit ==
    /\ part \in {"session", "catalogue", "schedule", "registry"}
    /\ Init /\ C!Init /\ S!Init /\ R!Init

WorkersNext ==
    /\ \/ part = "session" /\ Next /\ UNCHANGED <<catalogueVars, scheduleVars, registryVars>>
       \/ part = "catalogue" /\ C!Next /\ UNCHANGED <<vars, scheduleVars, registryVars>>
       \/ part = "schedule" /\ S!Next /\ UNCHANGED <<vars, catalogueVars, registryVars>>
       \/ part = "registry" /\ R!Next /\ UNCHANGED <<vars, catalogueVars, scheduleVars>>
    /\ UNCHANGED part

(* Sidekiq goes on with the jobs that were started. *)
WorkersSpec ==
    /\ WorkersInit /\ [][WorkersNext]_allVars
    /\ \A w \in Workers : WF_catalogueVars(part = "catalogue" /\ C!Step(w))

-----------------------------------------------------------------------------
(* MarketCatalogue: though imports raise halfway, no selection is without  *)
(* its market and no market without its event, and rows are doubled only   *)
(* where performs of EventWorker overlap or runners share their uniq.      *)
ImportsSound == C!ImportsSound

(* MarketCatalogue: what Betfair lists ends up in the tables.              *)
EventuallyComplete == <>[](part # "catalogue") \/ C!EventuallyComplete

(* OddsSchedule: a pass of OddsWorker queues no event twice, though the    *)
(* windows move while it sweeps them, and of three sweeps of a window by   *)
(* one thread the last is more than a period after the first, however      *)
(* passes overlap.                                                         *)
SweepsSpaced == S!SweepsSpaced

(* RunnerRegistry: no monitor gets the id of another team, and monitors    *)
(* that do not overlap leave one row per team.                             *)
TeamsSound == R!TeamsSound
=============================================================================
