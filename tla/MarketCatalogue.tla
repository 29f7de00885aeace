--------------------------- MODULE MarketCatalogue --------------------------
(***************************************************************************)
(* EventWorker (app/workers/events.rb) copies Betfair's football events,   *)
(* their markets and the markets' selections into three tables, with three *)
(* calls of activerecord-import. Import validates every record against the *)
(* table (a query each), leaves out the invalid ones and writes the rest   *)
(* in one INSERT. A perform that raises is run again from the top by       *)
(* Sidekiq, possibly while the next day's perform is running.              *)
(***************************************************************************)
EXTENDS Naturals, FiniteSets

CONSTANTS
    Events, Markets,  \* what Betfair may come to offer
    Selections, \* and the runners of markets, which differ in their handicap too
    EventOf,    \* the event of each market
    MarketOf,   \* the market of each selection
    UniqOf,     \* its uniq, made of market_id and selection_id, not the handicap
    Already,    \* the events that are listed, with their markets, from the start
    Named,      \* the events whose name reads "home v away"
    WithCc,     \* the events that carry a country code
    Workers,    \* threads that may run EventWorker.perform at one time
    MaxRaises,  \* bound: performs that raise
    MaxOverlaps \* bound: overlaps are counted up to this number

(* What the constants are *)
CatalogueAssumption ==
    /\ EventOf \in [Markets -> Events]
    /\ MarketOf \in [Selections -> Markets]
    /\ Already \subseteq Events /\ Named \subseteq Events /\ WithCc \subseteq Events
    /\ DOMAIN UniqOf = Selections
    /\ IsFiniteSet(Workers)
    /\ MaxRaises \in Nat /\ MaxOverlaps \in Nat \ {0}

VARIABLES
    offered,     \* events, markets and selections Betfair lists at present
    events,      \* ids in the events table (its primary key)
    markets,     \* number of rows of the markets table with each market_id
    selections,  \* number of rows of the selections table for each runner
    work,        \* each perform: its pc and the records it has collected
    raises,      \* performs that have raised
    overlaps     \* history: performs that were started while another one ran

vars == <<offered, events, markets, selections, work, raises, overlaps>>

NoWork == [pc |-> "idle", todo |-> {}, evs |-> {}, mks |-> {}, sels |-> {}]

(* The types of the variables; a perform imports nothing before it has     *)
(* asked for the markets of every event.                                   *)
TypeOK ==
    /\ offered \in [events : SUBSET Events, markets : SUBSET Markets, selections : SUBSET Selections]
    /\ events \subseteq Events
    /\ markets \in [Markets -> Nat]
    /\ selections \in [Selections -> Nat]
    /\ work \in [Workers -> [pc : {"idle", "collect", "EVENT", "market", "MARKET",
                                   "selection", "SELECTION"},
                             todo : SUBSET Events, evs : SUBSET Events,
                             mks : SUBSET Markets, sels : SUBSET Selections]]
    /\ raises \in 0..MaxRaises
    /\ overlaps \in 0..MaxOverlaps
    /\ \A w \in Workers : work[w].todo # {} => work[w].pc = "collect"

Init ==
    /\ offered = [events |-> Already, markets |-> {m \in Markets : EventOf[m] \in Already},
                  selections |-> {}]
    /\ events = {}
    /\ markets = [m \in Markets |-> 0]
    /\ selections = [s \in Selections |-> 0]
    /\ work = [w \in Workers |-> NoWork]
    /\ raises = 0
    /\ overlaps = 0

-----------------------------------------------------------------------------
(* Betfair lists an event, opens a market on it, adds a runner to a market. *)

ListEvent(e) ==
    /\ e \notin offered.events
    /\ offered' = [offered EXCEPT !.events = @ \cup {e}]
    /\ UNCHANGED <<events, markets, selections, work, raises, overlaps>>

OpenMarket(m) ==
    /\ EventOf[m] \in offered.events
    /\ m \notin offered.markets
    /\ offered' = [offered EXCEPT !.markets = @ \cup {m}]
    /\ UNCHANGED <<events, markets, selections, work, raises, overlaps>>

AddRunner(s) ==
    /\ MarketOf[s] \in offered.markets
    /\ s \notin offered.selections
    /\ offered' = [offered EXCEPT !.selections = @ \cup {s}]
    /\ UNCHANGED <<events, markets, selections, work, raises, overlaps>>

-----------------------------------------------------------------------------
(* EventWorker.perform *)

(* Hash#valid_event?: event_cc holds the outcome of a comparison, which is *)
(* never nil, so the name alone decides.                                   *)
ValidEvent(e) == e \in Named

OthersRun(w) == \E v \in Workers \ {w} : work[v].pc # "idle"

(* get_all_events. Markets are asked for only when the answer counts some. *)
ListEvents(w) ==
    /\ work[w].pc = "idle"
    /\ LET valid == {e \in offered.events : ValidEvent(e)} IN
          work' = [work EXCEPT ![w] = [NoWork EXCEPT
                      !.pc = "collect",
                      !.evs = valid,
                      !.todo = valid \cap {EventOf[m] : m \in offered.markets}]]
    /\ overlaps' = IF OthersRun(w) /\ overlaps < MaxOverlaps THEN overlaps + 1 ELSE overlaps
    /\ UNCHANGED <<offered, events, markets, selections, raises>>

(* The variant that keeps only the markets of the last request. *)
CatalogueLast(w, e) ==
    /\ work[w].pc = "collect"
    /\ e \in work[w].todo
    /\ LET mks == {m \in offered.markets : EventOf[m] = e} IN
          work' = [work EXCEPT ![w].todo = @ \ {e}, ![w].mks = mks,
                               ![w].sels = {s \in offered.selections : MarketOf[s] \in mks}]
    /\ UNCHANGED <<offered, events, markets, selections, raises, overlaps>>

(* get_market_catalogue, one request for each event. The arrays hold what  *)
(* the answers list, each runner of a market once.                         *)
Catalogue(w, e) ==
    /\ work[w].pc = "collect"
    /\ e \in work[w].todo
    /\ LET mks == {m \in offered.markets : EventOf[m] = e}
           sels == {s \in offered.selections : MarketOf[s] \in mks} IN
          work' = [work EXCEPT ![w].todo = @ \ {e}, ![w].mks = @ \cup mks, ![w].sels = @ \cup sels]
    /\ UNCHANGED <<offered, events, markets, selections, raises, overlaps>>

(* Event.import: cc must be present and the id new.                        *)
ValidateEvents(w) ==
    /\ work[w].pc = "collect" /\ work[w].todo = {}
    /\ work' = [work EXCEPT ![w].pc = "EVENT", ![w].evs = (@ \cap WithCc) \ events]
    /\ UNCHANGED <<offered, events, markets, selections, raises, overlaps>>

(* The id is the primary key: the INSERT goes through as a whole or, when  *)
(* another perform has stored one of the events meanwhile, raises.         *)
InsertEvents(w) ==
    /\ work[w].pc = "EVENT"
    /\ work[w].evs \cap events = {}
    /\ events' = events \cup work[w].evs
    /\ work' = [work EXCEPT ![w].pc = "market"]
    /\ UNCHANGED <<offered, markets, selections, raises, overlaps>>

(* The variant that does not look the market up. *)
ValidateMarketsUnchecked(w) ==
    /\ work[w].pc = "market"
    /\ work' = [work EXCEPT ![w].pc = "MARKET"]
    /\ UNCHANGED <<offered, events, markets, selections, raises, overlaps>>

(* Market.import: market_id must be new.                                   *)
ValidateMarkets(w) ==
    /\ work[w].pc = "market"
    /\ work' = [work EXCEPT ![w].pc = "MARKET", ![w].mks = {m \in @ : markets[m] = 0}]
    /\ UNCHANGED <<offered, events, markets, selections, raises, overlaps>>

(* No index makes market_id unique: the rows go in. *)
InsertMarkets(w) ==
    /\ work[w].pc = "MARKET"
    /\ markets' = [m \in Markets |-> markets[m] + IF m \in work[w].mks THEN 1 ELSE 0]
    /\ work' = [work EXCEPT ![w].pc = "selection"]
    /\ UNCHANGED <<offered, events, selections, raises, overlaps>>

UniqStored(s) == \E t \in Selections : UniqOf[t] = UniqOf[s] /\ selections[t] > 0

(* Selection.import: uniq must not be in the table. Two runners of one     *)
(* import that have the same uniq both pass.                               *)
ValidateSelections(w) ==
    /\ work[w].pc = "selection"
    /\ work' = [work EXCEPT ![w].pc = "SELECTION", ![w].sels = {s \in @ : ~UniqStored(s)}]
    /\ UNCHANGED <<offered, events, markets, selections, raises, overlaps>>

InsertSelections(w) ==
    /\ work[w].pc = "SELECTION"
    /\ selections' = [s \in Selections |-> selections[s] + IF s \in work[w].sels THEN 1 ELSE 0]
    /\ work' = [work EXCEPT ![w] = NoWork]
    /\ UNCHANGED <<offered, events, markets, raises, overlaps>>

(* A request or a statement raises: the records collected are gone. *)
Raise(w) ==
    /\ work[w].pc # "idle"
    /\ raises < MaxRaises
    /\ raises' = raises + 1
    /\ work' = [work EXCEPT ![w] = NoWork]
    /\ UNCHANGED <<offered, events, markets, selections, overlaps>>

(* The INSERT of events raises by itself when it meets a stored id. *)
DuplicateKey(w) ==
    /\ work[w].pc = "EVENT"
    /\ work[w].evs \cap events # {}
    /\ work' = [work EXCEPT ![w] = NoWork]
    /\ UNCHANGED <<offered, events, markets, selections, raises, overlaps>>

Step(w) ==
    \/ ListEvents(w) \/ \E e \in Events : Catalogue(w, e)
    \/ ValidateEvents(w) \/ InsertEvents(w) \/ DuplicateKey(w)
    \/ ValidateMarkets(w) \/ InsertMarkets(w)
    \/ ValidateSelections(w) \/ InsertSelections(w)

Next ==
    \/ \E e \in Events : ListEvent(e)
    \/ \E m \in Markets : OpenMarket(m)
    \/ \E s \in Selections : AddRunner(s)
    \/ \E w \in Workers : Step(w) \/ Raise(w)

Spec == Init /\ [][Next]_vars

-----------------------------------------------------------------------------
(* A selection row is only ever there with the row of its market: whatever *)
(* perform wrote it, on whichever attempt, stored the market first.        *)
SelectionsHaveMarket ==
    \A s \in Selections : selections[s] > 0 => markets[MarketOf[s]] > 0

(* A market row belongs to an event that passed valid_event?, and that     *)
(* event is in its table unless it has no country code: Event.import then  *)
(* leaves it out and Market.import still stores its markets.               *)
MarketsHaveEvent ==
    \A m \in Markets : markets[m] > 0 =>
        /\ EventOf[m] \in Named
        /\ EventOf[m] \in WithCc => EventOf[m] \in events

(* What the validates_uniqueness_of of market.rb and selection.rb is worth *)
(* without an index: a market or a runner has at most one row more than    *)
(* performs have overlapped, and retries after raises add none.            *)
RowsBounded ==
    overlaps < MaxOverlaps =>
        /\ \A m \in Markets : markets[m] <= 1 + overlaps
        /\ \A s \in Selections : selections[s] <= 1 + overlaps

(* As long as no performs overlap, the rows with one uniq are all of one   *)
(* import: once there is one, none is added. (One import does write a uniq *)
(* as often as the market lists its selection_id with another handicap.)   *)
UniqWrittenOnce ==
    \A s \in Selections : overlaps = 0 /\ selections'[s] > selections[s] => ~UniqStored(s)

(* Though imports raise halfway, no selection is without its market and no *)
(* market without its event, and rows are doubled only where performs of   *)
(* EventWorker overlap or runners share their uniq.                        *)
ImportsSound ==
    [][SelectionsHaveMarket' /\ MarketsHaveEvent' /\ RowsBounded' /\ UniqWrittenOnce]_vars

Complete ==
    /\ offered.events \cap Named \cap WithCc \subseteq events
    /\ \A m \in offered.markets : EventOf[m] \in Named => markets[m] > 0
    /\ \A s \in offered.selections : EventOf[MarketOf[s]] \in Named => UniqStored(s)

(* What Betfair lists of a well-named event ends up in the tables, however *)
(* the imports of earlier performs were cut short (events.rb:64-66): each  *)
(* event, each market, and of the runners with one uniq at least one.      *)
EventuallyComplete == <>[]Complete
=============================================================================
