# Verification of Bot EfiSys and of the Redis server it runs on

The repository holds two programs. **Bot EfiSys** (`app/`, `lib/`, `config/`, `db/`) is a
Rails application whose work is done by Sidekiq workers: they import football events, markets
and selections from Betfair, refresh odds, and follow matches in play. **Redis 2.8.9**
(`redis-stable/`) is kept beside it and run from there; it holds Sidekiq's queues, the time
stamps and the board of matches in play, so what Redis promises is what the bot rests on.
This directory models the parts of both that carry state through concurrent steps, through
failures, or through data structures that are edited in place.

## 1. Inventory

| component | state | operations | interacts with | what is hard | what makes it correct |
|---|---|---|---|---|---|
| event monitoring (`app/workers/odds.rb`, `monitor_web.rb`) | `events.status`, `events.monitored`, Redis keys `event-web-monitor-<id>`, jobs | OddsWorker pass, MonitorWEBWorker job | Sidekiq queue, MySQL, Redis, Betfair web service | overlapping passes, passes cut between queueing and saving, retries, crashes | no event abandoned, no monitor too many without an overlap or a cut, ENDED is final, keys have owners |
| odds schedule (`odds.rb`, `event.rb`, `initializers/redis.rb`) | four time stamps in Redis | five windowed sweeps | clock, RefreshOddsWorker | windows move during a pass, check-then-set, restart clears stamps | no event queued twice by one pass, sweeps throttled |
| session cache (`lib/betfair/api.rb`, `account.rb`) | `accounts.time`, `accounts.ssoid` | `login` | Betfair, concurrent workers | check and read are two queries, late saves | bounded age of a token |
| market catalogue (`events.rb`, `hash.rb`, models) | tables events, markets, selections | EventWorker | Betfair, Sidekiq retry | three imports without a transaction, validation apart from insertion | rows belong together, are doubled by overlaps only, get complete |
| runner registry (`monitor_web.rb`, `runner.rb`) | table runners | find or create | concurrent monitors | check-then-insert, three treatments of case | right team, one row per team |
| transactions (`multi.c`, `redis.c`, `db.c`) | watch lists on both sides, queues, flags | MULTI, EXEC, WATCH, ... | every command, expiry, eviction, AOF and slaves | another client's writes between WATCH and EXEC, refusals, role changes | EXEC on fresh keys only, replicas agree |
| blocking lists (`t_list.c`) | blocked clients per key, ready keys | BLPOP, BRPOP, BRPOPLPUSH, pushes | MULTI blocks, RENAME, timeouts | serving pushes makes more keys ready | nobody starves, every element once |
| client unblocking (`networking.c`, `redis.c`) | list of unblocked clients, flags | serve, kill, time out, free, beforeSleep | event loop order | unblocked, blocked and freed in one iteration | no freed client on the list |
| publish and subscribe (`pubsub.c`, `networking.c`) | subscriptions with the client and with the server, output buffers | SUBSCRIBE, PSUBSCRIBE, PUBLISH, freeing | output limits, disconnections | clients marked for freeing while messages go on | both sides agree, each message once per subscription |
| append only file (`aof.c`) | file, buffer, difference, child, states | feed, flush, rewrite, switch on and off, load | disk, child, config | writes during a rewrite, short writes, failing children | file replays to the data |
| snapshots (`rdb.c`, `redis.c`) | dump.rdb, child, `dirty`, save points | SAVE, BGSAVE, cron, FLUSHALL, SHUTDOWN, load | children, AOF rewrite, replication | children that fail or are killed, saves that overtake them | unsaved changes are counted and get saved, the file never goes back |
| replication (`replication.c`) | stream offset, backlog, snapshot child, cached master | SYNC, PSYNC, feeding, timeouts, SLAVEOF | connections, BGSAVE | lost connections and replies, restarts, wrapped or freed backlog | a slave holds a prefix of its master's data and catches up |
| commands and keyspace (`db.c`, `t_string.c`, `t_hash.c`, `t_set.c`, `t_list.c`, `bitops.c`, `sort.c`) | keys, values with their encodings, expires | every writing command, expiry, eviction | WATCH, replicas | random and conditional commands, overwritten and emptied keys | replicas agree, no empty values, every change signalled |
| sorted sets (`t_zset.c`) | ziplist, or skip list with dictionary | ZADD to ZUNIONSTORE, ranges | | spans and levels, infinities, change of encoding | a map to scores, read exactly by rank, score and text |
| packed encodings (`ziplist.c`, `intset.c`) | blocks of bytes | insert, delete, find | every aggregate type | cascading widths, moves over themselves | decode to what was stored |
| HyperLogLog (`hyperloglog.c`) | registers, run lengths, cached cardinality | PFADD, PFCOUNT, PFMERGE | | edits of run lengths in place, stale cache | registers exact, cache fresh |
| hash tables and SCAN (`dict.c`, `db.c`) | two tables, cursor, iterators | add, delete, rehash, resize, SCAN | fork policy of the server | traversals while the table is resized | keys that stay are returned |
| Sentinel (`sentinel.c`) | epochs, votes, configuration, failover state, file, scripts | timer, INFO, hello, vote requests, commands | other Sentinels, servers | lost and late messages, restarts, timeouts, resets | one leader per epoch, same epoch same master, failovers end |

`PROJECT.json` lists every component, the ones left out too, and the hazards of the code line by
line with the properties that look at them.

## 2. Modules

A step is one access to shared state (a query, a Redis command, an answer of a service) for the
bot, and for Redis, which is one thread, one command or one turn of a loop whose intermediate
states matter. A definition whose comment says "the variant" is a plausible slip in the code
next to it; it is part of no specification, and serves to show that a property can fail.

The bot:

* **EventLifecycle**: `row` is the events table, `board` the Redis keys, `odds` the OddsWorker
  passes (`Scan`, `PerformAsync`, `Save`, `EndPass`), `job` the MonitorWEBWorker jobs with the
  statement they are at (`EmptyTimeline` to `EndEvent`). `Raise`, `Retry`, `Exhaust`, `Crash`
  and `Interrupt` are Sidekiq. `lost`, `timedOut` and `slips` are history: the last counts how often
  a pass read an event that another had in hand, or was cut between queueing and saving it.
* **OddsSchedule**: `stamp` is the four Redis keys, `pass` a thread going through the windows with
  what it has queued so far; `Check` and `SetStamp` are the two Redis calls of `time(range)`;
  `EndPass` is the return of `perform`, or a raise anywhere in it; `Boot` is the initializer.
  `swept` is history: the last two sweeps of one window by one thread (`tracked`, any).
* **SessionCache**: `account` is the row, `call` the login of each thread, from `Check`
  (`betfair_valid_ssoid`) to `SaveAccount`. ActiveRecord writes changed columns only: `dirty`.
* **MarketCatalogue**: `work` is a perform with the records it has collected; each import is a
  validation step and an insertion step, as activerecord-import has it. A selection is a runner of
  a market with its handicap, which `uniq` (`UniqOf`) leaves out: runners that differ in it only are
  two records of one import with one uniq, and both pass. `overlaps` is history.
* **RunnerRegistry**: `Find`, `Validate` and `Insert` are three statements. MySQL compares names
  without regard to case in `find_by`, Rails with `BINARY` in the validation.

Redis, clients:

* **Transactions**: `cl` holds a client's flags, queue and watched keys, `watchers` the lists of
  the keys, `repl` what was fed to AOF and slaves. `stale` and `refused` of a client are
  history; `refused` is `"partly"` when all refusals of the transaction were of the two kinds that
  do not flag it. `mode` is the condition of the server that makes `processCommand` refuse.
* **BlockingLists**: `blocking`, `readyDict`, `ready` as in the code; `serve` is the position of
  `handleClientsBlockedOnLists`. Lists have no encodings; elements are numbered.
* **ClientUnblocking**: one iteration of the event loop is file events, cron, `beforeSleep`.
* **PubSub**: `chans` and `pats` are the client's subscriptions, `subs` and `patSubs` the
  server's; a client over its output limit is marked, and freed by a later step.

Redis, durability:

* **AppendOnlyFile**: a file is a sequence of items (a rewritten data set, SELECT, a write) and
  the number of them that is synced; `Loads`, `DataAt` and `DbAt` say what `loadAppendOnlyFile`
  makes of it: that every item is of use where it stands, and the data set and the database after
  the first i items. A write that tears an
  item apart is not modelled: a short write falls between items. `nofsync` is the option
  no-appendfsync-on-rewrite: a flush with a child about (its own or that of a snapshot) writes and
  does not sync (`SkipsFsync`). `acked` is how many writes were acknowledged under the contract of the
  policy "always": it stands still while the last flush skipped its fsync (`skipped`).
* **Snapshots**: a dataset is the number of changes that led to it. `aged` and `retry` are the
  clocks of the save point and of the delay after a failed BGSAVE. `overtaken` is history: a
  writer of dump.rdb that passed a running child.
* **Replication**: the stream is a sequence of SELECTs and commands, each of length 1; `backlog`
  is the ring with its index, `child` the dataset being saved, `conn` what is under way to each
  slave. Commands carry the database they were applied to, so a missing SELECT shows.

Redis, data:

* **Dataset**, **StringCommands**, **KeyCommands**, **HashCommands**, **SetCommands**,
  **ListCommands**: each command is a function from a dataset to its result: the new dataset,
  the keys signalled, the dirty count and the form in which it is propagated. **Keyspace** puts
  them together with expiry, eviction, `call()` and a replica that executes what it is sent.
  A string is a number or a length; SORT takes the elements by their ranks (`Arranged`).
* **SkipList**, **SortedSet**: `t_zset.c`, both encodings. **SortedSetSpec** is the abstract
  specification (a map from elements to scores), which SortedSet implements with
  `scores <- ` the map its current encoding stands for.
* **Ziplist**, **Intset**, **HyperLogLog**: byte, cell and opcode layouts with the sizes scaled
  down, each beside the list, set or registers it should hold. **HllKeyspace** puts the
  HyperLogLog values beside those of Keyspace.
* **Dict**: two tables of chains, the cursor of one SCAN and one safe iterator.

Redis Sentinel:

* **SentinelElection**: several Sentinels; `sen` is their memory, `disk` their files, `reply` the
  votes under way. **SentinelFailover**: one Sentinel with the servers, its state machine, timeouts,
  tilt and file. The change of the master's address is a step that resets the tables and one step
  with a flush for each slave added back (`change`, `AddBack`), the old master last, and the
  Sentinel may die between any two. INFO adds slaves without writing the file (`unsaved`);
  `FlushElsewhere` is a flush for another reason (a vote, a new epoch or Sentinel, SENTINEL SET).
  **SentinelScripts**: the queue of notification scripts and its children. The
  election takes from the failover that the master may be down and a slave promoted at any time;
  the failover takes from the election that the Sentinel may or may not be leader.

`MC*.tla` are the instances TLC checks. `MCWorkers`, `MCClients`, `MCDurability`, `MCData` and
`MCSentinelFailover` hold several components that do not share state: `part` says which of them a
behaviour is about, and the others stay at their beginning (for `Keyspace`: with no commands to
use, `mix = {}`). The parameters of their components
are constants that the cfg files give the bounds below, so that the proofs about a component hold
for all values. The `*Proofs` modules hold the theorems; section 4 says which component is where.

## 3. Runs

| run | instance | shows |
|---|---|---|
| `lifecycle` | two pass threads, two jobs, a retry, a mishap (a cut pass or a crash), slips counted to two | every monitor too many has its overlap or cut, ENDED is final for an event without one; no event left alone, no orphan key, no event without updates, every event near its start is ended, except where Sidekiq lost a job |
| `workers` | two logins; two EventWorkers with three kinds of events, two runners with one uniq, a raise, overlaps counted to two; two passes through short windows; four matches in two spellings | bounded age of tokens; imports sound and complete; no event twice in a pass, sweeps spaced however passes interleave; right team, one row per team |
| `transactions` | two clients, two databases, queue of two, out of memory and read-only slave | watch lists and flags sound, EXEC on fresh keys, replicas agree |
| `clients` | three clients on two lists with three pushes; three clients in the event loop; two subscribers, two channels, a pattern | both sides of a block and of a subscription agree, nobody starves, every element and message once, the list of unblocked clients is sound |
| `durability` | AOF with both policies, with and without no-appendfsync-on-rewrite, three writes, two rewrites, an error, two switches; two slaves, a backlog of two, a fault, an administrator's act; three changes, two faults, a rewrite | files replay to the data and never go back, acknowledged writes are durable, slaves in step; liveness of switching on, of failed writes, of slaves and of saves |
| `data` | two keys and one of another database, two fields, three set elements, two list elements; sorted sets of three elements with scores -inf, 0, inf; ziplists of four entries, three keys in tables of one to eight buckets, five registers, intsets of four values | replicas agree, values sound, changes signalled; structures exact; sorted sets implement their specification |
| `sentinel_election` | three Sentinels in one epoch, or two Sentinels and two slaves in two epochs; quorum 2, a mishap, two answers on their way | one leader per epoch; one master per configuration epoch, also when failovers overlap |
| `sentinel_failover` | four servers, one never promoted, two faults; five scripts | promoted slave there when needed, parallel_syncs kept, a crash forgets no more than the file lags behind, failovers end, scripts bounded |
| `refused_write` | two clients, read-only slave and loading | **violated**: a refused command leaves the transaction unflagged |
| `session_token` | two logins | **violated**: a refused login is cached as nil and returned as a session |
| `replication_offset` | two slaves | **violated**: the offset told with FULLRESYNC is not that of the snapshot |
| `scan_guarantee` | three keys | **violated**: a SCAN across a shrink by a factor of four misses a key |

Bounds. Every race checked is between two parties on one key, row or event; a third one and a
second object are there where an order among waiters or a mix of cases matters (three blocked
clients, three kinds of events, three Sentinels for a majority). Counters (retries, waits,
periods, times to live) and sizes (lengths of fields, tables, registers) are small numbers on both
sides of their limits: 200 waits, 254 bytes and 16384 registers become 2, 8 and 5, as only reaching
the limit matters. `MaxSlips` and `MaxOverlaps` are where histories stop counting, and a
property says nothing of an event or a table with that many. Of `no-appendfsync-on-rewrite` the run
has both values under "always"; the policy "everysec", which promises nothing of acknowledged
writes, and the other parts of that run have one. A Sentinel begins with all the slaves in its table
or with none, which INFO shows later. `MaxReplies` bounds the votes under
way; `MaxRaises`, `MaxMishaps`, `MaxErrors`, `MaxFaults`, `MaxAdmin`, `MaxToggles`
bound how often things go wrong or are reconfigured; the hazards listed take one failure, or one
and a retry. Symmetry is used on clients, fields and Sentinels, in runs without liveness.
`CHECK_DEADLOCK FALSE` is set where the bounds bring the system to an end: clocks, writes, messages,
epochs and faults that are used up.

Fairness. Sidetiq queues OddsWorker every half minute and EventWorker every day, and Sidekiq
runs what is queued: weak fairness of the steps of a pass or a job. `Retry` is fair as
Sidekiq's poller re-queues retries; that a match ends at some time is `WF(Poll(j, TRUE))`.
Nothing is assumed of answers, raises or crashes. For Redis, `beforeSleep` runs in every
iteration (`Flush`, `FlushOff`), children end, `serverCron` starts the rewrites and saves that are
due and waits for children, time passes, and a slave goes on connecting and reading, from
`replicationCron` once a second; Sentinel's timer fires (`HandleMaster`), time passes and tilt ends.
Nothing is assumed of connections, commands or elections.

### What came to light

Backed by a run of its own:

* a write that a read-only slave refuses, and a command that a loading server refuses, while they
  are being queued do not spoil the transaction (`redis.c:2044`, `redis.c:2076`, run
  `refused_write`), against the comment of `flagTransaction` (`multi.c:80`); these are the exception
  of `RefusalNoted` in `FlagsSound`;
* a refused login is stored with a fresh time stamp, and handed out for 1200 seconds
  (`api.rb:274`, run `session_token`);
* a slave that joins a BGSAVE in progress is told too high an offset, one that waits for the
  next BGSAVE too low a one (`replication.c:398`, run `replication_offset`);
* `dictScan` misses keys when the table shrinks by a factor of four or more
  (`dict.c:801`, run `scan_guarantee`).

Stated as the exception in a property that otherwise holds (dropping the exception makes TLC
show the case):

* overlapping EventWorkers or monitors write rows twice in spite of `validates_uniqueness_of`
  (`overlaps` in `RowsBounded`, `overlapped` in `SerialComplete`), and one import writes a uniq as
  often as its market lists the selection with another handicap (`UniqWrittenOnce`);
* an overlap of passes on an event, or a pass cut between `perform_async` and `save`, starts a second
  monitor, which may bring the event back from ENDED (`slips` in `MonitorsBounded`, `EndedIsFinal`);
* two passes that both find a window due sweep it both: of one thread's sweeps only the last but one
  is sure to be a period ago (`ThrottledStep`);
* RENAME onto a key with waiting clients leaves them asleep, later pushes included (`renamed`
  in `NoneStarved`);
* a client unblocked while it is on the list of unblocked clients is listed twice, removed once
  when it is freed, and met by `beforeSleep` after that (`twice` in `FreedNotListed`);
* a rewrite renames the new AOF before it syncs it (`handler = "switch"` in `AckedIsDurable`);
* with no-appendfsync-on-rewrite and a child about, `flushAppendOnlyFile` returns before its fsync
  under the policy "always" too (`aof.c:353`): writes acknowledged then may be lost until the next
  flush that syncs (`skipped`, which holds `acked` back);
* a rewrite that ends while the AOF is in error empties the buffer, and the error status, with
  nothing left to write, stays (`buf = << >>` in `ErrorClears`);
* DEBUG RELOAD, a full synchronization and a child that outlives its server do not care for a
  running child: the file may go back and `dirty` get negative (`overtaken` in `Snapshots`);
* MOVE signals neither key (`EveryChangeSignalled`), against the comment at `db.c:226`;
* an insertion into a ziplist shrinks the block before it moves the tail when the next entry's
  length field gets narrower, and loses bytes (`ziplist.c:616`, `harmed` in `Ziplist`);
* a SENTINEL RESET while slaves are being reconfigured keeps the new epoch with the old address
  (`undone` in `SameEpochSameMaster`); with a quorum of 1 it lets two Sentinels, each having
  forgotten the others, win the same epoch (hence `Quorum = 2` in the instances);
* a Sentinel that reconfigures slaves compares a hello with the old master's address: when a later
  failover has gone back to the old master, it takes the later epoch and goes on to advertise its
  own promoted slave under it (`sentinel.c:2125`, `undone` in `SameEpochSameMaster`);
* a file written while slaves are being reconfigured names the promoted slave twice and the old
  master not at all, which a restart forgets; so are slaves that INFO showed since the file was
  last written (`sentinel.c:1806` does not flush), and what a change of address had not added back
  when the Sentinel died (`sentinel.c:1252`; `NoServerForgottenStep`);
* a failover does not end while the promoted slave stays subjectively down (`FailoverEnds`).

Seen while modelling, without a property of their own: `dbRandomKey` (`db.c:135`) loops for ever
on a replica all of whose keys have expired; PERSIST brings back a key that has logically expired
before it is looked up; INCRBYFLOAT is propagated as SET, which drops the replica's expire (hence
the implication in `KeyspaceAgrees`); ZREMRANGEBYLEX with mixed scores removes what the random
levels make it; Sentinel's counter of running scripts is not decremented for a script that is
retried, and a failed fork lets a job step over its limit of retries.

## 4. Proofs

The theorems hold for every value of the constants. Assumptions on constants are named in the
modules that declare them and evaluated by TLC in the runs; they say that numbers are naturals,
that `None` and `Nil` are no proper values, that windows follow one another
(`ScheduleAssumption`), that `downcase` is idempotent (`RegistryAssumption`) and the like. Where a
theorem needs more, it says so after ASSUME, and so does this list. Each is `Init => Inv`,
`Inv /\ [Next]_vars => Inv'`, `Inv => property`; what follows is the invariant and why the
property alone would not do.

The bot:

* **EventLifecycleProofs**. `NeverSilentlyAbandoned`: every event marked, or about to be saved by
  a pass, has a live job or is in `lost`; `PerformAsync` comes before `Save`, so the mark is never
  the first of the two. `MonitorsAreBounded`, `EndedStaysEnded`: the jobs of an event and the
  passes about to queue one for it are at most one more than its slips, and if they are that many the
  event is marked or in the hands of a pass, so that the next pass leaves it alone or slips; an
  ended event without a slip has none of them (`SlipInv`). The property alone is not inductive, as a
  pass queues for an event it read long before. `LeavesNothingBehind`: `LeftInv` has for every key a job that will still remove it (`Owners`), unless one was
  lost or gave up, and for every job about to end its event that the updates are recorded.
* **WorkersProofs**. `StampIsNearIssue`, `SessionAgeBounded`: for each login at each point the
  stamp it holds is bounded by the issue of the session it holds; a save of one column over the
  other's row keeps the bound since both calls are at most `MaxCall` long. `TeamsAreSound`: every
  row is in lower case; while monitors have not overlapped, at most one is midway (`Midway`), and
  the team it is about to create is still missing, which the validation and the insertion need of
  the lookup. `NoneQueuedTwice`, for any number of threads: what a pass has queued kicks off
  before the window the pass is at (`PassInv`), and the clock only brings it nearer; the counts stay
  until the pass is over, past its last window. `SweepsAreSpaced`, for any number of threads too:
  a thread writes the stamp after it read it and before it sweeps, and any other thread only writes
  later times, so the stamp is never older than a thread's last sweep but one, and when the thread
  finds the window due that sweep is more than a period ago (`SweptInv`).
  `ImportsAreSound`: at each point of a perform the parents of what it has collected are collected
  too or already in the tables (`Good`); while performs have not overlapped, the uniqs a
  validation let through are still absent when they are inserted (`Lone`, `Alone`); and the rows of a
  market or runner and the performs about to insert one are at most one more than the overlaps
  (`CountInv`).

Redis:

* **TransactionsProofs**. `WatchSound`, `FlagsAreSound`, `ExecIsFresh`: both sides of the watch
  lists agree, a client with a stale key is dirty, and one in EXEC watches nothing
  (`CasInv`, `RunningUnwatched`); a transaction with a refusal that calls `flagTransaction` is
  flagged, whichever refusals come before and after (`ErrInv`). The other two kinds of refusal break
  the claim of the comment, see section 3. `LinkSound`: the
  replica has the data in the middle of EXEC too (`LinkInv`).
* **ClientsProofs**, from `BlockingAssumption` only. `UnblockedAreListed`: the flag implies an entry
  for every client; a client that was not unblocked while listed has at most one entry, and none
  without the flag (`Entered`); nobody is processed during the cron, which frees clients.
  `NobodyIsStarved`: the lists of waiting clients and what the clients wait for match (`Matched`),
  every key with elements and waiting clients is queued to be served unless it is the one in
  hand (`Queued`, `InHand`), and the queue is empty between commands (`Turn`). `ElementsAreKept`:
  an element that was pushed is at exactly one place of one list, with one client, or deleted
  (`Held`). `RepliesAreReplicated`: what was propagated gives the lists of the server, in the
  middle of serving too. `MessagesAreDue`: both sides of the subscriptions match
  (`ChannelsMatch`, `PatternsMatch`), a client that is freed is on neither (`GoneSilent`), and the
  copies a message makes are as many as the subscriptions it matches, which a bijection
  between the two shows (`CopiesAreOwed`).
* **DurabilityProofs**, the AOF. `FileIsComplete`, `AckedAreDurable`, `FileKeepsItsData`: the file
  and the buffer hold every write once and in order under the database last selected
  (`WholeSelected`); so do the child's file and the difference kept for it, through the steps of the
  handler that renames and syncs it (`RewriteInv`); what is acknowledged is synced (`SyncInv`), but
  for the two exceptions of section 3.
* **DurabilityProofs**, the snapshots. `UnsavedIsCounted`, `SnapshotsNeverBack`: `dirty` bounds what
  the file lacks and `dirty - dirty_before_bgsave` what a running child's dataset lacks, so the
  counter is right whether the child ends well or not (`UpInv`). `NoFileGoesBack` puts this and
  the append only file together, over the steps of `MCDurability`.
* **DurabilityProofs**, replication. `SlavesAreInStep`, from `ReplicationAssumption` only: the
  stream itself is no variable of the model, as the code keeps only its end in the ring. The
  invariant says that there is one stream such that every cell of the ring that is in use holds its
  command (`Ring`), the data of the master are what it amounts to (`Line`), and the child's
  snapshot, each slave's data and what is under way to it are parts of it that follow one another
  (`Stands`). Slaves that joined a BGSAVE in progress or waited for one are told wrong offsets
  (section 3) and are the exception in the property.
* **KeyspaceProofs**, from `KeyspaceAssumption` only (elements are integers, the limits naturals),
  for all the commands of the four types and of `KeyCommands`, one by one. `Sound`
  types a dataset: aggregates are finite, have elements and keep to their limits, and expires are
  of keys that are there. `Like` says that a replica has the same values, in whatever encoding,
  and no expire of its own; the same encoding would not be invariant, as a command rewritten for
  the replica may convert there what it did not here. For each command, `Leaves`: from a
  sound dataset it leaves a sound one, with every change signalled; and `Replays`: from
  datasets that are like one another, the command as propagated (SPOP as SREM, the float
  increments as SET and HSET, an EXPIRE in the past as DEL, the others as they are) leads to such
  again. `Obeys` puts the two together for `call()`, and `InStep` is the invariant from which
  `ReplicaHoldsTheSame`, `ValuesAreSound` and `ChangesAreSignalled` follow. For SORT with STORE
  the order of a set's hash table must not matter: the ranks of the elements do not depend on
  the order in which they come (`SortedVector`).
* **KeyspaceProofs**, the HyperLogLog values, from no assumption. `CachedCardinalitiesAreFresh`:
  `hllSparseAdd` invalidates the cached cardinality on one of its paths only and `hllDenseAdd` on
  none, but PFADD does whenever the value changed (`HllInv`). That the registers
  themselves are right is only model-checked.
* **SentinelElectionProofs**. `VotesAreFinal`, also over restarts, as a vote is saved before it is
  answered. `LeaderIsUnique` assumes that the quorum is more than half of the Sentinels: there
  is a history with one vote of each Sentinel per epoch that backs every vote in memory, in files,
  on its way or counted (`HistoryInv`), so two majorities share a voter.
  `ConfigIsUnique` assumes no quorum: every configuration of an epoch (in memory, in files, in
  hellos) is traced to the one failover of that epoch.
* **SentinelFailoverProofs**. `ReconfigurationIsSound`, `ServersAreKept`: slaves are on their way
  only in `reconf_slaves`, the promoted slave is in the table in every state after its choice,
  and the file, what INFO showed since and what a change of address has yet to add back cover what is
  monitored, unless the file was written while slaves were reconfigured (`CoreInv`, `FileCovers`). `ScriptsAreBounded`: no job is queued twice, and the counter of running scripts,
  which a retry leaves too high, is never less than the number of children (`QueueInv`); hence the
  queue always has an idle job to drop.

Type correctness is proved of EventLifecycle, SessionCache, Transactions and SentinelFailover as
theorems, of the others as part of the invariant.

Only model-checked:

* everything under fairness (`EventuallyEnded`, `EventuallyComplete`, `AofRecovers`,
  `SlavesCatchUp`, `EventuallySaved`, `FailoverEnds`): liveness and ENABLED are beyond the prover;
* what recursive functions compute for every input: the walks of skip list, ziplist and intset,
  `DictScan`, the run lengths of sparse registers. `SortedSetExact`, `EncodingsExact`,
  `TraversalsExact` and the refinement of SortedSetSpec rest on them: that takes induction over
  data.

## 5. Plan

Modelled and proved about: the five components of the bot and the parts of Redis in section 1. What is left, in
this order:

1. The AOF and the slaves fed by `Keyspace`, in place of the abstract writes they have now.
2. Proofs: the skip list by the positions of its nodes in place of walks, so that
   `SortedSetExact` needs no induction; every other safety property outside the recursive data
   structures is proved.

## 6. Not modelled

* `RefreshOddsWorker` keeps no state between performs (its loop at `refresh.rb:22` imports the
  books of the last group of markets only), `B91Worker` is never scheduled and raises
  on every path, the Betfair requests are pure I/O, the Rails code is generated.
* Redis: Lua scripting (vendored), configuration, INFO, logs, MIGRATE and the event loop's calls
  to the operating system, which hold no state of their own; the encoding of commands and objects
  in files; the client tools and `redis-stable/deps`.
* Replication: the script cache, `min-slaves-to-write`, and the restart of a BGSAVE for waiting
  slaves after a fork that failed. Sentinel: connections, the timing of PINGs, SENTINEL MONITOR,
  REMOVE and SET (but for the flush it causes).
* HyperLogLog's floating point estimate: a function of the histogram of the registers, which
  stands for it.
