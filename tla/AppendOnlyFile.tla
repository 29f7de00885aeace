--------------------------- MODULE AppendOnlyFile ---------------------------
(***************************************************************************)
(* The append only file of Redis (src/aof.c): commands are fed to a buffer *)
(* that beforeSleep writes out, a forked child rewrites the file in the    *)
(* background while the parent keeps the difference, and the two are       *)
(* merged by the handler of the child's exit. The AOF is switched on and   *)
(* off at run time; writes to the disk fail or fall short.                 *)
(* The data set is the number of write commands executed, each against one *)
(* database. A file is a sequence of items: a rewritten data set, SELECT,  *)
(* or a write. An inode has its items and how many of them are synced.     *)
(***************************************************************************)
EXTENDS Integers, Sequences

CONSTANTS
    Dbs,          \* databases
    Policies,     \* appendfsync: "always", "everysec", or either
    NoFsync,      \* no-appendfsync-on-rewrite: TRUE, FALSE, or either
    MaxWrites,    \* bound: write commands
    MaxRewrites,  \* bound: children forked
    MaxErrors,    \* bound: failures of the disk and of children
    MaxToggles    \* bound: CONFIG SET appendonly

AofAssumption ==
    /\ -1 \notin Dbs /\ Dbs # {}
    /\ Policies \subseteq {"always", "everysec"}
    /\ NoFsync \subseteq BOOLEAN
    /\ MaxWrites \in Nat /\ MaxRewrites \in Nat /\ MaxErrors \in Nat /\ MaxToggles \in Nat

VARIABLES
    policy,     \* server.aof_fsync, given at the start
    nofsync,    \* server.aof_no_fsync_on_rewrite, given at the start
    state,      \* server.aof_state: "on", "off" or "wait" (WAIT_REWRITE)
    hist,       \* the database of each write command executed
    selected,   \* server.aof_selected_db
    buf,        \* server.aof_buf
    rwbuf,      \* server.aof_rewrite_buf_blocks
    file,       \* the inode named appendonly.aof
    child,      \* the rewrite: "none", "running", "exited"
    tmp,        \* the inode of the child's file
    handler,    \* backgroundRewriteDoneHandler: "none", "rename" or "switch"
    status,     \* server.aof_last_write_status
    scheduled,  \* server.aof_rewrite_scheduled
    alive,      \* the process has not exited
    skipped,    \* an fsync that "always" wants was left out, and none done since
    acked,      \* writes whose replies may have been sent, with skipped FALSE
    spent       \* what the bounds count

vars == <<policy, nofsync, state, hist, selected, buf, rwbuf, file, child, tmp, handler, status, scheduled,
          alive, skipped, acked, spent>>

Base(n) == [kind |-> "base", n |-> n, db |-> -1]
Select(d) == [kind |-> "select", n |-> 0, db |-> d]
Write(n, d) == [kind |-> "write", n |-> n, db |-> d]
Item == [kind : {"base", "select", "write"}, n : 0..MaxWrites, db : Dbs \cup {-1}]
Inode == [items : Seq(Item), synced : Nat]
NoFile == [items |-> << >>, synced |-> 0]

(* The types; an inode is synced up to a point it has reached, and the     *)
(* rewrite buffer is empty while no rewrite goes on.                       *)
TypeOK ==
    /\ policy \in Policies /\ nofsync \in NoFsync
    /\ state \in {"on", "off", "wait"}
    /\ hist \in Seq(Dbs) /\ Len(hist) <= MaxWrites
    /\ selected \in Dbs \cup {-1}
    /\ buf \in Seq(Item) /\ rwbuf \in Seq(Item)
    /\ file \in Inode /\ tmp \in Inode
    /\ file.synced <= Len(file.items) /\ tmp.synced <= Len(tmp.items)
    /\ child \in {"none", "running", "exited"}
    /\ handler \in {"none", "rename", "switch"}
    /\ status \in {"ok", "err"}
    /\ scheduled \in BOOLEAN /\ alive \in BOOLEAN /\ skipped \in BOOLEAN
    /\ acked \in 0..Len(hist)
    /\ child = "none" => rwbuf = << >>

Init ==
    /\ policy \in Policies /\ nofsync \in NoFsync
    /\ state = "on"
    /\ hist = << >>
    /\ selected = -1
    /\ buf = << >> /\ rwbuf = << >>
    /\ file = NoFile /\ tmp = NoFile
    /\ child = "none" /\ handler = "none"
    /\ status = "ok"
    /\ scheduled = FALSE /\ alive = TRUE
    /\ skipped = FALSE /\ acked = 0
    /\ spent = [rewrites |-> 0, errors |-> 0, toggles |-> 0]

Spend(what) == spent' = [spent EXCEPT ![what] = @ + 1]
Idle == alive /\ handler = "none"

-----------------------------------------------------------------------------
(* loadAppendOnlyFile: the commands are executed in order, by a client     *)
(* that starts on database 0. After the first i items the data set is that *)
(* of the last data, and the database the last one selected.               *)
DataAt(items, i, n) ==
    \/ n = 0 /\ \A j \in 1..i : items[j].kind = "select"
    \/ \E j \in 1..i : /\ items[j].kind # "select" /\ items[j].n = n
                       /\ \A k \in j + 1..i : items[k].kind = "select"

DbAt(items, i, d) ==
    \/ d = 0 /\ \A j \in 1..i : items[j].kind = "write"
    \/ \E j \in 1..i : /\ items[j].kind # "write" /\ items[j].db = d
                       /\ \A k \in j + 1..i : items[k].kind = "write"

(* A write is of use where it was first executed, after those before it; a *)
(* rewritten data set can only begin a file.                               *)
Loads(items) ==
    \A i \in 1..Len(items) :
        /\ items[i].kind = "base" => i = 1
        /\ items[i].kind = "write" => DataAt(items, i - 1, items[i].n - 1) /\ DbAt(items, i - 1, items[i].db)

-----------------------------------------------------------------------------
(* A write command; processCommand refuses it while the AOF has errors,    *)
(* and propagate feeds the AOF unless it is off (feedAppendOnlyFile).      *)
WriteCommand(d) ==
    /\ Idle /\ status = "ok"
    /\ Len(hist) < MaxWrites
    /\ hist' = Append(hist, d)
    /\ LET fed == IF state = "off" THEN << >>
                  ELSE (IF d # selected THEN <<Select(d)>> ELSE << >>) \o <<Write(Len(hist) + 1, d)>> IN
          /\ selected' = IF state = "off" THEN selected ELSE d
          /\ buf' = IF state = "on" THEN buf \o fed ELSE buf
          /\ rwbuf' = IF child # "none" THEN rwbuf \o fed ELSE rwbuf
    /\ UNCHANGED <<policy, nofsync, state, file, child, tmp, handler, status, scheduled, alive, skipped,
                   acked, spent>>

(* The variant that leaves it to the background to sync. *)
WrittenUnsynced(saving) == [file EXCEPT !.items = @ \o buf]

(* No fsync is done while a child writes, a rewrite or a snapshot, if the  *)
(* user wants it so.                                                       *)
SkipsFsync(saving) == nofsync /\ (child # "none" \/ saving)

(* The file after write(2), and fsync(2) if it is wanted each time. *)
Written(saving) ==
    LET items == file.items \o buf IN
    [items |-> items,
     synced |-> IF policy = "always" /\ ~SkipsFsync(saving) THEN Len(items) ELSE file.synced]

(* flushAppendOnlyFile, which beforeSleep calls before replies are sent;   *)
(* saving says whether the child of a snapshot runs. While the AOF is off  *)
(* there is no file to write to.                                           *)
Flush(saving) ==
    /\ Idle /\ state # "off"
    /\ file' = IF buf = << >> THEN file ELSE Written(saving)
    /\ buf' = << >>
    /\ status' = IF buf = << >> THEN status ELSE "ok"
    /\ skipped' = IF buf = << >> THEN skipped ELSE policy = "always" /\ SkipsFsync(saving)
    /\ acked' = IF skipped' THEN acked ELSE Len(hist)
    /\ UNCHANGED <<policy, nofsync, state, hist, selected, rwbuf, child, tmp, handler, scheduled, alive,
                   spent>>

(* write(2) fails, or falls short by k items left in the file because      *)
(* ftruncate(2) fails too. The policy "always" gives up.                   *)
FlushError(k) ==
    /\ Idle /\ state # "off"
    /\ k < Len(buf)
    /\ spent.errors < MaxErrors /\ Spend("errors")
    /\ file' = [file EXCEPT !.items = @ \o SubSeq(buf, 1, k)]
    /\ buf' = SubSeq(buf, k + 1, Len(buf))
    /\ status' = "err"
    /\ alive' = (policy # "always")
    /\ UNCHANGED <<policy, nofsync, state, hist, selected, rwbuf, child, tmp, handler, scheduled, skipped,
                   acked>>

(* The same without a file: the descriptor is -1 and write(2) fails. *)
FlushOff ==
    /\ Idle /\ state = "off"
    /\ status' = IF buf = << >> THEN status ELSE "err"
    /\ alive' = (policy # "always" \/ buf = << >>)
    /\ acked' = Len(hist)
    /\ UNCHANGED <<policy, nofsync, state, hist, selected, buf, rwbuf, file, child, tmp, handler, scheduled,
                   skipped, spent>>

(* The fsync of the background thread, which "always" does not ask for. *)
BackgroundFsync ==
    /\ alive /\ state # "off" /\ handler # "switch"
    /\ policy = "everysec"
    /\ file.synced < Len(file.items)
    /\ file' = [file EXCEPT !.synced = Len(file.items)]
    /\ UNCHANGED <<policy, nofsync, state, hist, selected, buf, rwbuf, child, tmp, handler, status, scheduled,
                   alive, skipped, acked, spent>>

-----------------------------------------------------------------------------
(* The rewrite *)

(* rewriteAppendOnlyFileBackground: the child writes, and syncs, the data  *)
(* set of this moment.                                                     *)
Fork ==
    /\ child = "none"
    /\ spent.rewrites < MaxRewrites
    /\ child' = "running"
    /\ tmp' = [items |-> <<Base(Len(hist))>>, synced |-> 1]
    /\ scheduled' = FALSE
    /\ selected' = -1

(* BGREWRITEAOF, the growth of the file, or a rewrite that was scheduled.  *)
StartRewrite ==
    /\ Idle
    /\ Fork
    /\ Spend("rewrites")
    /\ UNCHANGED <<policy, nofsync, state, hist, buf, rwbuf, file, handler, status, alive, skipped, acked>>

ChildExits ==
    /\ alive
    /\ child = "running"
    /\ child' = "exited"
    /\ UNCHANGED <<policy, nofsync, state, hist, selected, buf, rwbuf, file, tmp, handler, status, scheduled,
                   alive, skipped, acked, spent>>

(* The end of backgroundRewriteDoneHandler, on every path. *)
Cleanup ==
    /\ rwbuf' = << >>
    /\ child' = "none"
    /\ tmp' = NoFile
    /\ handler' = "none"

(* The variant that schedules nothing. *)
RewriteFailsForGood ==
    /\ alive
    /\ child = "running" \/ (child = "exited" /\ handler # "switch")
    /\ spent.errors < MaxErrors /\ Spend("errors")
    /\ Cleanup
    /\ UNCHANGED <<policy, nofsync, state, hist, selected, buf, file, status, scheduled, alive, skipped,
                   acked>>

(* The child fails, or its file cannot be opened, written or renamed. *)
RewriteFails ==
    /\ alive
    /\ child = "running" \/ (child = "exited" /\ handler # "switch")
    /\ spent.errors < MaxErrors /\ Spend("errors")
    /\ Cleanup
    /\ scheduled' = (scheduled \/ state = "wait")
    /\ UNCHANGED <<policy, nofsync, state, hist, selected, buf, file, status, alive, skipped, acked>>

(* aofRewriteBufferWrite: the difference goes into the new file. *)
WriteDifference ==
    /\ Idle
    /\ child = "exited"
    /\ tmp' = [tmp EXCEPT !.items = @ \o rwbuf]
    /\ handler' = "rename"
    /\ UNCHANGED <<policy, nofsync, state, hist, selected, buf, rwbuf, file, child, status, scheduled, alive,
                   skipped, acked, spent>>

RenameFile ==
    /\ alive
    /\ handler = "rename"
    /\ file' = tmp
    /\ handler' = "switch"
    /\ UNCHANGED <<policy, nofsync, state, hist, selected, buf, rwbuf, child, tmp, status, scheduled, alive,
                   skipped, acked, spent>>

(* The variant that keeps the commands of the buffer. *)
SwitchBufferKept == buf

(* The buffer is cleared: what it holds was fed to the rewrite as well. *)
SwitchBuffer == IF state = "off" THEN buf ELSE << >>

(* The new file takes over, if the AOF is not off. *)
SwitchFile ==
    /\ alive
    /\ handler = "switch"
    /\ Cleanup
    /\ buf' = SwitchBuffer
    /\ selected' = IF state = "off" THEN selected ELSE -1
    /\ file' = IF state # "off" /\ policy = "always" THEN [file EXCEPT !.synced = Len(file.items)] ELSE file
    /\ skipped' = (skipped /\ state = "off")
    /\ state' = IF state = "wait" THEN "on" ELSE state
    /\ UNCHANGED <<policy, nofsync, hist, status, scheduled, alive, acked, spent>>

-----------------------------------------------------------------------------
(* CONFIG SET appendonly *)

(* stopAppendOnly: a last flush, which may fail as any other, and fsync;   *)
(* a running rewrite is killed.                                            *)
Stop(fails) ==
    /\ Idle /\ state # "off"
    /\ spent.toggles < MaxToggles
    /\ fails => buf # << >> /\ policy # "always" /\ spent.errors < MaxErrors
    /\ spent' = [spent EXCEPT !.toggles = @ + 1, !.errors = @ + IF fails THEN 1 ELSE 0]
    /\ LET items == IF fails THEN file.items ELSE file.items \o buf IN
          file' = [items |-> items, synced |-> Len(items)]
    /\ skipped' = FALSE
    /\ buf' = IF fails THEN buf ELSE << >>
    /\ status' = IF fails THEN "err" ELSE IF buf = << >> THEN status ELSE "ok"
    /\ selected' = -1
    /\ state' = "off"
    /\ rwbuf' = << >> /\ child' = "none" /\ tmp' = NoFile
    /\ UNCHANGED <<policy, nofsync, hist, handler, scheduled, alive, acked>>

(* startAppendOnly: needs a rewrite of its own. *)
Start ==
    /\ Idle /\ state = "off"
    /\ spent.toggles < MaxToggles
    /\ Fork
    /\ state' = "wait"
    /\ spent' = [spent EXCEPT !.toggles = @ + 1, !.rewrites = @ + 1]
    /\ UNCHANGED <<policy, nofsync, hist, buf, rwbuf, file, handler, status, alive, skipped, acked>>

-----------------------------------------------------------------------------
FlushAny == \E saving \in BOOLEAN : Flush(saving)
Rewriting == ChildExits \/ WriteDifference \/ RenameFile \/ SwitchFile

Next ==
    \/ \E d \in Dbs : WriteCommand(d)
    \/ FlushAny \/ FlushOff \/ BackgroundFsync
    \/ \E k \in 0..Len(buf) : FlushError(k)
    \/ StartRewrite \/ RewriteFails \/ Rewriting
    \/ \E fails \in BOOLEAN : Stop(fails)
    \/ Start

Spec == Init /\ [][Next]_vars

-----------------------------------------------------------------------------
(* While the AOF is on, the file followed by the buffer replays to the     *)
(* whole data set, each write once and in its database, whatever rewrites, *)
(* failed writes and switches there were.                                  *)
FileComplete ==
    LET items == file.items \o buf
    IN Idle /\ state = "on" => Loads(items) /\ DataAt(items, Len(items), Len(hist))

(* What the file replays to never goes back while the AOF is on: neither a *)
(* short write nor the file that a rewrite renames over it loses what was  *)
(* already written or makes it load twice.                                 *)
FileKeepsDataStep ==
    state = "on" /\ state' = "on" =>
        /\ Loads(file'.items)
        /\ \E n, m \in 0..MaxWrites : /\ DataAt(file.items, Len(file.items), n)
                                     /\ DataAt(file'.items, Len(file'.items), m) /\ m >= n

(* aof.c, on the policy "always": "we have the contract with the user that *)
(* on acknowledged write data is synched on disk". What is synced of the   *)
(* file that bears the name replays to every acknowledged write. There are *)
(* two exceptions. The handler of a rewrite renames the new file first and *)
(* syncs it next. And "Don't fsync if no-appendfsync-on-rewrite is set to  *)
(* yes and there are children doing I/O": what is acknowledged from then   *)
(* on may be lost, nothing of what was before, until the next fsync; after *)
(* it nothing again.                                                       *)
AckedIsDurable ==
    policy = "always" /\ state = "on" /\ handler # "switch" =>
        \E n \in acked..MaxWrites : DataAt(file.items, file.synced, n)

(* The AOF that was switched on gets to be on, unless it is switched off   *)
(* again: a rewrite that fails is scheduled anew, as long as the bound     *)
(* leaves one to fork.                                                     *)
EventuallyOn == []<>(state # "wait" \/ (spent.rewrites = MaxRewrites /\ child = "none"))

(* A failed write is tried again until aof_last_write_status is OK, and    *)
(* writes are accepted again, unless the AOF is switched off or the server *)
(* gave up.  With the buffer empty nothing is tried: a rewrite that ends   *)
(* meanwhile empties it, and the error stays.                              *)
ErrorClears == []<>(status = "ok" \/ buf = << >> \/ state = "off" \/ ~alive)
=============================================================================
