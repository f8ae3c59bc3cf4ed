---------------------------- MODULE ArchiveStore ----------------------------
(***************************************************************************)
(* The archive of one account in one tab: rows in memory, their copy in    *)
(* IndexedDB, the delta sync that asks for what changed since the newest   *)
(* stored row, the detail requests, and the events of the stream.          *)
(*                                                                         *)
(* A row is its status, the second of its last change and whether its      *)
(* details are there.  Times are whole seconds, so several changes may     *)
(* share one.  Answers carry the rows as they were when the server read    *)
(* them and may arrive in any order; events arrive in order, or a part of  *)
(* them is lost while the stream is down.  IndexedDB serves its requests   *)
(* later, in their order, and may refuse one.                              *)
(***************************************************************************)
EXTENDS Integers, Sequences, FiniteSets

CONSTANTS
    Ids,          \* jobs of the account, 1 the oldest
    MaxClock,     \* bound: the last second
    MaxChanges,   \* bound: changes of rows on the server
    MaxEvents,    \* bound: events on their way at a time
    MaxRefresh,   \* bound: detail requests under way at a time
    MaxSaving,    \* bound: requests IndexedDB has not served, at a time
    MaxFaults     \* bound: lost connections, failed calls and writes, reloads, further mounts

VARIABLES
    server,    \* the rows of the database
    clock,
    online,    \* the stream is open
    events,    \* what it still has to deliver
    attached,  \* the store listens
    hydrating, \* the copy being read at mount, or no copy
    mem, db,   \* rows, archiveDB
    saving,    \* what IndexedDB has been asked and has not served yet, in this order
    sync,      \* the delta sync: its step and what its last answer says
    refresh,   \* answers to refreshDetail that are on their way
    posted,    \* answers to POST /api/jobs that are on their way
    faults,
    excused    \* rows that one of the races named below has spoiled

archiveVars == <<server, clock, online, events, attached, hydrating, mem, db, saving, sync,
                 refresh, posted, faults, excused>>

NoRow  == [st |-> "none", at |-> 0, hyd |-> FALSE]
Rank   == [none |-> 0, QUEUED |-> 1, SUCCEEDED |-> 2, DELETED |-> 3]
Rows   == [st : {"none", "QUEUED", "SUCCEEDED"}, at : 0..MaxClock, hyd : BOOLEAN]
Live(s) == s.st \notin {"none", "DELETED"}
NoSync == [step |-> "idle", since |-> 0, items |-> <<>>, listed |-> <<>>, ids |-> {}]
Asked  == [st |-> "asked", at |-> 0]
Steps  == {"idle", "cursor", "index", "decide", "details", "apply", "saving"}
\* who waits for a request: the sync for its cursor and for each of its writes, the event of a
\* terminal status before it asks for the details
Waiting == {"none", "sync", "ask", "cursor"}

ArchiveTypeOK ==
    /\ server \in [Ids -> [st : DOMAIN Rank, at : 0..MaxClock]]
    /\ clock \in 0..MaxClock
    /\ online \in BOOLEAN /\ attached \in BOOLEAN
    /\ \A i \in DOMAIN events : events[i] \in [id : Ids, st : DOMAIN Rank, at : 0..MaxClock]
    /\ mem \in [Ids -> Rows] /\ db \in [Ids -> Rows]
    /\ \A k \in DOMAIN saving : saving[k] \in [id : Ids, row : Rows, for : Waiting]
    /\ hydrating = <<>> \/ hydrating \in [Ids -> Rows]
    /\ sync.step \in Steps /\ sync.ids \subseteq Ids
    /\ sync.step \in {"decide", "details", "apply"} => sync.ids # {}
    /\ sync.step \in {"idle", "cursor", "index"} => sync.ids = {}
    /\ Cardinality(refresh) <= MaxRefresh
    /\ faults \in 0..MaxFaults

ArchiveInit ==
    \* one row is there already
    /\ server = [i \in Ids |-> IF i = 1 THEN [st |-> "SUCCEEDED", at |-> 1] ELSE [st |-> "none", at |-> 0]]
    /\ clock = 1
    /\ online = TRUE /\ attached = FALSE
    /\ events = <<>>
    /\ hydrating = <<>>
    /\ mem = [i \in Ids |-> NoRow] /\ db = [i \in Ids |-> NoRow] /\ saving = <<>>
    /\ sync = NoSync
    /\ refresh = {} /\ posted = {}
    /\ faults = 0
    /\ excused = {}

Agrees(row, s) == IF Live(s) THEN row.st = s.st ELSE row.st = "none"
Behind == {i \in Ids : ~Agrees(mem[i], server[i])}

\* getMaxUpdatedAt: the newest stored row is the cursor of the delta
Since(copy) == CHOOSE t \in 0..MaxClock :
                 /\ \A i \in Ids : copy[i].at <= t
                 /\ t = 0 \/ \E i \in Ids : copy[i].at = t

\* what no later delta will bring: the cursor has passed the row, or the
\* index does not list it any more
Passed == {i \in Ids : ~Agrees(db[i], server[i]) /\ (server[i].at < Since(db) \/ ~Live(server[i]))}

\* rows whose copy IndexedDB has still to write
Unstored == {saving[k].id : k \in {n \in DOMAIN saving : saving[n].for # "cursor"}}

\* an exclusive cursor
ChangedAfter(since) == {i \in Ids : Live(server[i]) /\ server[i].at > since}

\* the index lists live rows only; `since` is inclusive
Changed(since) == {i \in Ids : Live(server[i]) /\ server[i].at >= since}

-----------------------------------------------------------------------------
(* The server.  A change is announced on the stream; an event nobody        *)
(* listens to is gone, and a deletion that was not heard of cannot be       *)
(* learned from the index any more.                                         *)

Announce(i) ==
    IF attached
    THEN events' = Append(events, [id |-> i, st |-> server'[i].st, at |-> server'[i].at])
         /\ UNCHANGED excused
    ELSE /\ excused' = IF server'[i].st = "DELETED" /\ (mem[i].st # "none" \/ db[i].st # "none")
                       THEN excused \cup {i} ELSE excused
         /\ UNCHANGED events

Change(i) ==
    /\ Len(events) < MaxEvents
    /\ Cardinality({s \in Ids \X (1..3) : s[2] <= Rank[server[s[1]].st]}) < MaxChanges
    /\ \E s \in [none |-> {"QUEUED"}, QUEUED |-> {"SUCCEEDED"},
                 SUCCEEDED |-> {"DELETED"}, DELETED |-> {}][server[i].st],
          t \in {clock, clock + 1} \cap (1..MaxClock) :
         /\ server' = [server EXCEPT ![i] = [st |-> s, at |-> t]]
         /\ clock' = t
    /\ posted' = IF server[i].st = "none" THEN posted \cup {[id |-> i, at |-> clock']} ELSE posted
    /\ Announce(i)
    /\ UNCHANGED <<online, attached, hydrating, mem, db, saving, sync, refresh, faults>>

-----------------------------------------------------------------------------
(* Writing a row: memory at once, its copy when IndexedDB gets to it.       *)
(* Writing a status that is older than the one in memory, or a row that the *)
(* server no longer has, is the race "overtaken"; a later write of the      *)
(* truth repairs it.                                                        *)

Overtaken(i, row) == Rank[row.st] < Rank[mem[i].st] \/ (server[i].st = "DELETED" /\ mem[i].st = "none")

Marked(i, row) == IF Overtaken(i, row) THEN excused \cup {i}
                  ELSE IF Agrees(row, server[i]) THEN excused \ {i} ELSE excused

Asking(i, row, waits) ==
    Len(saving) < MaxSaving /\ saving' = Append(saving, [id |-> i, row |-> row, for |-> waits])

\* applyRow
Write(i, row, waits) ==
    /\ mem' = [mem EXCEPT ![i] = row]
    /\ Asking(i, row, waits)
    /\ excused' = Marked(i, row)

\* mutant: the copy is forgotten
DropFromMemory(i, waits) ==
    /\ mem' = [mem EXCEPT ![i] = NoRow]
    /\ Asking(i, db[i], waits)
    /\ excused' = excused \ {i}

\* dropLocal
DropLocal(i, waits) ==
    /\ mem' = [mem EXCEPT ![i] = NoRow]
    /\ Asking(i, NoRow, waits)
    /\ excused' = excused \ {i}

\* applyDetail, or the answer says not_found
ApplyDetail(i, s, waits) ==
    IF Live(s) THEN Write(i, [st |-> s.st, at |-> s.at, hyd |-> TRUE], waits)
    ELSE DropLocal(i, waits)

\* sync() returns at once while another is in flight; what the stream lost
\* meanwhile is then the race "skipped"
StartSync ==
    IF sync.step = "idle"
    THEN sync' = [NoSync EXCEPT !.step = "cursor"] /\ Asking(1, NoRow, "cursor")
    ELSE UNCHANGED <<sync, saving>>

Skipped == IF sync.step = "idle" THEN {} ELSE Behind

-----------------------------------------------------------------------------
(* Lifecycle *)

Fault == faults < MaxFaults /\ faults' = faults + 1

\* mount, at sign-in or when a page of the archive opens: the copy is read, after what
\* IndexedDB was asked before ...
MountBegin ==
    /\ hydrating = <<>> /\ saving = <<>>
    /\ hydrating' = db
    /\ IF attached THEN Fault ELSE UNCHANGED faults
    /\ UNCHANGED <<server, clock, online, events, attached, mem, db, saving, sync, refresh, posted,
                   excused>>

\* ... and put over the rows in memory, then the store attaches and syncs
Mount ==
    /\ hydrating # <<>>
    /\ mem' = [i \in Ids |-> IF hydrating[i].st # "none" THEN hydrating[i] ELSE mem[i]]
    /\ hydrating' = <<>>
    /\ attached' = TRUE
    /\ StartSync
    /\ LET old == {i \in Ids : /\ hydrating[i].st # "none" /\ Overtaken(i, hydrating[i])
                              /\ \/ hydrating[i] # db[i]
                                 \/ i \in Unstored}
       IN excused' = excused \cup old \cup Skipped
    /\ UNCHANGED <<server, clock, online, events, db, refresh, posted, faults>>

\* the page is reloaded: memory, every pending answer and what IndexedDB has not
\* begun are gone, and a sync stops between two rows, the newer of which are stored: the race
\* "interrupted"
Reload ==
    /\ Fault
    /\ attached /\ hydrating = <<>>
    /\ attached' = FALSE
    /\ mem' = [i \in Ids |-> NoRow] /\ saving' = <<>>
    /\ sync' = NoSync
    /\ refresh' = {} /\ posted' = {}
    /\ events' = <<>>
    /\ online' = TRUE
    /\ excused' = excused \cup (Passed \cap (Behind \cup Unstored))
    /\ UNCHANGED <<server, clock, hydrating, db>>

Disconnect ==
    /\ Fault
    /\ online /\ attached
    /\ online' = FALSE
    /\ UNCHANGED <<server, clock, events, attached, hydrating, mem, db, saving, sync, refresh, posted,
                   excused>>

\* the stream is back, with a replay of what was missed or without it; the
\* store syncs because the connection was interrupted
Reconnect ==
    /\ ~online
    /\ online' = TRUE
    /\ \E kept \in {events, <<>>} :
         /\ events' = kept
         /\ excused' = excused \cup Skipped \cup (IF kept = events THEN {} ELSE Passed \cap Behind)
    /\ StartSync
    /\ UNCHANGED <<server, clock, attached, hydrating, mem, db, refresh, posted, faults>>

-----------------------------------------------------------------------------
(* Delta sync *)

\* the server answers GET /jobs/index
IndexRead ==
    /\ sync.step = "index"
    /\ LET ids == Changed(sync.since)
       IN sync' = IF ids = {} THEN NoSync
                  ELSE [sync EXCEPT !.step = "decide", !.ids = ids, !.items = server]
    /\ UNCHANGED <<server, clock, online, events, attached, hydrating, mem, db, saving, refresh, posted, faults,
                   excused>>

\* a row is fetched when it is new, without details, or differs from its entry
NeedsDetail(i) ==
    ~mem[i].hyd \/ mem[i].st # sync.items[i].st \/ mem[i].at # sync.items[i].at

\* the details are awaited though there is nothing to fetch
DecideAlways ==
    /\ sync.step = "decide"
    /\ LET ids == {i \in sync.ids : NeedsDetail(i)}
       IN sync' = [sync EXCEPT !.step = "details", !.ids = ids,
                               !.listed = [i \in ids |-> sync.items[i].at]]
    /\ UNCHANGED <<server, clock, online, events, attached, hydrating, mem, db, saving, refresh, posted, faults,
                   excused>>

\* the entries are compared with the rows in memory
Decide ==
    /\ sync.step = "decide"
    /\ LET ids == {i \in sync.ids : NeedsDetail(i)}
       IN sync' = IF ids = {} THEN NoSync
                  ELSE [sync EXCEPT !.step = "details", !.ids = ids,
                                    !.listed = [i \in ids |-> sync.items[i].at]]
    /\ UNCHANGED <<server, clock, online, events, attached, hydrating, mem, db, saving, refresh, posted, faults,
                   excused>>

\* the server answers POST /jobs/details
DetailsRead ==
    /\ sync.step = "details"
    /\ sync' = [sync EXCEPT !.step = "apply", !.items = server]
    /\ UNCHANGED <<server, clock, online, events, attached, hydrating, mem, db, saving, refresh, posted, faults,
                   excused>>

\* one detail after the other in the order of the index, the newest first;
\* each awaits its write
SyncApply(i) ==
    /\ sync.step = "apply" /\ i \in sync.ids
    /\ \A j \in sync.ids : sync.listed[j] <= sync.listed[i]
    /\ ApplyDetail(i, sync.items[i], "sync")
    /\ sync' = [sync EXCEPT !.step = "saving", !.ids = @ \ {i}]
    /\ UNCHANGED <<server, clock, online, events, attached, hydrating, db, refresh, posted, faults>>

\* a call of the sync fails: nobody repeats it, and once events have moved
\* the cursor on, no later sync will ask for what it would have brought:
\* the race "abandoned"
SyncFails ==
    /\ Fault
    /\ sync.step \in {"index", "details"}
    /\ sync' = NoSync
    /\ excused' = excused \cup Behind
    /\ UNCHANGED <<server, clock, online, events, attached, hydrating, mem, db, saving, refresh, posted>>

-----------------------------------------------------------------------------
(* Events *)

\* refreshDetail is answered with the row as the server has it at some
\* moment between the request and the answer
Ask(i) == refresh' = IF Cardinality(refresh) < MaxRefresh
                     THEN refresh \cup {[id |-> i, row |-> Asked]} ELSE refresh

Deliver ==
    /\ online /\ attached /\ events # <<>>
    /\ LET e == Head(events) row == mem[e.id]
       IN CASE e.st = "QUEUED"  -> \* task_created: a stub replaces the row
                 Write(e.id, [st |-> "QUEUED", at |-> e.at, hyd |-> FALSE], "none")
            [] e.st = "DELETED" -> DropLocal(e.id, "none")
            [] OTHER -> \* job_state of a terminal status
                 Write(e.id, [row EXCEPT !.st = e.st, !.at = e.at], "ask")
    /\ events' = Tail(events)
    /\ UNCHANGED <<server, clock, online, attached, hydrating, db, sync, refresh, posted, faults>>

\* the drawer opens a row without details
OpenRow(i) ==
    /\ attached /\ mem[i].st # "none" /\ ~mem[i].hyd
    /\ Cardinality(refresh) < MaxRefresh
    /\ Ask(i)
    /\ UNCHANGED <<server, clock, online, events, attached, hydrating, mem, db, saving, sync, posted, faults,
                   excused>>

DetailRead(r) ==
    /\ r.row = Asked
    /\ refresh' = (refresh \ {r}) \cup {[id |-> r.id, row |-> server[r.id]]}
    /\ UNCHANGED <<server, clock, online, events, attached, hydrating, mem, db, saving, sync, posted, faults,
                   excused>>

DetailArrives(r) ==
    /\ r.row # Asked
    /\ ApplyDetail(r.id, r.row, "none")
    /\ refresh' = refresh \ {r}
    /\ UNCHANGED <<server, clock, online, events, attached, hydrating, db, sync, posted, faults>>

DetailFails(r) ==
    /\ Fault
    /\ refresh' = refresh \ {r}
    /\ UNCHANGED <<server, clock, online, events, attached, hydrating, mem, db, saving, sync, posted, excused>>

\* insertOptimistic: the answer to the tab's own POST writes a stub, over
\* whatever the events have made of the row
InsertOptimistic(p) ==
    /\ attached
    /\ Write(p.id, [st |-> "QUEUED", at |-> p.at, hyd |-> FALSE], "none")
    /\ posted' = posted \ {p}
    /\ UNCHANGED <<server, clock, online, events, attached, hydrating, db, sync, refresh, faults>>

\* IndexedDB serves a request or refuses it; who waited for a write goes on either way, a sync
\* without its cursor has failed
Served(ok) ==
    /\ saving # <<>> /\ saving' = Tail(saving)
    /\ IF ok THEN UNCHANGED faults ELSE Fault
    /\ LET next == Head(saving) IN
       /\ db' = IF ok /\ next.for # "cursor" THEN [db EXCEPT ![next.id] = next.row] ELSE db
       /\ sync' = CASE next.for = "cursor" /\ ok -> [sync EXCEPT !.step = "index", !.since = Since(db)]
                    [] next.for = "cursor" /\ ~ok -> NoSync
                    [] next.for = "sync" -> IF sync.ids = {} THEN NoSync ELSE [sync EXCEPT !.step = "apply"]
                    [] OTHER -> sync
       /\ IF next.for = "ask" THEN Ask(next.id) ELSE UNCHANGED refresh
       /\ excused' = IF ok THEN excused
                     ELSE excused \cup IF next.for = "cursor" THEN Behind ELSE {next.id}
    /\ UNCHANGED <<server, clock, online, events, attached, hydrating, mem, posted>>

ArchiveNext ==
    \/ MountBegin \/ Mount \/ Reload \/ Disconnect \/ Reconnect
    \/ IndexRead \/ Decide \/ DetailsRead \/ SyncFails \/ Deliver
    \/ \E i \in Ids : Change(i) \/ SyncApply(i) \/ OpenRow(i)
    \/ \E r \in refresh : DetailRead(r) \/ DetailArrives(r) \/ DetailFails(r)
    \/ \E p \in posted : InsertOptimistic(p)
    \/ \E ok \in BOOLEAN : Served(ok)

ArchiveSpec == ArchiveInit /\ [][ArchiveNext]_archiveVars

-----------------------------------------------------------------------------
\* When nothing is under way the archive shows exactly the live rows of the
\* server with their statuses, through lost connections, lost events,
\* reloads and details in any order, except the rows that one of the named
\* races has spoiled.
Quiet == /\ online /\ attached /\ events = <<>> /\ sync = NoSync /\ refresh = {}
         /\ posted = {} /\ hydrating = <<>> /\ saving = <<>>
QuietStoreIsExact == Quiet => Behind \subseteq excused

\* What the comment of sync() promises: it fetches the rows "that we don't
\* have details for yet".
NoLiveRowMissing == Quiet => \A i \in Ids : Live(server[i]) => mem[i].st # "none"
=============================================================================
