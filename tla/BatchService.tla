---------------------------- MODULE BatchService ----------------------------
(***************************************************************************)
(* One row of batches: jobs bind to it, their terminal transitions fan in  *)
(* to its counters, and the client, the watchdog and the last job compete  *)
(* to move its status.                                                     *)
(*                                                                         *)
(* A counter moves by one UPDATE ... SET n = n + 1, which no writer can    *)
(* interleave.  The status moves by an ORM flush, UPDATE ... WHERE id =    *)
(* <id>, of a value computed from an earlier SELECT: SQLite ignores        *)
(* with_for_update and takes the write lock only at the first statement    *)
(* that writes.                                                            *)
(***************************************************************************)
EXTENDS Integers, FiniteSets, JobStatus

CONSTANTS
    Jobs,        \* the jobs a client may try to bind
    Total,       \* total_job_count
    Clients,     \* coroutines of finalize_submission
    MaxCrashes,  \* bound: process crashes explored
    DbMayFail    \* whether a write may raise ("database is locked")

ASSUME JobsAssumption  == IsFiniteSet(Jobs)
ASSUME TotalAssumption == Total \in Nat \ {0}
ASSUME BoundAssumption == MaxCrashes \in Nat /\ DbMayFail \in BOOLEAN

VARIABLES
    bstatus,     \* batches.status; "gone" once the row is deleted
    submitted,   \* submitted_count
    counts,      \* succeeded_count, failed_count, cancelled_count
    finalized,   \* finalized_at is set
    quiet,       \* last_activity_at is older than the abandon timeout
    job,         \* jobs.status of a bound job, NONE if it is not bound ...
    deleted,     \* ... unless the job is in deleted, and its status DELETED
    pending,     \* settled jobs whose on_job_terminal is still to run
    lost,        \* settled jobs whose on_job_terminal will never run
    fin,         \* finalize_submission, per client
    wd,          \* run_watchdog_once
    cancelling,  \* jobs cancel_batch has listed and not yet cancelled
    del,         \* delete_batch
    late,        \* history: jobs bound while a finalize_submission was under way,
                 \* until one has written another status than "cancelled"
    crashes

batch    == <<bstatus, submitted, counts, finalized>>
jobRows  == <<job, deleted>>
handlers == <<fin, wd, cancelling, del>>
vars     == <<bstatus, submitted, counts, finalized, quiet, job, deleted,
              pending, lost, fin, wd, cancelling, del, late, crashes>>

NonTerminal == {"submitting", "running"}
Terminal    == {"completed", "partial", "cancelled", "abandoned"}
Written     == {"running"} \cup Terminal   \* what a flush may write

Idle == [pc |-> "none"]

TypeOK ==
    /\ bstatus \in NonTerminal \cup Terminal \cup {"gone"}
    /\ submitted \in 0 .. Total
    /\ counts \in [Settled -> Nat]
    /\ finalized \in BOOLEAN /\ quiet \in BOOLEAN
    /\ job \in [Jobs -> Statuses \ {DELETED}]
    /\ deleted \subseteq Jobs /\ cancelling \subseteq Jobs
    /\ pending \subseteq Jobs /\ lost \subseteq Jobs /\ late \subseteq Jobs
    /\ fin \in [Clients ->
          {Idle}
          \cup [pc : {"count"}, submitted : 0 .. Total, counts : [Settled -> Nat]]
          \cup [pc : {"flush"}, to : Written]]
    /\ wd \in {Idle} \cup [pc : {"flush"}, to : Written]
    /\ del \in {Idle} \cup [pc : {"loaded"}, keep : BOOLEAN]
                      \cup [pc : {"dropping"}, left : SUBSET Jobs]
    /\ crashes \in 0 .. MaxCrashes

\* create_batch has committed.
Init ==
    /\ bstatus = "submitting"
    /\ submitted = 0
    /\ counts = [s \in Settled |-> 0]
    /\ finalized = FALSE /\ quiet = FALSE
    /\ job = [j \in Jobs |-> NONE]
    /\ deleted = {} /\ pending = {} /\ lost = {} /\ late = {}
    /\ fin = [c \in Clients |-> Idle]
    /\ wd = Idle /\ del = Idle
    /\ cancelling = {}
    /\ crashes = 0

-----------------------------------------------------------------------------
(* Resolution                                                               *)

Ended(c) == c[SUCCEEDED] + c[FAILED] + c[CANCELLED]

\* Mutant of resolve_terminal_status: any success makes the batch complete.
ResolveOptimistically(c) ==
    IF c[SUCCEEDED] > 0 THEN "completed"
    ELSE IF c[FAILED] > 0 THEN "partial" ELSE "cancelled"

resolve_terminal_status(c) ==
    CASE c[FAILED] > 0                        -> "partial"
      [] c[FAILED] = 0 /\ c[CANCELLED] > 0    -> "cancelled"
      [] c[FAILED] + c[CANCELLED] = 0         ->
            IF c[SUCCEEDED] = Total THEN "completed" ELSE "partial"

\* delete_batch holds SQLite's write lock while it walks the jobs.
WriteLocked == del.pc = "dropping"
MayRaise    == DbMayFail \/ WriteLocked

\* The flush of a status computed earlier: the row is found by its id alone.
Flush(to) ==
    /\ ~WriteLocked
    /\ IF bstatus = "gone"
       THEN UNCHANGED <<bstatus, finalized>>
       ELSE /\ bstatus' = to
            /\ finalized' = (finalized \/ to \in Terminal)
    /\ UNCHANGED <<submitted, counts>>

-----------------------------------------------------------------------------
(* Jobs: POST /api/jobs binds one, and JobLifecycle moves it                *)

UnderWay(C) == \E c \in C : fin[c] # Idle

Claims(j) ==
    /\ submitted' = submitted + 1
    /\ quiet' = FALSE
    /\ job' = [job EXCEPT ![j] = QUEUED]
    /\ late' = IF UnderWay(Clients) THEN late \cup {j} ELSE late
    /\ UNCHANGED <<bstatus, counts, finalized, deleted, pending, lost, handlers,
                   crashes>>

\* Mutant: the claim does not look at the total.
BindBeyondTotal(j) ==
    /\ job[j] = NONE /\ ~WriteLocked
    /\ bstatus = "submitting"
    /\ Claims(j)

\* _bind_to_batch, in the transaction that inserts the row
Bind(j) ==
    /\ job[j] = NONE /\ ~WriteLocked
    /\ bstatus = "submitting" /\ submitted < Total
    /\ Claims(j)

\* transition: committed, with on_job_terminal still to run if it settled j
Move(j, to) ==
    /\ ~WriteLocked
    /\ to \in Allowed[job[j]]
    /\ job' = [job EXCEPT ![j] = to]
    /\ pending' = IF to \in Settled THEN pending \cup {j} ELSE pending

Advance(j) ==
    /\ job[j] \in {QUEUED, RUNNING}
    /\ \E to \in Statuses : Move(j, to)
    /\ UNCHANGED <<batch, quiet, deleted, lost, handlers, late, crashes>>

DeleteJob(j) ==
    /\ job[j] \in Settled /\ j \notin deleted /\ ~WriteLocked
    /\ deleted' = deleted \cup {j}
    /\ UNCHANGED <<batch, quiet, job, pending, lost, handlers, late, crashes>>

\* Mutants of on_job_terminal: a batch that is terminal is left alone, and
\* only a batch whose submission was finalized is resolved.
FanInUnlessTerminal(j) ==
    /\ j \in pending /\ ~WriteLocked
    /\ pending' = pending \ {j}
    /\ counts' = IF bstatus \in NonTerminal
                 THEN [counts EXCEPT ![job[j]] = @ + 1] ELSE counts
    /\ UNCHANGED <<bstatus, submitted, finalized, quiet, jobRows, lost, handlers,
                   late, crashes>>

FanInIfRunning(j) ==
    /\ j \in pending /\ ~WriteLocked /\ bstatus # "gone"
    /\ pending' = pending \ {j}
    /\ counts' = [counts EXCEPT ![job[j]] = @ + 1]
    /\ IF bstatus = "running" /\ Ended(counts') = Total
       THEN bstatus' = resolve_terminal_status(counts') /\ finalized' = TRUE
       ELSE UNCHANGED <<bstatus, finalized>>
    /\ UNCHANGED <<submitted, quiet, jobRows, lost, handlers, late, crashes>>

\* One transaction: its first statement takes the write lock.
on_job_terminal(j) ==
    /\ j \in pending /\ ~WriteLocked
    /\ pending' = pending \ {j}
    /\ IF bstatus = "gone"
       THEN UNCHANGED batch
       ELSE /\ counts' = [counts EXCEPT ![job[j]] = @ + 1]
            /\ IF /\ bstatus \notin Terminal
                  /\ Ended(counts') = Total
                  /\ submitted = Total
               THEN /\ bstatus' = resolve_terminal_status(counts')
                    /\ finalized' = TRUE
               ELSE UNCHANGED <<bstatus, finalized>>
            /\ UNCHANGED submitted
    /\ UNCHANGED <<quiet, jobRows, lost, handlers, late, crashes>>

\* _broadcast logs the exception; nobody tries again.
FanInRaises(j) ==
    /\ j \in pending /\ MayRaise
    /\ pending' = pending \ {j}
    /\ lost' = lost \cup {j}
    /\ UNCHANGED <<batch, quiet, jobRows, handlers, late, crashes>>

-----------------------------------------------------------------------------
(* POST /api/batches/{id}/finalize_submission                               *)

InFlight == {j \in Jobs : job[j] \in {QUEUED, RUNNING}}

FinalizeLoad(c) ==
    /\ fin[c] = Idle /\ bstatus = "submitting"
    /\ fin' = [fin EXCEPT ![c] =
                 [pc |-> "count", submitted |-> submitted, counts |-> counts]]
    /\ UNCHANGED <<batch, quiet, jobRows, pending, lost, wd, cancelling, del,
                   late, crashes>>

\* The status chosen from the row loaded and the jobs in flight now
FinalStatus(row, inFlight) ==
    IF row.submitted = Total
    THEN IF Ended(row.counts) = Total
         THEN resolve_terminal_status(row.counts) ELSE "running"
    ELSE IF inFlight = {} /\ Ended(row.counts) = row.submitted
         THEN resolve_terminal_status(row.counts) ELSE "running"

FinalizeCount(c) ==
    /\ fin[c].pc = "count"
    /\ fin' = [fin EXCEPT ![c] =
                 [pc |-> "flush", to |-> FinalStatus(fin[c], InFlight)]]
    /\ UNCHANGED <<batch, quiet, jobRows, pending, lost, wd, cancelling, del,
                   late, crashes>>

FinalizeFlush(c) ==
    /\ fin[c].pc = "flush"
    /\ Flush(fin[c].to)
    /\ fin' = [fin EXCEPT ![c] = Idle]
    /\ late' = IF fin[c].to = "cancelled" \/ UnderWay(Clients \ {c})
               THEN late ELSE {}
    /\ UNCHANGED <<quiet, jobRows, pending, lost, wd, cancelling, del, crashes>>

FinalizeRaises(c) ==
    /\ fin[c].pc = "flush" /\ MayRaise
    /\ fin' = [fin EXCEPT ![c] = Idle]
    /\ UNCHANGED <<batch, quiet, jobRows, pending, lost, wd, cancelling, del,
                   late, crashes>>

-----------------------------------------------------------------------------
(* run_watchdog_once                                                        *)

Quieten ==
    /\ ~quiet /\ bstatus = "submitting"
    /\ quiet' = TRUE
    /\ UNCHANGED <<batch, jobRows, pending, lost, handlers, late, crashes>>

\* Nothing is awaited between the SELECT and the choice of the status.
WatchdogStatus ==
    CASE submitted < Total                            -> "abandoned"
      [] submitted >= Total /\ Ended(counts) = Total  ->
            resolve_terminal_status(counts)
      [] submitted >= Total /\ Ended(counts) # Total  -> "running"

\* Mutant of WatchdogSelect: a batch to which nothing was bound is skipped.
WatchdogSkipsEmpty ==
    /\ wd = Idle /\ bstatus = "submitting" /\ quiet /\ submitted > 0
    /\ wd' = [pc |-> "flush", to |-> WatchdogStatus]
    /\ UNCHANGED <<batch, quiet, jobRows, pending, lost, fin, cancelling, del,
                   late, crashes>>

WatchdogSelect ==
    /\ wd = Idle /\ bstatus = "submitting" /\ quiet
    /\ wd' = [pc |-> "flush", to |-> WatchdogStatus]
    /\ UNCHANGED <<batch, quiet, jobRows, pending, lost, fin, cancelling, del,
                   late, crashes>>

WatchdogFlush ==
    /\ wd.pc = "flush"
    /\ Flush(wd.to)
    /\ wd' = Idle
    /\ UNCHANGED <<quiet, jobRows, pending, lost, fin, cancelling, del, late,
                   crashes>>

WatchdogRaises ==
    /\ wd.pc = "flush" /\ MayRaise
    /\ wd' = Idle
    /\ UNCHANGED <<batch, quiet, jobRows, pending, lost, fin, cancelling, del,
                   late, crashes>>

-----------------------------------------------------------------------------
(* POST /api/batches/{id}/cancel and DELETE /api/batches/{id}               *)

CancelList ==
    /\ bstatus \in NonTerminal
    /\ cancelling = {}
    /\ cancelling' = {j \in Jobs : job[j] = QUEUED}
    /\ UNCHANGED <<batch, quiet, jobRows, pending, lost, fin, wd, del, late,
                   crashes>>

\* The transition of one listed job: won, refused by the graph, or raised
CancelNext(j) ==
    /\ j \in cancelling
    /\ cancelling' = cancelling \ {j}
    /\ \/ Move(j, CANCELLED)
       \/ /\ CANCELLED \notin Allowed[job[j]] \/ MayRaise
          /\ UNCHANGED <<job, pending>>
    /\ UNCHANGED <<batch, quiet, deleted, lost, fin, wd, del, late, crashes>>

DeleteLoad(keep) ==
    /\ del = Idle /\ bstatus \in Terminal
    /\ del' = [pc |-> "loaded", keep |-> keep]
    /\ UNCHANGED <<batch, quiet, jobRows, pending, lost, fin, wd, cancelling,
                   late, crashes>>

\* keep_jobs: unbind the jobs and delete the row, in one transaction
DeleteKeeping ==
    /\ del.pc = "loaded" /\ del.keep
    /\ bstatus' = "gone"
    /\ del' = Idle
    /\ UNCHANGED <<submitted, counts, finalized, quiet, jobRows, pending, lost,
                   fin, wd, cancelling, late, crashes>>

\* Otherwise the deletion of the row takes the write lock, and is committed
\* only after the loop over the jobs.
DeleteDropping ==
    /\ del.pc = "loaded" /\ ~del.keep
    /\ del' = [pc |-> "dropping",
               left |-> {j \in Jobs : job[j] # NONE}]
    /\ UNCHANGED <<batch, quiet, jobRows, pending, lost, fin, wd, cancelling,
                   late, crashes>>

\* The transition to DELETED has a session of its own: its UPDATE waits for
\* the lock, gives up after busy_timeout, and the exception is swallowed.
DropJob(j) ==
    /\ del.pc = "dropping" /\ j \in del.left
    /\ del' = [del EXCEPT !.left = @ \ {j}]
    /\ UNCHANGED <<batch, quiet, jobRows, pending, lost, fin, wd, cancelling,
                   late, crashes>>

DropCommit ==
    /\ del.pc = "dropping" /\ del.left = {}
    /\ bstatus' = "gone"
    /\ del' = Idle
    /\ UNCHANGED <<submitted, counts, finalized, quiet, jobRows, pending, lost,
                   fin, wd, cancelling, late, crashes>>

-----------------------------------------------------------------------------
\* Handlers and hooks die with the process; the rows stay.
Crash ==
    /\ crashes < MaxCrashes
    /\ crashes' = crashes + 1
    /\ lost' = lost \cup pending
    /\ pending' = {}
    /\ fin' = [c \in Clients |-> Idle]
    /\ wd' = Idle /\ del' = Idle
    /\ cancelling' = {}
    /\ UNCHANGED <<batch, quiet, jobRows, late>>

Finalize(c) == FinalizeCount(c) \/ FinalizeFlush(c) \/ FinalizeRaises(c)
Watchdog    == WatchdogSelect \/ WatchdogFlush \/ WatchdogRaises
FanIn(j)    == on_job_terminal(j) \/ FanInRaises(j)
DeleteBatch ==
    DeleteKeeping \/ DeleteDropping \/ DropCommit \/ \E j \in Jobs : DropJob(j)

Next ==
    \/ \E j \in Jobs : \/ Bind(j) \/ Advance(j) \/ DeleteJob(j) \/ FanIn(j)
                       \/ CancelNext(j)
    \/ \E c \in Clients : FinalizeLoad(c) \/ Finalize(c)
    \/ Quieten \/ Watchdog
    \/ CancelList
    \/ \E keep \in BOOLEAN : DeleteLoad(keep)
    \/ DeleteBatch
    \/ Crash

Spec == Init /\ [][Next]_vars

(***************************************************************************)
(* Handlers in progress go on, time passes, the watchdog ticks, and bound  *)
(* jobs settle (AcceptedJobsSettle of JobPipeline).  No client is obliged  *)
(* to bind, finalize, cancel or delete anything.                           *)
(***************************************************************************)
FairSpec ==
    /\ Spec
    /\ \A j \in Jobs :
          WF_vars(Advance(j)) /\ WF_vars(FanIn(j)) /\ WF_vars(CancelNext(j))
    /\ \A c \in Clients : WF_vars(Finalize(c))
    /\ WF_vars(Quieten) /\ WF_vars(Watchdog) /\ WF_vars(DeleteBatch)

-----------------------------------------------------------------------------
(* Properties                                                               *)

(* A slot is claimed exactly once per bound job and never beyond the total, *)
(* the outcomes counted never exceed the slots, and a batch that was        *)
(* finalized gives none away again, however the four POSTs of a set, the    *)
(* fan-ins and the stale writes of a status interleave.                     *)
SlotsMatchJobs ==
    /\ submitted = Cardinality({j \in Jobs : job[j] # NONE})
    /\ submitted <= Total
    /\ bstatus # "gone" => Ended(counts) <= submitted
    /\ finalized => bstatus # "submitting"

(* Every settled job is counted once, under its own outcome, or its fan-in  *)
(* is still to come or was lost: stale status writes disturb no counter.    *)
CountsAreExact ==
    bstatus # "gone" =>
        \A s \in Settled :
            counts[s] =
                Cardinality({j \in Jobs \ (pending \cup lost) : job[j] = s})

(* A batch reads "completed" only when all of its jobs exist and succeeded, *)
(* and "cancelled" only when one was cancelled and none failed, even after  *)
(* a stale write.  Except for a job bound after finalize_submission had     *)
(* read the row and before it wrote: nobody looks at that one.              *)
OutcomeIsTruthful ==
    /\ bstatus = "completed" =>
          Cardinality({j \in Jobs : job[j] = SUCCEEDED}) = Total
    /\ bstatus = "cancelled" =>
          /\ \E j \in Jobs : job[j] = CANCELLED
          /\ \A j \in Jobs \ late : job[j] # FAILED

(* The watchdog ends every submission whose client has gone.                *)
NoBatchSubmitsForever == bstatus = "submitting" ~> bstatus # "submitting"

(* A fully submitted batch is resolved once, provided no fan-in is lost.    *)
SubmittedBatchFinalizes == submitted = Total ~> finalized

(* "cancelled (no FAILED but at least one CANCELLED)", whenever its jobs    *)
(* were bound.                                                              *)
CancelledHidesNoFailure ==
    bstatus = "cancelled" => \A j \in Jobs : job[j] # FAILED

(* "Idempotent under concurrent finalize_submission calls": a batch that    *)
(* has reached a terminal status keeps it until it is deleted.              *)
TerminalIsFinal ==
    [][(bstatus \in Terminal) => (bstatus' \in {bstatus, "gone"})]_vars

(* "When the last bound Job lands a terminal state", the batch is resolved, *)
(* also when the client gave up on the rest of the submission.              *)
SkippedBatchSettles ==
    bstatus = "running" /\ submitted < Total ~> bstatus \in Terminal \cup {"gone"}

(* "keep_jobs=false deletes the bound Job rows": the ones that have settled *)
(* are deleted when the batch is.                                           *)
DropDeletesJobs ==
    [][del.pc = "dropping" /\ bstatus' = "gone" =>
          \A j \in Jobs : job[j] \in Settled => j \in deleted]_vars

(* "Cancel every QUEUED Job in the batch (RUNNING is left alone)."          *)
CancelLeavesRunningAlone ==
    [][\A j \in cancelling \ cancelling' :
          job[j] = RUNNING => job'[j] # CANCELLED]_vars

=============================================================================
