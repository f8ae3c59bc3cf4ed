---------------------------- MODULE JobPipeline ----------------------------
(***************************************************************************)
(* One uvicorn process that accepts, queues, dispatches, executes, cancels *)
(* and deletes jobs, and the SQLite rows that survive its restarts.        *)
(*                                                                         *)
(* A step is what a coroutine does between two awaits, or one committed    *)
(* transaction.  Every change of jobs.status but the insert goes through   *)
(* JobLifecycle.transition: Read (SELECT and graph check), then Cas        *)
(* (UPDATE ... WHERE status = <read>), then the caller's refund.           *)
(***************************************************************************)
EXTENDS Integers, FiniteSets, JobStatus

CONSTANTS
    Jobs, Users, Owner,  \* Owner[j] is the user of job j
    Requests,            \* coroutines of the cancel and delete endpoints
    RequestKinds,        \* the endpoints called besides POST /api/jobs:
                         \* "cancel" "bulk" "delete" "vary"
    Sweeper,             \* force_fail_running_jobs
    MaxConcurrency,      \* TierSpec.max_concurrency
    GlobalMaxWorkers,    \* SchedulerConfig.global_max_workers
    MaxAttempts,         \* max_retries_per_job
    MaxStops,            \* bound: shutdowns and crashes explored
    DbMayFail            \* whether a statement may raise ("database is locked")

Actors == Jobs \cup Requests \cup {Sweeper}

ASSUME JobsAssumption ==
    /\ IsFiniteSet(Jobs)
    /\ Owner \in [Jobs -> Users]
ASSUME ActorsAssumption ==
    /\ Jobs \cap Requests = {}
    /\ Sweeper \notin Jobs \cup Requests
ASSUME LimitsAssumption ==
    /\ MaxConcurrency \in Nat \ {0}
    /\ GlobalMaxWorkers \in Nat \ {0}
    /\ MaxAttempts \in Nat \ {0}
    /\ MaxStops \in Nat
    /\ DbMayFail \in BOOLEAN

VARIABLES
    \* rows, which a restart keeps
    status,    \* jobs.status
    counted,   \* what the job holds of users.today_count: charges less refunds
    debits,    \* its rows in billing_ledger
    \* the process
    phase,     \* main.lifespan
    create,    \* POST /api/jobs: one call per job
    queue,     \* JobQueue, as a set: module JobQueue has its order
    held,      \* popped without a user slot, waiting for the queue lock
    sched,     \* JobScheduler.run_forever
    tasks,     \* JobScheduler._tasks and the keys of _task_users
    slots,     \* JobScheduler._running_by_user
    worker,    \* JobExecutor.execute
    left,      \* candidates the executor has not tried
    tx,        \* JobLifecycle.transition in progress, per caller
    sweep,     \* rows force_fail_running_jobs has still to visit
    stops

rows  == <<status, counted, debits>>
loop  == <<queue, held, sched, tasks, slots>>
vars  == <<status, counted, debits, phase, create, queue, held, sched, tasks,
           slots, worker, left, tx, sweep, stops>>

Idle == [pc |-> "none"]
Transitions == [pc : {"remove", "read", "cas", "refund"}, job : Jobs,
                to : Over, from : Statuses,
                refund : {"never", "won", "always"}]

WorkerPcs == {"none", "load", "mark", "soft", "select", "call", "store",
              "deduct", "publish", "tx", "finished"}

TypeOK ==
    /\ status \in [Jobs -> Statuses]
    /\ counted \in [Jobs -> Int]
    /\ debits \in [Jobs -> Nat]
    /\ phase \in {"up", "draining", "sweeping", "closing", "down", "starting"}
    /\ create \in [Jobs -> {"new", "charged", "inserted", "done"}]
    /\ queue \subseteq Jobs
    /\ held \subseteq Jobs
    /\ sched \in {"off", "idle", "popping", "requeue", "stopped", "dead"}
    /\ tasks \subseteq Jobs
    /\ slots \in [Users -> Nat]
    /\ worker \in [Jobs -> WorkerPcs]
    /\ left \in [Jobs -> 0 .. MaxAttempts]
    /\ tx \in [Actors -> Transitions \cup {Idle}]
    /\ sweep \subseteq Jobs
    /\ stops \in 0 .. MaxStops

Rows(s) == {j \in Jobs : status[j] = s}

Init ==
    /\ status = [j \in Jobs |-> NONE]
    /\ counted = [j \in Jobs |-> 0]
    /\ debits = [j \in Jobs |-> 0]
    /\ phase = "up"
    /\ create = [j \in Jobs |-> "new"]
    /\ queue = {} /\ held = {}
    /\ sched = "idle"
    /\ tasks = {}
    /\ slots = [u \in Users |-> 0]
    /\ worker = [j \in Jobs |-> "none"]
    /\ left = [j \in Jobs |-> 0]
    /\ tx = [a \in Actors |-> Idle]
    /\ sweep = {}
    /\ stops = 0

-----------------------------------------------------------------------------
(* JobLifecycle.transition, and the refund its caller makes                *)

TxFor(pc, j, to, policy) ==
    [pc |-> pc, job |-> j, to |-> to, from |-> NONE, refund |-> policy]

\* The caller returns: a worker ends, the sweep goes to its next row.
Finish(a) ==
    /\ tx' = [tx EXCEPT ![a] = Idle]
    /\ worker' = IF a \in Jobs THEN [worker EXCEPT ![a] = "finished"] ELSE worker
    /\ sweep' = IF a = Sweeper THEN sweep \ {tx[a].job} ELSE sweep

\* Mutant of Conclude: a caller that lost the race refunds all the same.
ConcludeUnchecked(a, won) ==
    \/ /\ tx[a].refund # "never"
       /\ tx' = [tx EXCEPT ![a].pc = "refund"]
       /\ UNCHANGED <<worker, sweep>>
    \/ /\ tx[a].refund = "never"
       /\ Finish(a)

\* The caller refunds if its transition won, whatever happened, or never.
Conclude(a, won) ==
    \/ /\ tx[a].refund \in {"always"} \cup (IF won THEN {"won"} ELSE {})
       /\ tx' = [tx EXCEPT ![a].pc = "refund"]
       /\ UNCHANGED <<worker, sweep>>
    \/ /\ tx[a].refund \in {"never"} \cup (IF won THEN {} ELSE {"won"})
       /\ Finish(a)

Read(a) ==
    /\ tx[a].pc = "read"
    /\ \/ /\ tx[a].to \in Allowed[status[tx[a].job]]
          /\ tx' = [tx EXCEPT ![a] =
                      [@ EXCEPT !.pc = "cas", !.from = status[tx[a].job]]]
          /\ UNCHANGED <<worker, sweep>>
       \/ /\ tx[a].to \notin Allowed[status[tx[a].job]]
          /\ Conclude(a, FALSE)
    /\ UNCHANGED <<rows, phase, create, loop, left, stops>>

Cas(a) ==
    /\ tx[a].pc = "cas"
    /\ \/ /\ status[tx[a].job] = tx[a].from
          /\ status' = [status EXCEPT ![tx[a].job] = tx[a].to]
          /\ Conclude(a, TRUE)
       \/ /\ status[tx[a].job] # tx[a].from
          /\ Conclude(a, FALSE)
          /\ UNCHANGED status
    /\ UNCHANGED <<counted, debits, phase, create, loop, left, stops>>

\* QuotaGuard.refund_usage; module Admission has the clamp at zero and the
\* change of day.
Refund(a) ==
    /\ tx[a].pc = "refund"
    /\ counted' = [counted EXCEPT ![tx[a].job] = @ - 1]
    /\ Finish(a)
    /\ UNCHANGED <<status, debits, phase, create, loop, left, stops>>

\* A statement of the transition or of the refund raises.
TxRaises(a) ==
    /\ DbMayFail
    /\ \/ tx[a].pc \in {"read", "cas"} /\ Conclude(a, FALSE)
       \/ tx[a].pc = "refund" /\ Finish(a)
    /\ UNCHANGED <<rows, phase, create, loop, left, stops>>

-----------------------------------------------------------------------------
(* POST /api/jobs                                                           *)

Charge(j) ==
    /\ phase = "up" /\ create[j] = "new"
    /\ create' = [create EXCEPT ![j] = "charged"]
    /\ counted' = [counted EXCEPT ![j] = @ + 1]
    /\ UNCHANGED <<status, debits, phase, loop, worker, left, tx, sweep, stops>>

Insert(j) ==
    /\ create[j] = "charged"
    /\ create' = [create EXCEPT ![j] = "inserted"]
    /\ status' = [status EXCEPT ![j] = QUEUED]
    /\ UNCHANGED <<counted, debits, phase, loop, worker, left, tx, sweep, stops>>

\* POST /api/jobs/vary and the admin's requeue insert a job they do not charge.
InsertUncharged(j) ==
    /\ "vary" \in RequestKinds
    /\ phase = "up" /\ create[j] = "new"
    /\ create' = [create EXCEPT ![j] = "inserted"]
    /\ status' = [status EXCEPT ![j] = QUEUED]
    /\ UNCHANGED <<counted, debits, phase, loop, worker, left, tx, sweep, stops>>

\* The user vanished (refunded), or the batch or session check refused the
\* job (the charge stays).
InsertFails(j) ==
    /\ create[j] = "charged"
    /\ create' = [create EXCEPT ![j] = "done"]
    /\ counted' \in {counted, [counted EXCEPT ![j] = @ - 1]}
    /\ UNCHANGED <<status, debits, phase, loop, worker, left, tx, sweep, stops>>

QueueLocked == sched = "popping"

Enqueue(j) ==
    /\ create[j] = "inserted" /\ ~QueueLocked
    /\ create' = [create EXCEPT ![j] = "done"]
    /\ queue' = queue \cup {j}
    /\ UNCHANGED <<rows, phase, held, sched, tasks, slots, worker, left, tx,
                   sweep, stops>>

-----------------------------------------------------------------------------
(* The cancel and delete endpoints                                          *)

\* POST /api/jobs/{hash}/cancel
Cancel(r, j) ==
    /\ "cancel" \in RequestKinds
    /\ phase = "up" /\ tx[r] = Idle
    /\ \/ /\ status[j] = QUEUED
          /\ tx' = [tx EXCEPT ![r] = TxFor("remove", j, CANCELLED, "won")]
       \/ /\ status[j] = RUNNING
          /\ tx' = [tx EXCEPT ![r] = TxFor("read", j, CANCELLED, "never")]
    /\ UNCHANGED <<rows, phase, create, loop, worker, left, sweep, stops>>

\* POST /api/batches/{id}/cancel, for one of the QUEUED rows it listed
CancelInBatch(r, j) ==
    /\ "bulk" \in RequestKinds
    /\ phase = "up" /\ tx[r] = Idle
    /\ status[j] = QUEUED
    /\ tx' = [tx EXCEPT ![r] = TxFor("remove", j, CANCELLED, "always")]
    /\ UNCHANGED <<rows, phase, create, loop, worker, left, sweep, stops>>

\* DELETE /api/jobs/{hash}
Delete(r, j) ==
    /\ "delete" \in RequestKinds
    /\ phase = "up" /\ tx[r] = Idle
    /\ status[j] \in Settled
    /\ tx' = [tx EXCEPT ![r] = TxFor("read", j, DELETED, "never")]
    /\ UNCHANGED <<rows, phase, create, loop, worker, left, sweep, stops>>

\* JobQueue.remove
Remove(r) ==
    /\ tx[r].pc = "remove" /\ ~QueueLocked
    /\ queue' = queue \ {tx[r].job}
    /\ tx' = [tx EXCEPT ![r].pc = "read"]
    /\ UNCHANGED <<rows, phase, create, held, sched, tasks, slots, worker, left,
                   sweep, stops>>

-----------------------------------------------------------------------------
(* JobScheduler.run_forever                                                 *)

Stopping    == phase # "up"   \* JobScheduler._stop

UserHasSlotPlusOne(j) == slots[Owner[j]] <= MaxConcurrency

HasFreeSlot    == Cardinality(tasks) < GlobalMaxWorkers
UserHasSlot(j) == slots[Owner[j]] < MaxConcurrency

\* pop_next suspends in _mark_promoted, holding the queue lock.
PopBegin ==
    /\ sched = "idle" /\ ~Stopping
    /\ HasFreeSlot /\ queue # {}
    /\ sched' = "popping"
    /\ UNCHANGED <<rows, phase, create, queue, held, tasks, slots, worker, left,
                   tx, sweep, stops>>

CanPop(j) ==
    /\ j \in queue
    /\ \/ sched = "idle" /\ ~Stopping /\ HasFreeSlot
       \/ sched = "popping"

Dispatch(j) ==
    /\ CanPop(j) /\ UserHasSlot(j)
    /\ queue' = queue \ {j}
    /\ tasks' = tasks \cup {j}
    /\ slots' = [slots EXCEPT ![Owner[j]] = @ + 1]
    /\ worker' = [worker EXCEPT ![j] = "load"]
    /\ sched' = IF Stopping THEN "stopped" ELSE "idle"
    /\ UNCHANGED <<rows, phase, create, held, left, tx, sweep, stops>>

\* The user's slots are full.  Coroutines that wait for the queue lock get it
\* before requeue does; with none waiting the pop and the requeue are one step
\* that changes nothing here.
PopBlocked(j) ==
    /\ sched = "popping" /\ j \in queue /\ ~UserHasSlot(j)
    /\ queue' = queue \ {j}
    /\ held' = {j}
    /\ sched' = "requeue"
    /\ UNCHANGED <<rows, phase, create, tasks, slots, worker, left, tx, sweep,
                   stops>>

Requeue ==
    /\ sched = "requeue"
    /\ queue' = queue \cup held
    /\ held' = {}
    /\ sched' = "idle"
    /\ UNCHANGED <<rows, phase, create, tasks, slots, worker, left, tx, sweep,
                   stops>>

\* _mark_promoted raises: the promotions after it were taken out of their
\* lanes and are lost, and the exception leaves run_forever.
PromoteRaises ==
    /\ DbMayFail
    /\ sched = "popping"
    /\ queue' \in SUBSET queue \ {{}}
    /\ sched' = "dead"
    /\ UNCHANGED <<rows, phase, create, held, tasks, slots, worker, left, tx,
                   sweep, stops>>

StopSeen ==
    /\ sched = "idle" /\ Stopping
    /\ sched' = "stopped"
    /\ UNCHANGED <<rows, phase, create, queue, held, tasks, slots, worker, left,
                   tx, sweep, stops>>

\* Mutant of OnTaskDone: each of the two runs gives the slot back.
OnTaskDoneTwice(j) ==
    /\ tasks' = tasks \ {j}
    /\ slots' = [slots EXCEPT ![Owner[j]] = @ - 1]

\* _on_task_done runs twice for a task that _prune_done finds first; only the
\* first run finds it in _task_users.
OnTaskDone(j) ==
    /\ tasks' = tasks \ {j}
    /\ slots' = IF j \in tasks
                THEN [slots EXCEPT ![Owner[j]] = IF @ <= 1 THEN 0 ELSE @ - 1]
                ELSE slots

Prune(j) ==
    /\ sched = "idle" /\ ~Stopping
    /\ j \in tasks /\ worker[j] = "finished"
    /\ OnTaskDone(j)
    /\ UNCHANGED <<rows, phase, create, queue, held, sched, worker, left, tx,
                   sweep, stops>>

TaskDone(j) ==
    /\ worker[j] = "finished"
    /\ OnTaskDone(j)
    /\ worker' = [worker EXCEPT ![j] = "none"]
    /\ UNCHANGED <<rows, phase, create, queue, held, sched, left, tx, sweep,
                   stops>>

-----------------------------------------------------------------------------
(* JobExecutor.execute                                                      *)

Goto(j, from, to) ==
    /\ worker[j] = from
    /\ worker' = [worker EXCEPT ![j] = to]

Settle(j, from, to, policy) ==
    /\ Goto(j, from, "tx")
    /\ tx' = [tx EXCEPT ![j] = TxFor("read", j, to, policy)]

Fail(j, from, policy) == Settle(j, from, FAILED, policy)

\* _load_context; a row whose parameters do not validate is failed
Load(j) ==
    /\ \/ Goto(j, "load", "mark") /\ UNCHANGED tx
       \/ Fail(j, "load", "never")
    /\ UNCHANGED <<rows, phase, create, loop, left, sweep, stops>>

\* Mutant of MarkRunning: an UPDATE that does not compare the status.
MarkRunningBlindly(j) ==
    /\ Goto(j, "mark", "soft")
    /\ status' = [status EXCEPT ![j] = RUNNING]
    /\ UNCHANGED <<counted, debits, phase, create, loop, left, tx, sweep, stops>>

\* _mark_running: its first statement is an UPDATE, which takes the write
\* lock, so its read and its compare-and-swap are one step.
MarkRunning(j) ==
    /\ \/ /\ status[j] = QUEUED
          /\ status' = [status EXCEPT ![j] = RUNNING]
          /\ Goto(j, "mark", "soft")
       \/ /\ status[j] # QUEUED
          /\ Goto(j, "mark", "finished")
          /\ UNCHANGED status
    /\ UNCHANGED <<counted, debits, phase, create, loop, left, tx, sweep, stops>>

\* _apply_soft_penalty
SoftPenalty(j) ==
    /\ \/ Goto(j, "soft", "select") /\ UNCHANGED tx
       \/ Fail(j, "soft", "never")
    /\ UNCHANGED <<rows, phase, create, loop, left, sweep, stops>>

\* ProviderSelector.select
SelectCandidates(j) ==
    /\ \/ /\ \E n \in 1 .. MaxAttempts : left' = [left EXCEPT ![j] = n]
          /\ Goto(j, "select", "call")
          /\ UNCHANGED tx
       \/ Fail(j, "select", "won") /\ UNCHANGED left
    /\ UNCHANGED <<rows, phase, create, loop, sweep, stops>>

\* _call_adapter: an answer, or a StandardError and the next candidate
CallAdapter(j) ==
    /\ \/ /\ Goto(j, "call", "store") /\ UNCHANGED tx
          /\ left' = [left EXCEPT ![j] = 0]
       \/ /\ left[j] > 1 /\ Goto(j, "call", "call") /\ UNCHANGED tx
          /\ left' = [left EXCEPT ![j] = @ - 1]
       \/ /\ left[j] <= 1 /\ Fail(j, "call", "never")
          /\ left' = [left EXCEPT ![j] = 0]
    /\ UNCHANGED <<rows, phase, create, loop, sweep, stops>>

StoreImages(j) ==
    /\ \/ Goto(j, "store", "deduct") /\ UNCHANGED tx
       \/ Fail(j, "store", "never")
    /\ UNCHANGED <<rows, phase, create, loop, left, sweep, stops>>

\* Mutant of Deduct: a failure after the debit is taken for the provider's,
\* and the next candidate is called.
DeductAndRetry(j) ==
    /\ Goto(j, "deduct", "call")
    /\ debits' = [debits EXCEPT ![j] = @ + 1]
    /\ UNCHANGED <<status, counted, phase, create, loop, left, tx, sweep, stops>>

\* ProviderLedger.deduct
Deduct(j) ==
    /\ \/ /\ Goto(j, "deduct", "publish")
          /\ debits' = [debits EXCEPT ![j] = @ + 1]
          /\ UNCHANGED tx
       \/ Fail(j, "deduct", "never") /\ UNCHANGED debits
    /\ UNCHANGED <<status, counted, phase, create, loop, left, sweep, stops>>

\* _mark_success, _publish_success_result, then the transition
Publish(j) ==
    /\ Settle(j, "publish", SUCCEEDED, "never")
    /\ UNCHANGED <<rows, phase, create, loop, left, sweep, stops>>

\* An exception outside the try of _try_candidates ends the task.
WorkerRaises(j) ==
    /\ DbMayFail
    /\ worker[j] \in {"load", "mark", "soft", "select", "call", "publish"}
    /\ Goto(j, worker[j], "finished")
    /\ UNCHANGED <<rows, phase, create, loop, left, tx, sweep, stops>>

Execute(j) ==
    \/ Load(j) \/ MarkRunning(j) \/ SoftPenalty(j) \/ SelectCandidates(j)
    \/ CallAdapter(j) \/ StoreImages(j) \/ Deduct(j) \/ Publish(j)

-----------------------------------------------------------------------------
(* main.lifespan and graceful_shutdown.force_fail_running_jobs              *)

\* The process ends: coroutines and memory are gone.
GoDown ==
    /\ phase' = "down"
    /\ create' = [j \in Jobs |-> IF create[j] = "new" THEN "new" ELSE "done"]
    /\ queue' = {} /\ held' = {} /\ sched' = "off"
    /\ tasks' = {} /\ slots' = [u \in Users |-> 0]
    /\ worker' = [j \in Jobs |-> "none"]
    /\ left' = [j \in Jobs |-> 0]
    /\ tx' = [a \in Actors |-> Idle]
    /\ sweep' = {}
    /\ UNCHANGED rows

Crash ==
    /\ phase # "down" /\ stops < MaxStops
    /\ stops' = stops + 1
    /\ GoDown

\* uvicorn ends the requests in flight before it leaves the lifespan.
Drain ==
    /\ phase = "up" /\ stops < MaxStops
    /\ \A r \in Requests : tx[r] = Idle
    /\ \A j \in Jobs : create[j] \in {"new", "done"}
    /\ phase' = "draining"
    /\ stops' = stops + 1
    /\ UNCHANGED <<rows, create, loop, worker, left, tx, sweep>>

\* The workers are done or 30 s have passed.
SweepBegin ==
    /\ phase = "draining"
    /\ phase' = "sweeping"
    /\ sweep' = Rows(RUNNING)
    /\ UNCHANGED <<rows, create, loop, worker, left, tx, stops>>

SweepRow(j) ==
    /\ j \in sweep /\ tx[Sweeper] = Idle
    /\ tx' = [tx EXCEPT ![Sweeper] = TxFor("read", j, FAILED, "won")]
    /\ UNCHANGED <<rows, phase, create, loop, worker, left, sweep, stops>>

\* scheduler_task.cancel(): a loop inside pop_next or requeue still waits for
\* its workers; one that waits for them already passes the cancellation on.
CancelScheduler ==
    /\ phase = "sweeping" /\ sweep = {}
    /\ \/ /\ sched \in {"popping", "requeue"} /\ tasks # {}
          /\ phase' = "closing"
          /\ sched' = "stopped"
          /\ UNCHANGED <<rows, create, queue, held, tasks, slots, worker, left,
                         tx, sweep>>
       \/ /\ sched \in {"stopped", "dead"} \/ tasks = {}
          /\ GoDown
    /\ UNCHANGED stops

Closed ==
    /\ phase = "closing"
    /\ \A j \in Jobs : worker[j] \in {"none", "finished"}
    /\ GoDown
    /\ UNCHANGED stops

\* Mutants of Restart: no restore_queued_jobs, no startup sweep
RestartUnrestored ==
    /\ phase = "down"
    /\ phase' = "starting"
    /\ sweep' = Rows(RUNNING)
    /\ UNCHANGED <<rows, create, loop, worker, left, tx, stops>>

RestartUnswept ==
    /\ phase = "down"
    /\ phase' = "starting"
    /\ queue' = Rows(QUEUED)
    /\ UNCHANGED <<rows, create, held, sched, tasks, slots, worker, left, tx,
                   sweep, stops>>

\* restore_queued_jobs, and the list of the startup sweep
Restart ==
    /\ phase = "down"
    /\ phase' = "starting"
    /\ queue' = Rows(QUEUED)
    /\ sweep' = Rows(RUNNING)
    /\ UNCHANGED <<rows, create, held, sched, tasks, slots, worker, left, tx,
                   stops>>

StartupDone ==
    /\ phase = "starting" /\ sweep = {}
    /\ phase' = "up"
    /\ sched' = "idle"
    /\ UNCHANGED <<rows, create, queue, held, tasks, slots, worker, left, tx,
                   sweep, stops>>

-----------------------------------------------------------------------------
Transition(a) == Read(a) \/ Cas(a) \/ Refund(a) \/ TxRaises(a)

CreateStep(j) == Insert(j) \/ InsertFails(j) \/ Enqueue(j)

Lifespan == SweepBegin \/ CancelScheduler \/ Closed \/ Restart \/ StartupDone

Next ==
    \/ \E a \in Actors : Transition(a)
    \/ \E j \in Jobs :
          \/ Charge(j) \/ InsertUncharged(j) \/ CreateStep(j)
          \/ Dispatch(j) \/ PopBlocked(j) \/ Prune(j) \/ TaskDone(j)
          \/ Execute(j) \/ WorkerRaises(j) \/ SweepRow(j)
          \/ \E r \in Requests :
                Cancel(r, j) \/ CancelInBatch(r, j) \/ Delete(r, j)
    \/ \E r \in Requests : Remove(r)
    \/ PopBegin \/ Requeue \/ PromoteRaises \/ StopSeen
    \/ Crash \/ Drain \/ Lifespan

Spec == Init /\ [][Next]_vars

(***************************************************************************)
(* The event loop runs every coroutine that can go on; an upstream call    *)
(* ends (adapters time out); the operator restarts the process.  Dispatch  *)
(* is strongly fair per job: lanes are FIFO with positive weights, so the  *)
(* loop pops each waiting job again and again.                             *)
(***************************************************************************)
FairSpec ==
    /\ Spec
    /\ \A a \in Actors : WF_vars(Transition(a))
    /\ \A r \in Requests : WF_vars(Remove(r))
    /\ \A j \in Jobs :
          /\ WF_vars(CreateStep(j))
          /\ WF_vars(Execute(j))
          /\ WF_vars(TaskDone(j))
          /\ WF_vars(SweepRow(j))
          /\ SF_vars(Dispatch(j))
    /\ WF_vars(\E j \in Jobs : Dispatch(j) \/ PopBlocked(j))
    /\ WF_vars(Requeue) /\ WF_vars(StopSeen)
    /\ WF_vars(Lifespan)

-----------------------------------------------------------------------------
(* Properties                                                               *)

Executing == {"soft", "select", "call", "store", "deduct", "publish", "tx"}
Live(j)   == worker[j] \notin {"none", "finished"}

(* No accepted job is forgotten: while the process lives, a row that says  *)
(* QUEUED is in the queue, or in the hands of a coroutine that will settle *)
(* or enqueue it.  Across create, pop, requeue, cancel and restart.        *)
QueuedIsTracked ==
    phase # "down" =>
        \A j \in Rows(QUEUED) :
            \/ create[j] = "inserted"
            \/ j \in queue \cup held
            \/ worker[j] \in {"load", "mark", "tx"}
            \/ \E r \in Requests : tx[r] # Idle /\ tx[r].job = j

(* No job stays RUNNING on its own: a worker executes it, or the startup   *)
(* sweep has still to fail it.                                              *)
RunningIsOwned ==
    phase # "down" =>
        \A j \in Rows(RUNNING) :
            \/ worker[j] \in Executing
            \/ phase = "starting" /\ j \in sweep

(* _running_by_user follows the tasks that really run, although a task's   *)
(* end is accounted for in two places, so neither limit is ever exceeded.  *)
ConcurrencyRespected ==
    /\ \A u \in Users :
          Cardinality({j \in Jobs : Live(j) /\ Owner[j] = u}) <= MaxConcurrency
    /\ Cardinality({j \in Jobs : Live(j)}) <= GlobalMaxWorkers

(* A job's charge on the daily counter is given back at most once, however *)
(* the cancel endpoint, the executor and the two sweeps race.              *)
RefundedAtMostOnce == \A j \in Jobs : counted[j] \in {0, 1}

(* The provider is debited at most once for a job, across cancellations,   *)
(* provider fallbacks, crashes and restarts.                               *)
SpentAtMostOnce == \A j \in Jobs : debits[j] \in {0, 1}

(* "Quota is not refunded for in-flight cancels": the cancel endpoint only *)
(* refunds a job that it moved out of QUEUED.                              *)
InFlightCancelKeepsCharge ==
    \A r \in Requests :
        tx[r].pc = "refund" /\ tx[r].refund = "won" => tx[r].from = QUEUED

(* "The executor checks status at safe points and bails": no debit is made *)
(* for a job after its cancellation.                                        *)
NoDebitAfterCancel ==
    [][\A j \in Jobs : debits'[j] > debits[j] => status[j] # CANCELLED]_vars

(* A job leaves the queue for a worker, for the requeue or because a       *)
(* request cancels it: promotion, best-effort, drops none.                 *)
QueueDropsNoJob ==
    [][phase' = phase =>
          queue \ queue' \subseteq
             tasks' \cup held' \cup {j \in Jobs : \E r \in Requests :
                                       tx'[r] # Idle /\ tx'[r].job = j}]_vars

(* The pipeline implements the contract of one durable row.                *)
Contract == INSTANCE JobContract
               WITH Jobs <- Jobs, status <- status, debits <- debits
ImplementsContract == Contract!Spec

(* Every accepted job settles, provided the process stops finitely often.  *)
AcceptedJobsSettle ==
    \A j \in Jobs : status[j] \in {QUEUED, RUNNING} ~> status[j] \in Over

=============================================================================
