# Verification of txt2img

TLA+ models of txt2img, of its backend (`backend/app`) and of its web client
(`frontend/src`), TLC configurations that check them on small instances, and TLAPS
proofs of the results that hold for every instance. The code is the reference: where a
model and a document of the repository disagree, the model follows the code and the
disagreement is listed under *Known deviations*.

## 1. The system

One uvicorn process (`Dockerfile`: `--workers 1`) runs everything on one asyncio
event loop; SQLite in WAL mode is the only state that survives it. Two facts of
this platform shape all models:

* a coroutine is interrupted only at an `await`, so what lies between two awaits
  is one step, and everything read before an await may be stale after it;
* SQLite ignores `SELECT ... FOR UPDATE`. A transaction takes the write lock with
  its first UPDATE, INSERT or DELETE and keeps it until it commits, so a
  read-then-flush of an ORM row is *not* atomic while an `UPDATE ... WHERE` is. A
  second writer waits for `busy_timeout`, then gets "database is locked": any
  statement can raise.

The client is a React application whose state lives in stores (modules with
listeners), in components, and in the browser: localStorage shared by the tabs,
sessionStorage per tab, IndexedDB. It has its own event loop with the same rule: what
lies between two awaits, timers or renders is one step. Three facts shape its models:

* a callback keeps the values of the render it was made in, a ref has the present
  ones, and which of the two a handler reads decides most races;
* effects run after a commit, their cleanups before the next run and at the unmount;
* requests, IndexedDB transactions, timers and events of the stream interleave freely,
  and an answer may arrive after its page was left.

| Component | State it keeps | Operations | Interacts with |
|---|---|---|---|
| Job lifecycle (`job_lifecycle.py`) | `jobs.status` | `transition`: read, graph check, compare-and-swap, broadcast, batch fan-in | every component that ends or starts a job |
| Job HTTP handlers (`api/jobs.py`, `picker.py`, `admin/jobs.py`) | rows, daily charge | create, cancel, delete, vary, requeue | quota guard, queue, lifecycle, batches |
| Job queue (`job_queue.py`) | four FIFO lanes, virtual times, dispatch window | enqueue, pop_next (promotes), requeue, remove, close | handlers, scheduler |
| Job scheduler (`job_scheduler.py`) | tasks, slots per user, stop flag | run_forever, dispatch, on_task_done, prune, drain, restore | queue, executor |
| Job executor (`job_executor.py`) | none of its own; one coroutine per job | load, mark running, soft penalty, select, call, store, deduct, finish | lifecycle, selector, adapters, ledger, breaker |
| Shutdown and restart (`main.py`, `graceful_shutdown.py`) | - | drain, sweep RUNNING rows, cancel the loop; restore and sweep at start | scheduler, lifecycle, quota guard |
| Quota guard (`quota_guard.py`) | `users.today_count`, `today_reset_date` | record, refund, lazy reset, periodic reset | handlers, executor, sweep |
| Provider ledger (`provider_ledger.py`) | `balance_cny`, `billing_ledger` | deduct, topup | executor, admins, breaker's row |
| Circuit breaker (`circuit_breaker.py`) | mirror in memory, `providers.circuit_state` | observe, mark_drained, try_auto_recover, reset_to_healthy | selector, executor, admins |
| Batch service and handlers (`batch_service.py`, `api/batches.py`) | the `batches` row: status, slots, three counters | create, bind, fan-in, finalize, watchdog, cancel, delete | lifecycle, create handler |
| SSE hub and stream (`sse_hub.py`, `api/sse.js`) | queues per connection, replay ring; connection, retry and watchdog of the tab | register, broadcast, replay; connect, retry, parse | every component that reports; the client's stores |
| Announcement bus, admin broadcaster | announcements, subscribers | publish | SSE hub |
| Config center, tier config | cached rows | load, set, read | all |
| Cache keeper, account lifecycle | files and rows to purge | periodic loops, admin actions | jobs' files and rows |
| Archive, sessions, picker endpoints | rows, tombstones | cursor reads, CRUD | archive and picker of the client |
| Adapters, model catalog, validators | none that changes | pure or per request | executor, handlers |
| Session of the tabs (`store/auth.js`, `api/client.js`, `LoginPage.jsx`) | token shared by the tabs, token of an impersonation tab | sign in, impersonate, sign out, be rejected | every request |
| Archive of the client (`store/archive.js`, `archiveDB.js`) | rows, their copy in IndexedDB | hydrate, delta sync, details, events | SSE, archive page |
| Archive page (`ArchivePage.jsx`, its hooks and components) | pages in view, filter and sort, drawer, set, lightbox | page, filter, open, swipe | archive store |
| Create page (`CreatePage.jsx`, its hooks and controls) | form, draft, models, parameters | edit, restore, Generate, fan-out | API, captcha modal, IndexedDB |
| Picker page (`PickerPage.jsx`, `store/picker.js`, `pickerImageQueue.js`) | judgments, cursor, cache of pictures | judge, swap, undo, fetch | API, SSE |
| Batch page (`BatchPage.jsx`, `store/batch.js`) | form and its draft, running batches | autosave, submit, follow | API, SSE, IndexedDB |
| Mask editor (`MaskEditPage.jsx`, `useMaskDraftAutosave.js`, `maskeditor/`) | source, mask and its history, draft, lineage | paint, submit, compare, accept, switch | API, IndexedDB |
| Preferences (`store/preferences.js`, `SettingsPage.jsx`) | staged edits over what the server keeps | load, stage, save, reset | API |

`PROJECT.json` lists each of these with its sources and its status, and under
`hazards` what is hard to test in each, at its line.

### What makes each component correct

* **Job pipeline.** An accepted job is never forgotten, never stuck, and settles; a
  status only moves along the graph; the provider is debited at most once; the
  user's charge is given back at most once; a user never has more than
  `max_concurrency` jobs running. Hard because create, cancel, batch cancel, the
  worker, the drain sweep and the restart all race for one row.
* **Batch.** Slots and counters agree with the jobs' rows, the terminal status
  tells the truth about the jobs, is reached, and is final. Hard because of stale
  ORM rows (finalize, watchdog) against atomic updates (bind, fan-in), and because
  the fan-in runs after the job's own commit.
* **Circuit breaker.** The row the selector reads follows the mirror the executor
  writes; a failing provider opens, a healthy one does not, an open one recovers.
  Hard because of late answers, because the mirror moves before the row, and
  because `topup` writes the row only.
* **Queue.** FIFO within a lane, weights between lanes, no starvation, promotion
  once and without loss. **Quota.** No more jobs a day than the quota, the counter
  is the day's jobs.
* **Event stream.** One connection per tab, given up when it is silent, tried again
  when it ends; a client that caught up has every event. Hard because retry timer,
  watchdog, sign-in and reconnect start connections on their own, and because the
  replay is read while new events are broadcast.
* **Copies of the server's state** (archive, batches, judgments). Exact once answers
  and events are in, in whatever order they came.
* **Submissions.** What is sent is what was asked for, a request without an answer is
  repeated under its id, a refused one is tried again and counted once, and every press
  ends. Hard because the captcha modal is shared and pauses a pool of workers.
* **Drafts.** What is stored is the work on screen. Hard because debounce, restore,
  clear, submission and leaving the page write one record.
* **Lists and steps.** Every row once, no step past a neighbour or over another's
  judgment, although lists change while timers and animations run.
* **Session.** It ends for a cause, and leaving an impersonation keeps the admin's.

## 2. Modules

| Module | Models | Extends |
|---|---|---|
| `JobStatus` | the statuses and `_ALLOWED_TRANSITIONS` | - |
| `JobContract` | abstract specification: what the pipeline promises of one row | `JobStatus` |
| `JobPipeline` | lifecycle, handlers, queue (as a set), scheduler, executor, shutdown and restart, composed | `JobStatus`, instantiates `JobContract` |
| `JobPipelineProofs` | theorems about `JobPipeline`: types, debit, refund, contract, the scheduler's limits, no job lost or left RUNNING | `JobPipeline`, `FiniteSetTheorems`, `TLAPS` |
| `BatchService` | one batch and the jobs bound to it, all of its writers | `JobStatus` |
| `BatchServiceProofs` | theorems about `BatchService` | `BatchService`, `FiniteSetTheorems`, `TLAPS` |
| `CircuitBreaker` | one provider, its row and its mirror, the selector, the executor's reports, admins | - |
| `CircuitBreakerProofs` | theorems about `CircuitBreaker` | `CircuitBreaker`, `TLAPS` |
| `Filter` | the filter that replay, promotion and the picker's cache share, as a function that a proof can expand | - |
| `FilterProofs` | what it returns, and facts about lists and induction that the other proofs need | `Filter`, `SequencesExt`, theorem modules |
| `JobQueue` | the four lanes in their order: virtual times, starvation guard, promotion, requeue, positions, restore | `Filter` |
| `JobQueueProofs` | theorems about `JobQueue` | `JobQueue`, `FilterProofs` |
| `Admission` | the gates of `POST /api/jobs`, the quota guard and the daily reset | - |
| `AdmissionProofs` | theorems about `Admission` | `Admission`, `FiniteSetTheorems`, `TLAPS` |
| `EventStream` | a tab's SSE client and store against the hub with its ring and queues | `Filter` |
| `Session` | tokens, sign-in and its captcha, impersonation, rejected tokens, in several tabs | - |
| `ArchiveStore` | rows of the archive: server, memory, IndexedDB, delta sync, details, events | - |
| `ArchivePaging`, `ArchiveFilter`, `ArchiveView` | pages in view; filter, sets and sort; drawer, set detail and lightbox | - |
| `CreateGenerate`, `CreateFanout` | a press for one request, with captcha and repeats; a press for many | - |
| `CreateDraft`, `CreateModels` | the draft of the form; models and their sticky parameters | - |
| `SizePicker`, `OutputCount` | the two controls with a state of their own | - |
| `PickerView`, `PickerStore`, `PickerImages` | cursor, judging and views; judgments against answers and events; the fetch queue | - |
| `BatchEditor`, `BatchCards` | form, autosave, submission pool, finalize; running batches and drawer | - |
| `MaskDraft`, `MaskCanvas`, `Lineage` | sources, draft and submission; canvas and undo; the family graph | - |
| `Preferences` | staged edits, save, reset, another device | - |
| `MCJobPipeline`, `MCBatchService`, `MCJobQueue`, `MCAdmission` | constants and symmetry for TLC | the module they check |
| `MCClient` | the parts of the client side by side, and their properties by question | `Session`, instantiates 16 modules |
| `MCClientLive` | the parts with liveness, their fairness | `EventStream`, instantiates `CreateFanout`, `PickerImages`, `BatchEditor` |
| `ClientProofs` | theorems about `MCClient`: session, submissions, drafts, kept work | `MCClient`, `FilterProofs`, `FunctionTheorems` |
| `ClientLiveProofs` | theorems about `EventStream` and `MCClientLive`: one stream, nothing missed, requests | `MCClientLive`, `FilterProofs` |

Each module ends with its properties. Some definitions are deliberate faults that
stand just before the definition they vary (`ChosenUnflushed` before `Chosen`):
replacing that definition by the fault breaks a property, which shows that the
property can fail. Properties that TLC refutes stay in the modules, with the sentence
of the code they state; *Known deviations* lists them.

### JobPipeline

State and code:

| Variable | Code |
|---|---|
| `status`, `debits` | `jobs.status`; the job's rows in `billing_ledger` |
| `counted` | what the job holds of `users.today_count` (charges less refunds) |
| `create` | progress of the create handler: new, charged, inserted, done |
| `queue`, `held` | the queue's contents; the job popped and not yet requeued |
| `sched`, `tasks`, `slots` | `run_forever`, `_tasks` with `_task_users`, `_running_by_user` |
| `worker`, `left` | the executor's phase per job; candidates left |
| `tx` | one `transition` in progress per caller (worker, request, sweep): its phase, target, the status it read, and the caller's refund policy |
| `phase`, `sweep`, `stops` | the lifespan; rows the sweep has still to visit; bound on stops |

`transition` is split where the code awaits: `Read` (SELECT and graph check),
`Cas` (`UPDATE ... WHERE status = <read>`), then `Refund`. What the caller does
with the outcome is its policy: `won` (cancel, no provider, sweep), `always`
(batch cancel), `never`. `MarkRunning` is one step because its first statement is
an UPDATE. `pop_next`, the slot check and dispatch or requeue are one step unless
`_mark_promoted` suspends the loop (`PopBegin`), which is when other coroutines
queue up for the lock. Shutdown follows `main.lifespan`: drain (at most 30 s, so
`SweepBegin` may come while workers run), sweep, cancellation of the loop, which
waits for workers only if the loop was inside `pop_next` or `requeue`. A crash may
come at any step. Prompts, images, candidates' identity, amounts and SSE are
abstracted; adapters are a choice between an answer and an error.

### BatchService

Jobs move along their graph in one step (`Advance`): the compare-and-swap is
`JobPipeline`'s subject. What is kept is every read and write of the batch row:
`Bind` (claims a slot with `UPDATE ... WHERE submitted < total`), the fan-in as a
transaction of its own after the job's commit, `finalize_submission` in its three
steps (load, count in flight, flush), the watchdog in two (select, flush), the
cancel handler's list and loop, and delete in both modes, with the write lock that
`keep_jobs=false` holds while its inner transitions wait for it. A flush writes
the columns the handler assigned and nothing else, as SQLAlchemy does. `late` is a
history variable: the jobs bound while a `finalize_submission` was between its read
and its write (deviation 34).

### CircuitBreaker

Every operation holds the provider's lock and changes the mirror before it awaits
`_persist_state`: `Enter`, then `Persist` or `PersistRaises`. The selector loads
the row in one step and filters in another. `streak` is a history variable: the
failures reported in a row. A write that raised sets `missed`: the mirror has moved and
the row has not, until a later write reaches it.

### JobQueue

`JobPipeline` has the queue as a set; here it has its order. A lane is known by its
rank, a `Fraction` is a multiple of 1/`Unit`, `window` is `_dispatch_window`. The
queue's lock matters only while `_promote_expired_locked` awaits `_mark_promoted`:
`PromoteBegin` takes every overdue job out of its lane, `Promote` appends them one
by one, `PopPromoted` pops, and a requeue then waits for the lock (`held`).
Without promotions `pop_next` and the requeue that may follow are one step.
`position` is the function `Position`, which simulates pops as the code does.
Weights change whenever they are refreshed; `passed` is a history variable. The
inserts and cancels are one step with their queue operation, because their windows
are the subject of `JobPipeline`.

### Admission

A create call goes through the look-up of its `client_request_id`, the hard quota,
the capacity, the soft quota, validation, `record_usage` and the insert, each in a
transaction of its own (`pc`). A transaction that updates takes the write lock with
its first statement, so it is one step, but `beijing_today()` is evaluated before
the wait for the lock: `date[g]` is what caller `g` read. `Current` is the lazy
reset. `vary_seed` and the admin's requeue pass none of these gates (`Vary`); their
jobs count for the capacity and are counted apart (`varied`).

### The client

`MCClient` and `MCClientLive` choose one part at the start (`screen`), which works
while the others wait in their initial states: the parts share no variable, so the
reachable states are those of the parts, not of their product, and one run answers
one question for all of them. What does pass between them is in the models: the
archive's events are those of `EventStream` seen from a store, the jobs that
`CreateFanout` and `BatchEditor` post meet the captcha gate that `CreateGenerate`
follows in detail.

*Event stream.* A slot is a connection with two ends, `wire` between them. `Broadcast`
is one step (the hub's locks are not held across an await) and drops a subscriber whose
queue is full; `Accept`, `Replay`, `SendReplayed` and `SendQueued` are the awaits of
`stream()`. On the client `Open`, `Opened`, `Read`, `Ended` follow `connect`; the abort
of the connection before, the backoff and the "lost" state after `LostAfter` failures
are kept.

*Session.* localStorage is one token for all tabs, sessionStorage one per tab; an
answer acts on the token the tab has by then (`Kicks`, `Leave`).

*Archive store.* `IndexRead`, `Decide`, `DetailsRead` and `SyncApply` are the
phases of `sync()`; an event may come between any two. A row is written in memory at
once and asked of IndexedDB (`saving`), which serves (`Served`) or refuses its requests in their
order; the cursor of the delta and each write of a sync wait for theirs, an event's details are
fetched after its own, and a reload loses what was not served. Times are whole seconds, so
two changes can share one. `excused` names the rows that a known race has spoiled
(deviation 17), so that `QuietStoreIsExact` says that nothing else does.

*Archive page.* `ArchivePaging` counts rows only; `ArchiveFilter` computes the list
itself (filter, sets, sort) and delays what the popover decides by its exit
animation; `ArchiveView` has every handler of drawer, set and lightbox with the
180 ms and swipe timers.

*Create page.* `CreateGenerate` follows two presses through catalog, precheck,
modal, POST, refusal and failure, with the modal's one promise. `CreateFanout` has
its workers (`batch_concurrency_max || 4` in the code), each at one of its awaits, and the
pause. `CreateDraft` is the hook with localStorage, the IndexedDB requests in their order
and crashes; `CreateModels` the refresh that judges by the model of its render and falls back
on the last model, the preferred one or the first, the sticky timer, and a Generate that
clamps the parameter of its render after the refresh it awaited (`Posts`).

*Picker.* In `PickerView` an effect runs when a value it depends on has changed
(`due`); `PickerStore` has server, copy, unsent and posted judgments, the answers
and the echoes; in `PickerImages` a promise is named by the fetch that settles it.

*Batch page.* `BatchEditor` counts what `CreateFanout` follows one by one, and adds
registration, autosave, restore, finalize and a second visit. `BatchCards` hydrates,
subscribes, dismisses and opens the drawer.

*Mask editor.* In `MaskDraft` prompts and paintings are numbers; base, timers, pending
read and PNG, route and submission are kept, and the history of the mask, because the
autosave effect watches its length: `Stroke` arms the timer only if `Pushed` changes it,
`JumpTo` (undo, redo, list of steps) never does, and `unheard` remembers it. A write may be
rejected or lack its PNG (`whole`). `MaskCanvas` numbers the contents of a
canvas and keeps stack, cursor and the mounted stage apart. `Lineage` builds the
graph level by level and walks it with the keys.

## 3. Runs

All configurations use small sets of model values; `CHECK_DEADLOCK FALSE` is
given where the system may really stop (all jobs settled, no more restarts, bounds of
the user's actions used up).

| Run | Question | Bounds |
|---|---|---|
| `pipeline_safety` | no job lost or stuck, one refund, one debit, limits respected | 2 jobs of one user, 2 request coroutines, 2 attempts, 1 stop |
| `pipeline_dbfail` | the row's contract when statements raise, with jobs that were not charged | 2 jobs, 1 request coroutine, 1 worker slot, 2 slots per user, 1 stop |
| `pipeline_liveness` | every accepted job settles | 2 jobs, 1 slot per user, 1 attempt, 1 stop |
| `batch_safety` | slots and counters agree with rows, outcome truthful | 3 jobs for 2 slots, 1 cancel/delete caller, 1 crash, failing statements |
| `batch_liveness` | no batch submits forever, a submitted one is finalized | 2 jobs, 2 slots |
| `breaker_safety` | row follows mirror, failing provider opens and only on a streak, open one recovers | 2 workers, threshold 2, resets, top-ups, 1 restart, failing writes |
| `queue_order` | every job once, promoted once, lanes keep their order, positions come true | 3 lanes, 3 jobs of 2 users, 2 weightings, 3 pops, normalisation every 3 pops, 1 restart, failing flag updates |
| `queue_share` | no lane starves | 3 lanes, 1 job each, submitted again and again, weights 1:4:4, window 4, guard from 2 dispatches, 8 pops |
| `admission_safety` | quota and capacity exceeded at most by the calls in flight, no charge of another day, the reset settles | 2 create calls of one user, 1 settler, quota 2, capacity 2, 1 varied job, 2 days |
| `client_safety` | the client's safety, by question: types, submissions, drafts, copies, lists, steps of the galleries, work, session | see below |
| `client_liveness` | one stream, nothing missed, retries, stalls, presses, pictures and submissions end | 2 connections, a queue of 2, with 2 events and 1 fault (screen `stream`) and with 3 events, which overflow the queue, and none (screen `full`); 2 workers, 3 tasks, 2 refusals; 2 panes, 2 pictures, 1 fetch at a time, room for 1; 2 slots, 2 visits of which the first may have left a draft, 1 edit |
| `editor_restore` | a violation, deviation 1 | 2 slots, 1 edit, 2 visits |

The parts of `client_safety`, with what each property says of them:

| Part | Bounds | Properties |
|---|---|---|
| session | 2 tabs, 2 tokens, 1 impersonation token | `SessionSteps`: leaving an impersonation keeps the admin's token; no session ends without a leave or a rejection |
| archive | 2 rows, 1 of them there at the start, 2 changes, 2 events, 1 refresh, 1 request to IndexedDB at a time, 1 fault | `CopiesAreExact`: the quiet store is the server's |
| paging | 7 rows, 2 a page | `ListsSafe`: no gap between pages in view, one empty page at most |
| filter | 3 rows of 2 statuses, a set, 4 steps | `ListsSafe`: each match on one card; `GallerySteps`: the first request of an exit counts, an event reorders no other card |
| view | 3 rows, 3 panels, 2 a page | `GallerySteps`: panel and page agree, one step moves to a neighbour |
| family | 3 jobs of 1 or 2 images, 3 nodes, 3 lanes | `ListsSafe`: the graph is a forest, every node can be walked to and back |
| press | 2 presses, 2 requests | `SubmissionsSafe`: an unanswered request is repeated under its id, a token is sent once |
| model, size, amount | 2 models, the second preferred, 1 change; 5 typed numbers; 4 images | `SubmissionsSafe`: what is remembered, set and shown is one; `WorkIsKept`: a switch keeps parameters |
| draft | 2 texts, 1 choice of images, 2 requests, 1 fault | `DraftsSafe`: with nothing under way the stored draft is the form |
| mask, again | 1 job, a history of 2 steps; mask: 2 sources, 1 visit with a pick and 1 edit; again: 3 visits and edits together, no pick; undo and redo are free in both | `DraftsSafe`: what the autosave has heard of is stored; `WorkIsKept`: going back stores the work, also what it has missed |
| canvas | 2 steps, 3 marks, 2 results | `DraftsSafe`: the top of the stack is the canvas |
| settings | 2 values, 3 calls, 1 change elsewhere | `DraftsSafe`: what is staged differs from what is saved |
| picker | 2 sessions of 2 images, 1 mark, 2 visits | `ListsSafe`: one final image; `GallerySteps`: the next image is unjudged, a final one is replaced on request |
| judgments | 3 images of 2 sessions, 3 writes and reads | `CopiesAreExact`: with nothing under way the marks are the server's |
| cards, drawer | 1 batch, 2 reads, 2 events; 2 batches, 1 read | `CopiesAreExact`: the quiet list is the server's, the drawer shows its batch |

Why these bounds are enough to be interesting: two jobs of one user with one slot
make the slot, the requeue and the queue lock contended; two request coroutines
race each other and the worker for one row; one stop separates two incarnations of
the process, and a second would start from the same states. Three jobs race for
the second slot of a batch. With threshold 2 one failure is not enough and a late
one is too many. Three lanes are the least in which a promoted job has a lane
above its new one; two jobs of one user meet the ceiling, so a pop is followed by
a requeue. `MaxPops` ends the exploration of the queue: eight pops are twice the
window. In `queue_share` the share is 1/4 of a window of 4 where the code has 1/20
of 200: in both the guard acts when a lane has less than its share of a full
window. In the client two of everything is what a race needs: two reads of a list with
events between them, two presses that share a modal, two visits of a page of which the
first left a request behind, two sessions or batches of which the answer is for the
other. Three rows are needed where one lies between two others, one fault because after it everything is as at the start. Bounds
count actions of the user, the server and the network; timers, effects and answers have
none. A history of two steps is full after one stroke, so a stroke at the limit, an undo and a
stroke after it all happen. With a second source the editor can be switched while a
submission runs; it is opened on the first source, for they are alike, and a visit with a pick
is not followed beyond the race that its properties except (`OpenedFirst`). The theorems
`DraftsAreSafe` and `WorkStaysKept` have none of these bounds but the last, which their
invariant does not use. With a quota of 2 and two calls both can pass the check before either
records; one midnight separates the dates that callers may still hold.

Fairness. The event loop runs every coroutine that can continue, so transitions,
handlers, workers and the lifespan are weakly fair; an upstream call ends because
adapters have timeouts; the operator starts the process again after it stopped.
`Dispatch` is strongly fair per job: a lane is FIFO and every lane has a positive
weight, so the loop pops a waiting job again and again until its user has a slot.
Of the breaker, workers keep selecting (jobs keep coming), the lock is handed over
in FIFO order, and a cooldown elapses. The quota sweep runs at each start and
every minute and survives its errors, so its reading of the date is weakly fair; its
update is strongly fair, as restarts do not cut off every update. Crashes, failures, admin actions and
requests are never fair. In the client timers, effects and IndexedDB are weakly fair
because the browser runs them; a request ends because fetch settles, in an answer or an
error; the server's end of a stream (`Accept`, `Replay`, the sends) is one coroutine of
the hub, weakly fair as one. `Landed` and `Failed` of the batch page are strongly fair together: a refusal
may intervene, but refusals are bounded by the captcha's grace. That the user answers
an open modal is part of `SubmitSteps` and `FanoutSteps`: solving or closing, either
will do. Nothing else that the user does is fair. Liveness is checked without failing statements: with them
it does not hold: a statement that raises in a worker leaves its row RUNNING
(deviation 5). `NoLaneStarves` is what the strong fairness of `Dispatch` rests on.

## 4. Theorems

`JobPipelineProofs` proves, for any finite set of jobs, any requests, limits,
number of stops, and with failing statements allowed:

* `TypeCorrect`: `Spec => []TypeOK`, which includes that no slot counter goes below zero.
* `DebitedOnce`: `Spec => []SpentAtMostOnce`.
* `PipelineImplementsContract`: `Spec => Contract!Spec`, the refinement of the row's contract.
* `RefundedOnce`: `Spec => []RefundedAtMostOnce` unless `RequestKinds` has the batch
  cancel or the endpoints that do not charge; both really break it.

The assumptions are the named ASSUMEs of `JobPipeline`: finitely many jobs with an
owner each, request coroutines and the sweep distinct from jobs, positive limits.

*The debit.* `SpentAtMostOnce` is not inductive: nothing in it says why the worker
that debits is the only one. `SpendInv` adds that a worker between the claim and
the debit has an unpaid row that is past QUEUED, that a row not yet inserted is
NONE, and that a pending compare-and-swap is an edge of the graph; no edge leads
back to QUEUED, so no second worker can claim the job. Success carries its debit
(`tx.to = SUCCEEDED => debits = 1`), which is what the refinement needs.

*The refund.* `RefundInv` adds that a row in QUEUED or RUNNING holds its charge,
that a refund under way is for a row that is over and still holds it, and that no
two refunds for one job are under way. The compare-and-swap gives each row one
winner. The hypothesis excludes the policy `always`, which needs no win, and jobs
inserted without a charge.

The proofs go through *frame lemmas* (`TransitionFrame`, `ConcludeFrame`,
`SpendQuiet`, `RefundQuiet`) that say once what a family of actions leaves alone,
so that the step lemmas have one case per action that matters.

`AdmissionProofs` proves, for any users, finitely many create calls and any days:

* `TypeCorrect`: `Spec => []TypeOK`; `today_count` is never negative.
* `QuotaOvershoot`: `Spec => []OvershootBounded`. The count exceeds the hard quota by at
  most the user's calls in flight besides the first.
* `CapacityOvershoot`: `Spec => []CapacityBounded`, the same for `max_concurrency + max_queue`.

* `NoForeignCharge`: `Spec => []NeverOvercharged`. A row that has today's date counts no
  more than today's charges.

Both bounds are inductive together with `TypeOK`, because they count the calls that
have passed the gate and not yet reached the counter: `count + calls past the gate
<= quota - 1 + calls`. A step either lets nothing grow (`NothingGrows`), or finds
the counter below the limit, where any set of calls will do (`BelowTheLimit`), or
moves one call from the set into the counter (`OneIsCounted`); these three lemmas
are about finite sets only, and `CreateCounts`, `OthersDoNotCount`, `CreateOccupies`
and `OthersDoNotOccupy` say which of the three a step is. The assumptions are those
of `Admission`: finitely many calls, each with a user, and positive limits.
`NoForeignCharge` needs `DayInv`: no date that a caller holds or a row has is ahead of
the day (so a late writer makes the row old, never new), and the overshoot bound,
which keeps the count below the ceiling of the history variable `used`.

Of the scheduler the same module proves, under the same assumptions:

* `LimitsHold`: `Spec => []ConcurrencyRespected`.
* `QueuedTracked`, `RunningOwned`: `~DbMayFail => (Spec => []QueuedIsTracked)`, and the same
  for `RunningIsOwned`. The hypothesis is a finding, not a convenience: a statement that
  raises in a worker leaves its row RUNNING (deviation 5), and TLC refutes both without it.

*The limits.* `SlotInv` says that a user's slots are exactly its tasks, that both limits
hold for tasks, and that a loop suspended in `pop_next` still has the free worker it found:
nothing but the loop itself starts tasks. It rests on `PlaceInv`, which says where a job can
be: being created, queued or held, or a task, and a live worker has a task.

*Lost jobs.* `TrackInv` adds what a pending transition knows of its row (`TxTruth`): the
row it read has stayed as it was or is over, so a transition that loses its
compare-and-swap leaves no QUEUED row behind. That was not inductive at first: a batch cancel's
refund may come while a worker claims the row it failed to cancel, hence `Claimed(a)`,
which grants this to requests only; a worker and the sweep need the stronger form.

`CircuitBreakerProofs` proves, for any workers, threshold, restarts, admin operations and
with writes that raise: `TypeCorrect`, `RowIsMirror` (`RowFollowsMirror`), `FailuresTrip`
(`MirrorTrips`) and the action property `OpenedOnStreak` (`OpensOnlyOnStreak`). `BreakerInv`
relates the failure counter to the history of failures: it is at most the streak while the
row is not open, and at least the streak while the mirror reads healthy and was written;
and an operation that holds the lock has already moved the mirror to what it will write.

`BatchServiceProofs` proves, for any jobs, total, clients and crashes: `TypeCorrect`,
`SlotsExact`, `CountsExact`, `OutcomeTruthful`. The outcome is written from counters of any
age. `BatchInv` says why that is harmless: what finalize and the watchdog hold is a lower bound
of the settled jobs (`FinalizeClaim`, `WatchdogClaim`), settled jobs keep their outcome,
so a claim that was true when it was computed is true when it is written. `SlotsExact` needs it
too: that a status written late never reopens a finalized batch, and that what was counted
never exceeds the slots. "None failed" is no such bound, for a job bound after finalize's read
may fail. `CleanInv` says of which jobs it holds: when finalize found everything ended
and nothing failed, all jobs but those in `late` are unbound, succeeded or cancelled, and stay so,
because no slot is given away once a terminal status is written; the watchdog chooses it
only for a full batch.

`JobQueueProofs` proves, for any number of lanes and jobs, any weights, window, share and
restarts, and with flag updates that raise: `TypeCorrect`, `NoLaneIsStarved`,
`JobsQueuedOnce`, `PromotedOneTier` and the action property `LanesAreFifo` (`NeverPushedBack`).

*Starvation.* `Guarded`: a lane passed over n times is not among the last n entries of the
window. After a whole window its share is 0, so it starves, and from then on the guard takes
only starved lanes of a lower tier before it, each of them once, because a lane that
popped is in the window again. By the pigeonhole principle that ends within a turn of each
other lane: `passed < WindowSize + l`. The assumption that the window is longer than the
number of lanes is the code's (200 against 4).

*Once.* `Placed`: a job is in one lane, there once, or on its way to another, or held, never two of
these. `Promotions` is a concatenation over the lanes of what the filter keeps of each, so
the step needs to know what both return for every list.

`ClientLiveProofs` proves of `EventStream`, for any number of connections, events, faults and
any queue, wire and ring: `OneStreamHolds`, `StreamTypeCorrect`, `NothingMissed`
(`CaughtUpHasAll`). `OneCall` is enough for the first: all connections but one are idle, and
none is in use while a timer runs. The second follows an event through the four places it
passes, ring, replay, queue and wire: `Flow` says that each of these is increasing and ahead
of what the reader has (`Ahead`), and that every event so far is heard, in one of them, expired
or overrun.

Of `MCClientLive` it proves, for any number of workers, tasks, refusals, panes, pictures, slots
and visits, `RequestsAreSafe`: `LiveSpec => []RequestsSafe`. Each part has an invariant of
its own, and the composition needs no more than that a step of one part leaves the others'
variables alone (`LiveStep`):

* *Fan-out* (`FanInv`). A task is queued, in one worker's hand, landed or lost, and in one of
  these only (`FPlaces`); while the pool pauses exactly one worker asks the gate (`FLatch`); a
  token is earned by a refusal and parked before it is spent (`FTokens`); and the report is made
  when all workers are done, over an empty queue unless the user left (`FReport`).
* *Batch editor* (`EditorInv`). The jobs of a batch are to do, under way, landed, failed or
  dropped, and add up to its size (`EPool`); while no autosave is armed, what is stored
  after the requests under way is the form (`EQuiet`), unless an older page's submission
  clears it (`wiped`, deviation 26).
* *Picker's pictures* (`ImgInv`). `Counted` says of cache and tracker at once whose references
  they count: each pane that holds a picture or waits for its fetch, once. A fetch that lost
  its tracker is recorded in `astray` (deviation 25); without one the counts are exact, an
  eviction takes only what nobody holds, and no shown URL is revoked.

`ClientProofs` proves of `MCClient`, for any tabs, tokens, presses, models, typed numbers, texts,
sources, jobs, marks and preferences, under the named assumptions of `MCClient` and `Session`:

* `SessionEndsRightly`: `Spec => SessionSteps`. `SessionInv`: a tab with an impersonation token
  sends that one and can leave no other session, so the admin's token is never its to clear.
* `SubmissionsAreSafe`: `Spec => []SubmissionsSafe`. `PressInv`: the id a press
  has sent is the present one, or forgotten or confirmed; the modal serves a press that waits
  for it and holds a token no POST has carried. `ModelInv` adds types to what is remembered
  for a model; `SizeInv` and `CountInv` do the same for the two controls, whose validators are shown to
  agree (`ValidatorsAgree`).
* `DraftsAreSafe`: `Spec => []DraftsSafe`, from `WorkInv`, the conjunction of four:
  * `DraftInv` (Create page). `DraftsSafe` speaks of a moment with nothing under way; the
    invariant says what there will be when the requests in the queue of IndexedDB have
    been served (`ToRestore`, `DraftQuiet`), what a restore under way will read (`DraftRead`), that a
    page that is gone reads nothing (`DraftAlone`), and that a prompt that was accepted is
    in none of the places it could come back from (`DraftGone`).
  * `MaskInv` (mask editor). What differs from the baseline is stored, or is the write under way,
    unless the autosave has not heard of it (`MaskResting`, `unheard`) or the last write was not
    taken in full (`whole`). It rests on what a draft is read over: nothing has changed yet
    (`MaskReadRight`), loads lead where the route is (`MaskLoadsRight`), and the last PNG and the
    one being made are the mask's unless it has changed since (`MaskBlobRight`). `MaskHistory`
    keeps the cursor inside the history that `Pushed` cuts and bounds. `raced` names the visits
    in which deviation 28's races happened, and nothing is said of them.
  * `CanvasInv` (canvas). The steps of the stack form a chain, each painted on the one before, and
    the cursor's is the canvas, or what an open stroke started from, unless `torn` (deviation 29).
    A step that is recorded cuts the chain at the cursor and extends it (`PushedWell`).
  * `SettingsInv` (preferences). A staged value differs from the saved one, whatever answer comes.
* `WorkStaysKept`: `Spec => WorkIsKept`, an action property: a step of `ModelInv` that switches
  the model keeps the parameters (`SwitchStep`), a step of `MaskInv` that goes back stores
  the work (`BackStep`), for `MaskResting` does not except what is unheard once Back flushes.

`FilterProofs` has what these proofs need of lists. `Kept` replaces `SelectSeq`, which has no
definition that the prover could expand; `KeptHolds` says for every list that it returns the elements
in the set, all of them, in order, and `FlattenSeqFlattens` says what `FlattenSeq`
returns. Both are inductions over a number. The library's induction theorems take a
predicate as a parameter, which no installed prover can instantiate, so `NumberInduction`
is about a *set* of numbers, from the well-foundedness of finite sets under inclusion.

Only model-checked:

* liveness under fairness, which needs ENABLED, and `PositionCountsDown`,
  an action property about a simulation of all pops to come: it would take an induction
  over two simulations side by side;
* `CopiesAreExact` and `ListsSafe`: the archive's delta sync, the batch cards, the judgments,
  pages, filter, gallery, picker and family graph. The graph and its walks are recursive functions over data,
  whose result for every input is an induction the provers cannot do; of the others each
  takes an invariant of the size of `DraftInv`, and none is done;
* `GallerySteps`, whose actions compare the positions of rows in sorted lists;
* `ClientTypeOK`. Its conjuncts for session, press, model, size and number are proved on the way
  (`SessionInv`, `PressParts`, `ModelParts`, `SizeParts`, `CountParts`), the others are not;
* the violation of `editor_restore`.

The type invariants of `Admission`, `BatchService`, `CircuitBreaker`, `JobQueue` and `EventStream` are
proved and in no run's list of their own, where a run's time goes to the properties that say
more.

## 5. Known deviations

Where the code does something else than a comment, a document or a test says. The first
is a run; the others are properties in the modules, with the sentence they state, that
TLC refutes with the constants given here or in the module's run.

1. `RestoreKeepsDraft` (run `editor_restore`): the batch page's autosave is armed at the
   mount. When the list of models takes longer than 600 ms it stores the empty form over
   the draft that the restore is about to read (`BatchPage.jsx:215-223`).

Backend:

2. `RefundedAtMostOnce` (`JobPipeline`, kind `bulk`): `cancel_batch` refunds also when its
   transition failed (`api/batches.py:583`). With kinds `cancel`, `vary`: jobs from vary and
   from the admin's requeue are never charged, yet refunded.
3. `SkippedBatchSettles` (`BatchService`): a batch finalized with skipped slots and jobs in
   flight stays `running` (`batch_service.py:190`).
4. `OneJobPerRequestId` (`Admission`): two submissions with one `client_request_id` that
   overlap both miss the look-up; both are charged and enqueued (`api/jobs.py:276`).
5. `RunningIsOwned` with `DbMayFail`: an exception outside `_try_candidates`' try leaves the
   row RUNNING until the next start (`job_executor.py:157`).
6. `DropDeletesJobs` (`BatchService`): `keep_jobs=false` deletes no job, it waits for its own
   write lock. `FailingProviderTrips` (`CircuitBreaker`, ops `topup`): after drain and top-up
   the mirror stays drained and failures are not counted.
7. `InFlightCancelKeepsCharge` (`JobPipeline`, one job, one caller, kind `cancel`): the cancel
   endpoint refunds a job that a worker claimed after the endpoint read QUEUED
   (`api/jobs.py:937`). `NoDebitAfterCancel` (same constants): the executor never looks at
   the status again after it marked the job RUNNING; a cancelled job is stored and paid.
8. `QueueDropsNoJob` (`JobPipeline`, `DbMayFail`): one failing flag update loses the other
   promoted jobs and ends the loop (`job_queue.py:308-316`).
9. `TerminalIsFinal` (`BatchService`): watchdog and finalize flush a status computed from a
   row they read before an await and overwrite a terminal one.
10. `CancelLeavesRunningAlone` (`BatchService`): `cancel_batch` cancels a job that started
    after it listed the QUEUED ones.
11. `DrainedHasNoMoney` (`CircuitBreaker`, ops `topup`): a selector that read the balance
    before a top-up drains the provider after it.
12. `RowAlwaysFollowsMirror` (`CircuitBreaker`, `DbMayFail`): the mirror moves before
    `_persist_state`, and stays there when that raises. Two writes that raise and a top-up
    leave the row open and the mirror drained, for good: `OpenRecovers` holds only up to
    `missed`.
13. `ResetNeverGoesBack` (`Admission`): a writer that took yesterday's date before midnight
    and the write lock after a reset puts yesterday's date back and clears today's count
    (`quota_guard.py:237`). `ResetSettles` says that the row recovers its date.
14. `PromotionSurvivesRestart` (`JobQueue`): `QueuedJob.from_job` restores `promoted` but not
    `lane_tier`, so the job is back in its first lane and not promoted again
    (`job_queue.py:97`). `vary_seed` copies the flag into a new row, with the same effect.
15. `OverrunIsReplayed` (`EventStream`, a queue of 1): the comment of `_fanout` says that a
    client with a full queue reconnects and replays. The warning and the terminator meet
    the same full queue and are dropped, so the client stays connected and never hears of
    the event (`sse_hub.py:254-283`, `409-420`). `CaughtUpHasAll` excepts these (`overrun`).

Client:

16. `OnlyItsOwnToken` (`Session`): the rejection of a request that was sent with an older
    token ends the new session; in an impersonation tab `forceLogout` clears the admin's
    localStorage too.
17. `NoLiveRowMissing` (`ArchiveStore`): the delta's cursor is the newest stored row. Events
    move it past rows whose delta failed, was cut off by a reload, or was skipped because
    another was under way; a deletion nobody heard of is not in the index; a write that IndexedDB
    refused, or had not begun at a reload, leaves the copy behind the memory; a copy read at the
    mount is put over what events have changed meanwhile; `insertOptimistic`
    writes its stub over a row that the events have advanced (`store/archive.js:112-124`, `173-246`,
    `394`, `469-495`). `excused` collects these rows, and `QuietStoreIsExact` holds for the others.
18. `LightboxOnRequest`, `DrawerOutlivesLightbox`, `EscapeIsHeard`, `ThrownPictureReturns`
    (`ArchiveView`): the lightbox's flag survives the row that leaves the list, and the next
    row opened shows a lightbox nobody asked for; Escape closes lightbox and drawer together;
    a set that shrinks to one picture while its panel is open leaves Escape to a drawer that
    is not shown; a picture thrown towards a neighbour that has gone stays away.
19. Of `ArchiveFilter`: a click on the filter's trigger during the exit of an Apply drops the
    apply, and a chip removed meanwhile is put back. `FirstRequestCounts` states it as it is.
20. `CancelledPressAsksNoMore` (`CreateFanout`): a worker that is refused after the user closed
    the modal puts its task back and opens the modal again (`CreatePage.jsx:689-691`).
    In `CreateGenerate` the promise of a displaced modal never settles, a repeat with an
    edited prompt gets the old job, and a second press during the precheck submits twice.
21. Of `CreateDraft`: leaving drops an edit the debounce still holds; a late submission clears
    a newer draft and navigates; an image replaced by another is taken for it after a crash.
22. `LeaveKeepsParams`, `RefreshLandsOnWorkingModel`, `LateGenerateIsFresh` (`CreateModels`):
    at the unmount the debounce's cleanup clears the timer that the flush of
    `useStickyState` (`137-152`) looks for; a selected model that the catalog lists as off is
    taken for there (`CreatePage.jsx:427`); a Generate that waited for the refresh sends the
    parameters of the render that was pressed (`524-526`).
23. `CursorIsSaved` (`PickerView`): saving the position replaces the session object that the
    effect depends on, so the effect runs again and puts the timer off for good; the position
    is sent when the session is closed (`PickerPage.jsx:561-566`, `store/picker.js:670-691`).
    Leaving full screen starts at the first image again (`2453-2456`); U, and F, P, X in full
    screen, ignore the lock and the swap's question; undoing a swap does not restore the
    earlier final image.
24. `FinalIsServers` (`PickerStore`): an older event of another tab, heard after the tab's own
    choice, clears the final image, and the event that would repair it is dropped as an echo
    (`store/picker.js:353-369`, `391-394`, against the comment at 18-20). A late read of
    another session is shown; an undo within the 100 ms debounce is reverted by it. A final
    taken back within its debounce is never sent, so the final it replaced on screen is still
    the server's (`503-520`, `556-564`; `Withdrawn`, which `MarksAreServers` excepts through
    `crossed`). That takes four writes and reads, one more than `client_safety` allows;
    `StoreSpec` alone with `MaxTraffic = 4` has 3.7 million states and keeps `MarksAreServers`.
25. `NothingStranded` (`PickerImages`): a fetch that ends after the page was left and opened
    again deletes the tracker of its successor, which then counts a reference that nobody
    holds (`pickerImageQueue.js:126`, `103`, against the comment at 34-38). `cancel` has no
    caller.
26. Of `BatchEditor`: reference images are never sent; edits typed while `createBatch` is
    under way are wiped; a page left at the modal never finalizes its batch; an older page's
    submission clears the newer page's draft (`wiped`).
27. `ListFollowsServer`, `NobodySeesNothing` (`BatchCards`): a read that failed is not repeated,
    and the list stays as it was; an answer that arrives after sign-out fills the list and
    subscribes. *Dismiss* of a cancelled and *Retry failed* of a partial batch have no handler.
28. `FinishedDraftIsGone`, `EveryMaskEditIsSaved` (`MaskDraft`): the last changes of status arm
    the autosave again, which stores the draft after it was cleared (`MaskEditPage.jsx:910-912`).
    The autosave effect watches `history.length` (`MaskEditPage.jsx:589`,
    `useMaskDraftAutosave.js:529-549`), which an undo, a redo, a stroke after one undo and every
    stroke at the 50-step limit leave as it is (`HistoryStack.js:15-27`): such a change waits for
    Back or for the next edit that is heard (`unheard`). A `putDraft` that is rejected and a
    `toBlob` without a blob leave nothing or the older mask (`whole`). Going back within 250 ms
    stores over the draft before it was read; a network error at `loadSource` deletes it; a
    failed soft switch leads to its target's address all the same and may load it again
    (`436-440`), and a pick after a failed load starts the failed one again beside it. A change of
    the mask while its PNG is made is marked as saved by the reset after the await
    (`useMaskDraftAutosave.js:309-313`; `raced` excepts it). A soft
    switch sets the status to idle while a submission runs (`386`), which unlocks the editor; the
    success then deletes the draft that Back has just written (`raced` excepts it). A rejected
    deletion, and a restore that keeps the text and drops the mask (another model or size), are
    not modelled.
29. `RegenerateSendsSameMask` (`MaskCanvas`): a stroke still going at the submission is part of
    the next mask; Discard and Regenerate mount a blank canvas beside a stack that still has
    its steps, so a second regeneration sends a blank mask (`MaskEditPage.jsx:1169-1182`).
    A tool key in the middle of a stroke loses the step.
30. Of `Lineage`: in a family larger than `MAX_NODES` the current image may be missing; a
    parent without a first image makes a ghost at depth 0.
31. `PreviewTracks` (`SizePicker`), `TextIsDisplay` (`OutputCount`): the preview keeps a size that
    was neither clicked nor typed after a field was emptied; a bound lowered under the number
    leaves the text and the display apart (`OutputCountSlider.jsx`).
32. `EditsAreKept`, `QuietStoreIsServers` (`Preferences`): the answer to a load discards the
    edits staged since (`store/preferences.js:272-280`, against 5-6), and when they were being
    saved, what the save's answer says of them too.
33. Not in a module: `store/announcements.js:86-140` subscribes after its first refresh, so an
    announcement in between waits for the next.
34. `CancelledHidesNoFailure` (`BatchService`, backend): a job bound after `finalize_submission` has read
    the row and before it writes may fail in a batch that reads "cancelled", against
    `batch_service.py:5-9`, "cancelled (no FAILED but at least one CANCELLED)".
    `OutcomeIsTruthful` excepts such jobs (`late`) and says it of all others.

## 6. Plan

Done: the backend's core (`JobPipeline`, `BatchService`, `CircuitBreaker`, `JobQueue`,
`Admission`) and the event stream from the hub to the tab, with proofs of all invariants of
theirs that the runs check; the client, with proofs for session, submissions, drafts and the
parts that wait for others. What is left, in this order:

1. `CopiesAreExact` by its parts: an invariant of the judgments' requests and echoes
   (`PickerStore`), of the cards' reads against events (`BatchCards`), and of the delta sync
   (`ArchiveStore`), in the form of `DraftInv`: what there will be when the requests under way are
   served.
2. `ListsSafe` and `GallerySteps` for pages, filter and view; the family graph and
   `PositionCountsDown` stay with TLC.
3. `AccountLifecycle` (deletion request, its cancellation, the purge against running jobs),
   `CacheKeeper` (files against rows), `ConfigCenter` (caches against rows).

## 7. Not modelled

* Adapters' wire formats, image files, validation, scoring and weights of providers,
  soft-penalty probabilities, the model catalog: they hold no state that the properties
  depend on, or their outcome is a nondeterministic choice in a model.
* Config caches, tier configuration, metrics, audit, the admin broadcaster, announcements,
  the provider test runner, seeds and migrations: single-transaction CRUD or read-only
  aggregation; cache keeper and account lifecycle are in the plan.
* Of authentication: hashing, token signatures, expiry and the captcha's grace table; their
  answers are choices.
* Of the client: the admin console, dashboard, onboarding and shell, layout, animation,
  gestures' geometry, texts, downloads and export; of the picker the overview lists and
  vary's dialog. Pixels are sets of strokes, prompts and images numbers, preferences two keys.

Concurrency on SQLite is modelled at the level of committed transactions; a statement that
raises stands for every reason it may raise.
