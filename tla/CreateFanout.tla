---------------------------- MODULE CreateFanout ----------------------------
(***************************************************************************)
(* One press of Generate for more images than the model's upstream gives   *)
(* per call (CreatePage's submitFanout): a pool of workers takes the tasks *)
(* from one queue, and a refusal for want of a captcha pauses the pool     *)
(* while one worker asks the user through the captcha gate.                *)
(*                                                                         *)
(* The workers interleave at their awaits: the POST, the precheck of the   *)
(* gate, the open modal, and the sleeps of the pacing and of the pause.    *)
(***************************************************************************)
EXTENDS Integers, Sequences, FiniteSets

CONSTANTS
    PoolWorkers,
    TaskCount,      \* targetN
    MaxRefusals     \* bound: answers of the server that ask for a captcha

VARIABLES
    fanQueue,   \* tasks nobody has taken
    at,         \* each worker: where it waits
    hand,       \* its task, or 0
    sentToken,  \* the token its POST carries, or 0
    parked,     \* captchaTokenRef: the token one worker may take, or 0
    paused,     \* pausedRef
    asking,     \* captchaInFlightRef
    gateBusy,   \* the gate's own latch, inFlightRef
    gone,       \* cancelled
    modal,      \* the worker whose promise the modal resolves, or none
    landed,     \* tasks whose POST was answered with a job
    lost,       \* tasks counted as failed
    firstError, \* the first error kept for the banner
    progress,   \* submitProgress.done
    outcome,    \* of the whole press
    tokens,     \* tokens the user has earned
    spent,      \* every token a POST has carried, with the count
    refusals,
    withdrawn   \* the user closed a modal of this press

fanVars == <<fanQueue, at, hand, sentToken, parked, paused, asking, gateBusy, gone, modal, landed,
             lost, firstError, progress, outcome, tokens, spent, refusals, withdrawn>>

None  == "none"
Tasks == 1..TaskCount
Waits == {"loop", "post", "precheck", "modal", "rest", "done"}

FanoutTypeOK ==
    /\ fanQueue \in Seq(Tasks)
    /\ at \in [PoolWorkers -> Waits] /\ hand \in [PoolWorkers -> 0..TaskCount]
    /\ sentToken \in [PoolWorkers -> 0..MaxRefusals + 1] /\ parked \in 0..MaxRefusals + 1
    /\ {paused, asking, gateBusy, gone, withdrawn} \subseteq BOOLEAN
    /\ modal \in PoolWorkers \cup {None}
    /\ landed \subseteq Tasks /\ lost \subseteq Tasks
    /\ firstError \in {None, "other", "cancelled"}
    /\ progress \in 0..TaskCount
    /\ outcome \in {"idle", "running", "archive", "partial", "failed"}
    /\ tokens \in 0..MaxRefusals + 1 /\ spent \in [1..MaxRefusals + 1 -> 0..2]
    /\ refusals \in 0..MaxRefusals

FanoutInit ==
    /\ fanQueue = [i \in Tasks |-> i]
    /\ at = [w \in PoolWorkers |-> "loop"] /\ hand = [w \in PoolWorkers |-> 0]
    /\ sentToken = [w \in PoolWorkers |-> 0] /\ parked = 0
    /\ paused = FALSE /\ asking = FALSE /\ gateBusy = FALSE /\ gone = FALSE
    /\ modal = None
    /\ landed = {} /\ lost = {} /\ firstError = None /\ progress = 0
    /\ outcome = "idle"
    /\ tokens = 0 /\ spent = [k \in 1..MaxRefusals + 1 |-> 0]
    /\ refusals = 0 /\ withdrawn = FALSE

\* the first error is kept, later ones are not
Keep(e) == IF firstError = None THEN e ELSE firstError

-----------------------------------------------------------------------------
\* handleGenerate after its precheck: with the token of the modal, or without
Press ==
    /\ outcome = "idle"
    /\ outcome' = "running"
    /\ \/ UNCHANGED <<parked, tokens>>
       \/ tokens' = 1 /\ parked' = 1
    /\ UNCHANGED <<fanQueue, at, hand, sentToken, paused, asking, gateBusy, gone, modal, landed, lost,
                   firstError, progress, spent, refusals, withdrawn>>

\* a worker takes the next task; the first one takes the parked token along
Take(w) ==
    /\ outcome = "running" /\ at[w] = "loop" /\ ~paused /\ ~gone /\ fanQueue # <<>>
    /\ at' = [at EXCEPT ![w] = "post"]
    /\ hand' = [hand EXCEPT ![w] = Head(fanQueue)]
    /\ fanQueue' = Tail(fanQueue)
    /\ sentToken' = [sentToken EXCEPT ![w] = parked]
    /\ parked' = 0
    /\ spent' = IF parked = 0 THEN spent ELSE [spent EXCEPT ![parked] = @ + 1]
    /\ UNCHANGED <<paused, asking, gateBusy, gone, modal, landed, lost, firstError, progress, outcome,
                   tokens, refusals, withdrawn>>

\* nothing left and no pause, or the user has cancelled
WorkerEnds(w) ==
    /\ outcome = "running" /\ at[w] = "loop"
    /\ gone \/ (~paused /\ fanQueue = <<>>)
    /\ at' = [at EXCEPT ![w] = "done"]
    /\ UNCHANGED <<fanQueue, hand, sentToken, parked, paused, asking, gateBusy, gone, modal, landed, lost,
                   firstError, progress, outcome, tokens, spent, refusals, withdrawn>>

\* an answer that settles the task, then the pacing
Settled(w) ==
    /\ at' = [at EXCEPT ![w] = "rest"]
    /\ hand' = [hand EXCEPT ![w] = 0] /\ sentToken' = [sentToken EXCEPT ![w] = 0]
    /\ progress' = progress + 1

Created(w) ==
    /\ at[w] = "post"
    /\ landed' = landed \cup {hand[w]}
    /\ Settled(w)
    /\ UNCHANGED <<fanQueue, parked, paused, asking, gateBusy, gone, modal, lost, firstError, outcome,
                   tokens, spent, refusals, withdrawn>>

Rejected(w) ==
    /\ at[w] = "post"
    /\ lost' = lost \cup {hand[w]} /\ firstError' = Keep("other")
    /\ Settled(w)
    /\ UNCHANGED <<fanQueue, parked, paused, asking, gateBusy, gone, modal, landed, outcome, tokens,
                   spent, refusals, withdrawn>>

\* CAPTCHA_REQUIRED without giving the task back
RefusedForGood(w) ==
    /\ at[w] = "post" /\ refusals < MaxRefusals
    /\ refusals' = refusals + 1
    /\ hand' = [hand EXCEPT ![w] = 0] /\ sentToken' = [sentToken EXCEPT ![w] = 0]
    /\ IF asking
       THEN at' = [at EXCEPT ![w] = "loop"] /\ UNCHANGED <<asking, paused, gateBusy>>
       ELSE /\ at' = [at EXCEPT ![w] = "precheck"]
            /\ asking' = TRUE /\ paused' = TRUE /\ gateBusy' = TRUE
    /\ UNCHANGED <<fanQueue, parked, gone, modal, landed, lost, firstError, progress, outcome, tokens,
                   spent, withdrawn>>

\* CAPTCHA_REQUIRED: the task goes back to the head of the queue, and the
\* first worker refused asks the gate while the pool is paused
Refused(w) ==
    /\ at[w] = "post" /\ refusals < MaxRefusals
    /\ refusals' = refusals + 1
    /\ fanQueue' = <<hand[w]>> \o fanQueue
    /\ hand' = [hand EXCEPT ![w] = 0] /\ sentToken' = [sentToken EXCEPT ![w] = 0]
    /\ IF asking
       THEN at' = [at EXCEPT ![w] = "loop"] /\ UNCHANGED <<asking, paused, gateBusy>>
       ELSE /\ at' = [at EXCEPT ![w] = "precheck"]
            /\ asking' = TRUE /\ paused' = TRUE /\ gateBusy' = TRUE
    /\ UNCHANGED <<parked, gone, modal, landed, lost, firstError, progress, outcome, tokens, spent,
                   withdrawn>>

\* the latches open again and the pool stays paused
ResumePaused(w) ==
    /\ at' = [at EXCEPT ![w] = "loop"]
    /\ asking' = FALSE /\ gateBusy' = FALSE /\ UNCHANGED paused

\* the finally blocks of the gate and of the worker
Resume(w) ==
    /\ at' = [at EXCEPT ![w] = "loop"]
    /\ asking' = FALSE /\ paused' = FALSE /\ gateBusy' = FALSE

\* the gate asks the server again: no captcha is needed any more
GateCleared(w) ==
    /\ at[w] = "precheck"
    /\ parked' = 0
    /\ Resume(w)
    /\ UNCHANGED <<fanQueue, hand, sentToken, gone, modal, landed, lost, firstError, progress, outcome,
                   tokens, spent, refusals, withdrawn>>

\* it is needed, or the precheck fails: the modal opens for this worker
ModalOpens(w) ==
    /\ at[w] = "precheck"
    /\ at' = [at EXCEPT ![w] = "modal"]
    /\ modal' = w
    /\ UNCHANGED <<fanQueue, hand, sentToken, parked, paused, asking, gateBusy, gone, landed, lost,
                   firstError, progress, outcome, tokens, spent, refusals, withdrawn>>

Solve ==
    /\ modal # None
    /\ tokens' = tokens + 1 /\ parked' = tokens + 1
    /\ modal' = None
    /\ Resume(modal)
    /\ UNCHANGED <<fanQueue, hand, sentToken, gone, landed, lost, firstError, progress, outcome, spent,
                   refusals, withdrawn>>

\* the user closes the modal: the queue is emptied
Withdraw ==
    /\ modal # None
    /\ gone' = TRUE /\ fanQueue' = <<>> /\ firstError' = Keep("cancelled")
    /\ withdrawn' = TRUE
    /\ modal' = None
    /\ Resume(modal)
    /\ UNCHANGED <<hand, sentToken, parked, landed, lost, progress, outcome, tokens, spent, refusals>>

\* 20 ms of pacing
Paced(w) ==
    /\ at[w] = "rest"
    /\ at' = [at EXCEPT ![w] = "loop"]
    /\ UNCHANGED <<fanQueue, hand, sentToken, parked, paused, asking, gateBusy, gone, modal, landed, lost,
                   firstError, progress, outcome, tokens, spent, refusals, withdrawn>>

\* Promise.all: the banner, or the archive when every task landed
Report ==
    /\ outcome = "running" /\ \A w \in PoolWorkers : at[w] = "done"
    /\ outcome' = IF landed = {} THEN "failed"
                  ELSE IF Cardinality(landed) < TaskCount THEN "partial" ELSE "archive"
    /\ progress' = 0
    /\ UNCHANGED <<fanQueue, at, hand, sentToken, parked, paused, asking, gateBusy, gone, modal, landed,
                   lost, firstError, tokens, spent, refusals, withdrawn>>

Answer(w) == Created(w) \/ Rejected(w) \/ Refused(w)

WorkerStep(w) ==
    Take(w) \/ WorkerEnds(w) \/ Answer(w) \/ GateCleared(w) \/ ModalOpens(w) \/ Paced(w)

FanoutNext ==
    \/ Press \/ Solve \/ Withdraw \/ Report
    \/ \E w \in PoolWorkers : WorkerStep(w)

\* the server answers every POST and the user answers every modal
FanoutSteps == Solve \/ Withdraw \/ Report \/ \E w \in PoolWorkers : WorkerStep(w)

FanoutSpec == FanoutInit /\ [][FanoutNext]_fanVars /\ WF_fanVars(FanoutSteps)

-----------------------------------------------------------------------------
\* However refusals, the pause and the cancellation interleave, a task is in
\* one place: waiting, in one worker's hands, landed or counted as failed.
\* Only a cancelled press may forget tasks.
Places(t) ==
    Cardinality({i \in DOMAIN fanQueue : fanQueue[i] = t})
    + Cardinality({w \in PoolWorkers : hand[w] = t})
    + (IF t \in landed THEN 1 ELSE 0) + (IF t \in lost THEN 1 ELSE 0)

TaskInOnePlace == \A t \in Tasks : Places(t) = 1 \/ (gone /\ Places(t) = 0)

\* Turnstile tokens are good for one use: no two POSTs carry the same one.
TokenUsedOnce == \A k \in DOMAIN spent : spent[k] <= 1

\* The user is sent to the archive only when every image was accepted, and
\* an end without any shows an error.
ReportIsTruthful ==
    /\ outcome = "archive" => landed = Tasks
    /\ outcome = "failed" => landed = {} /\ firstError # None
    /\ outcome = "partial" => landed # {} /\ (lost # {} \/ gone)

FanoutSafe == TaskInOnePlace /\ TokenUsedOnce /\ ReportIsTruthful

\* Every press comes to an end: the pause never strands the pool.
PressEnds == outcome = "running" ~> outcome \in {"archive", "partial", "failed"}

\* submitFanout: after a cancellation the workers "bail without re-enqueueing
\* anything".
CancelledPressAsksNoMore == withdrawn => fanQueue = <<>> /\ modal = None
=============================================================================
