---------------------------- MODULE MCClientLive ----------------------------
(***************************************************************************)
(* The parts of the web client that wait for others, for TLC: the event    *)
(* stream, the workers of one press, the queue of the picker's pictures    *)
(* and the submission of a batch.  As in MCClient, screen is the part at   *)
(* work and the others wait in their initial states; the stream has two    *)
(* screens, with faults and with as many events as fill a queue.           *)
(***************************************************************************)
EXTENDS EventStream

CONSTANTS
    PoolWorkers, TaskCount, MaxRefusals, Panes, Keys, FetchSlots, Capacity, MaxFetches,
    MaxVisits, MaxSlots, PoolSize, MaxAsks, MaxEdits, MaxEditorVisits,
    MaxStreamEvents   \* bound: events of a stream that has faults, too few to fill a queue

ASSUME LiveAssumption ==
    /\ IsFiniteSet(PoolWorkers) /\ PoolWorkers # {} /\ "none" \notin PoolWorkers
    /\ IsFiniteSet(Panes) /\ Panes \subseteq Int /\ "none" \notin Keys
    /\ {TaskCount, MaxRefusals, FetchSlots, Capacity, MaxFetches, MaxVisits, MaxSlots,
        PoolSize, MaxAsks, MaxEdits, MaxEditorVisits} \subseteq Nat
    /\ TaskCount > 0 /\ MaxSlots > 0

VARIABLES
    screen,
    \* CreateFanout
    fanQueue, at, hand, sentToken, parked, paused, asking, gateBusy, gone, modal,
    fanoutLanded, lost, firstError, progress, outcome, tokens, spent, refusals, withdrawn,
    \* PickerImages
    wants, awaited, image, cache, tracker, waiting, fetchesFlying, epoch, pumps, asked,
    present, astray,
    \* BatchEditor
    mounted, load, form, stored, saving, asks, stage, orphan, prepared, todo,
    editorFlying, editorLanded, failed, dropped, gate, calledOff, edits, editorVisits,
    atMount, touched, wiped

fanoutVars == <<fanQueue, at, hand, sentToken, parked, paused, asking, gateBusy, gone,
    modal, fanoutLanded, lost, firstError, progress, outcome, tokens, spent, refusals,
    withdrawn>>
fetchesVars == <<wants, awaited, image, cache, tracker, waiting, fetchesFlying, epoch,
    pumps, asked, present, astray>>
editorVars == <<mounted, load, form, stored, saving, asks, stage, orphan, prepared, todo,
    editorFlying, editorLanded, failed, dropped, gate, calledOff, edits, editorVisits,
    atMount, touched, wiped>>

Fanout == INSTANCE CreateFanout WITH
    landed <- fanoutLanded
Fetching == INSTANCE PickerImages WITH
    Slots <- FetchSlots, flying <- fetchesFlying
Editor == INSTANCE BatchEditor WITH
    flying <- editorFlying, landed <- editorLanded

LiveInit ==
    /\ screen \in {"stream", "full", "fanout", "fetches", "editor"}
    /\ Init
    /\ Fanout!FanoutInit
    /\ Fetching!ImagesInit
    /\ Editor!EditorInit
    \* the initial state that a part waits in, where it has several
    /\ screen # "editor" => editorVisits = 0

\* the other parts wait; the part at work makes a step
LiveNext ==
    /\ UNCHANGED screen
    /\ IF screen \in {"stream", "full"} THEN TRUE ELSE UNCHANGED vars
    /\ IF screen = "fanout" THEN TRUE ELSE UNCHANGED fanoutVars
    /\ IF screen = "fetches" THEN TRUE ELSE UNCHANGED fetchesVars
    /\ IF screen = "editor" THEN TRUE ELSE UNCHANGED editorVars
    /\ \/ screen = "stream" /\ Next /\ seq' <= MaxStreamEvents
       \/ screen = "full" /\ Next /\ UNCHANGED faults
       \/ screen = "fanout" /\ Fanout!FanoutNext
       \/ screen = "fetches" /\ Fetching!ImagesNext
       \/ screen = "editor" /\ Editor!EditorNext

liveVars == <<screen, vars, fanoutVars, fetchesVars, editorVars>>

\* The fairness of each module: timers fire, requests end and a solved captcha
\* comes back.  A part that does not work has nothing enabled.
LiveFairness ==
    /\ Fairness
    /\ WF_fanoutVars(screen = "fanout" /\ Fanout!FanoutSteps)
    /\ WF_fetchesVars(screen = "fetches" /\ Fetching!Pump)
    /\ \A id \in 1..MaxFetches : WF_fetchesVars(screen = "fetches" /\ Fetching!ImagesAnswer(id))
    /\ WF_editorVars(screen = "editor" /\ Editor!Database)
    /\ WF_editorVars(screen = "editor" /\ Editor!SubmitSteps)
    /\ SF_editorVars(screen = "editor" /\ (Editor!Landed \/ Editor!Failed))

LiveSpec == LiveInit /\ [][LiveNext]_liveVars /\ LiveFairness

-----------------------------------------------------------------------------
\* Through refusals, pauses and cancellations no task of a press and no job of a
\* batch is lost or counted twice, and every pane that holds a picture is counted
\* by its cache entry, which is not given up meanwhile.
RequestsSafe ==
    /\ TypeOK
    /\ screen = "fanout" => Fanout!FanoutTypeOK /\ Fanout!FanoutSafe
    /\ screen = "fetches" => Fetching!ImagesTypeOK /\ Fetching!ImagesSafe
    /\ screen = "editor" => Editor!EditorTypeOK /\ Editor!EditorSafe

\* A press, a picture somebody waits for and a batch being submitted come to
\* their ends.  (Of the press and the batch one at most is at work, so that
\* Fanout!PressEnds and Editor!SubmissionEnds are one formula here.)
AtWork == outcome = "running" \/ (stage # "idle" /\ ~orphan)
RequestsEnd == (AtWork ~> ~AtWork) /\ Fetching!EveryRequestAnswered
=============================================================================
