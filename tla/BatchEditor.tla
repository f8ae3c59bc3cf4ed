---------------------------- MODULE BatchEditor ----------------------------
(***************************************************************************)
(* The editor of the batch page: its local draft with autosave and restore, *)
(* and the submission, which registers the batch, clears the editor, posts  *)
(* one job per image from a pool of workers and finalizes the batch.        *)
(*                                                                         *)
(* A draft is a number of slots and a version; every slot stands for one    *)
(* image.  IndexedDB serves its requests in the order they were made.  The  *)
(* posts of the pool are counted, CreateFanout follows them one by one.  A  *)
(* page that is left keeps its submission running; a second page submits    *)
(* only when that one is over.                                              *)
(***************************************************************************)
EXTENDS Naturals, Sequences

CONSTANTS
    MaxSlots,     \* MAX_SLOTS, 50 in the code
    PoolSize,     \* meta.batch_concurrency_max
    MaxAsks,      \* bound: requests waiting at IndexedDB
    MaxEdits,     \* bound: edits of the draft
    MaxEditorVisits \* bound: visits to the page

VARIABLES
    mounted,    \* the page is shown
    load,       \* what the mount effect waits for: "models", "draft", or "done"
    form,       \* the draft in the editor
    stored,     \* the record in IndexedDB, or None
    saving,     \* the 600 ms autosave timer is armed
    asks,       \* requests at IndexedDB, oldest first
    stage,      \* of the submission: "idle", "creating", "fanning", "finalizing"
    orphan,     \* the submission belongs to a page that is gone
    prepared,   \* the snapshot being submitted
    todo, flying, landed, failed, dropped, \* its jobs, counted
    gate,       \* captcha: "open", "asking" the server, or the "modal" is shown
    calledOff,  \* the user closed the modal
    edits, editorVisits,
    atMount,    \* history: the stored draft when the page was opened
    touched,    \* history: the user has edited since then
    wiped       \* history: a submission of an older page cleared the store

poolVars   == <<todo, flying, landed, failed, dropped, gate, calledOff>>
draftPart  == <<load, form, stored, saving, asks>>
editorVars == <<mounted, draftPart, stage, orphan, prepared, poolVars, edits, editorVisits,
                atMount, touched, wiped>>

Empty == [slots |-> 0, ver |-> 0]
None  == [slots |-> 0, ver |-> MaxEdits + 1]
Drafts == [slots : 0..MaxSlots, ver : 0..MaxEdits]
Asks   == [kind : {"put", "get", "clear"}, draft : Drafts, mine : BOOLEAN]
Content == IF stored = None THEN Empty ELSE stored

\* what the store will hold once the writes that wait have been served
Writes == {i \in DOMAIN asks : asks[i].kind # "get"}
Due == IF Writes = {} THEN Content
       ELSE asks[CHOOSE i \in Writes : \A j \in Writes : j <= i].draft

EditorTypeOK ==
    /\ {mounted, saving, orphan, calledOff, touched, wiped} \subseteq BOOLEAN
    /\ load \in {"off", "models", "draft", "done"}
    /\ form \in Drafts /\ stored \in Drafts \cup {None} /\ {prepared, atMount} \subseteq Drafts
    /\ asks \in Seq(Asks) /\ Len(asks) <= MaxAsks
    /\ stage \in {"idle", "creating", "fanning", "finalizing"}
    /\ {todo, flying, landed, failed, dropped} \subseteq 0..MaxSlots /\ flying <= PoolSize
    /\ gate \in {"open", "asking", "modal"}

EditorInit ==
    /\ mounted = FALSE /\ load = "off" /\ form = Empty
    \* a first visit, or one after a visit that left a draft
    /\ \/ stored = None /\ editorVisits = 0
       \/ stored = [slots |-> 1, ver |-> 0] /\ editorVisits = 1
    /\ saving = FALSE /\ asks = <<>>
    /\ stage = "idle" /\ orphan = FALSE /\ prepared = Empty
    /\ todo = 0 /\ flying = 0 /\ landed = 0 /\ failed = 0 /\ dropped = 0
    /\ gate = "open" /\ calledOff = FALSE
    /\ edits = 0
    /\ atMount = Empty /\ touched = FALSE /\ wiped = FALSE

Ask(kind, draft) ==
    /\ Len(asks) < MaxAsks
    /\ asks' = Append(asks, [kind |-> kind, draft |-> draft, mine |-> TRUE])

-----------------------------------------------------------------------------
(* The page and its draft *)

\* both effects run: the restore begins, and the first autosave is armed
Open ==
    /\ ~mounted /\ editorVisits < MaxEditorVisits
    /\ mounted' = TRUE /\ load' = "models" /\ form' = Empty /\ saving' = TRUE
    /\ editorVisits' = editorVisits + 1
    /\ atMount' = Due /\ touched' = FALSE /\ wiped' = FALSE
    /\ UNCHANGED <<stored, asks, stage, orphan, prepared, poolVars, edits>>

\* the catalog is read, or not: the draft is asked for afterwards
ModelsRead ==
    /\ load = "models" /\ Ask("get", Empty)
    /\ load' = "draft"
    /\ UNCHANGED <<mounted, form, stored, saving, stage, orphan, prepared, poolVars, edits,
                   editorVisits, atMount, touched, wiped>>

\* cleanup drops the autosave; a pending read is not used any more
Leave ==
    /\ mounted
    /\ mounted' = FALSE /\ load' = "off" /\ saving' = FALSE
    /\ asks' = [i \in DOMAIN asks |-> [asks[i] EXCEPT !.mine = FALSE]]
    /\ orphan' = (stage # "idle")
    /\ UNCHANGED <<form, stored, stage, prepared, poolVars, edits, editorVisits, atMount, touched, wiped>>

\* the tab is closed or reloaded: the submission stops where it is, and only
\* the first requests reach the store
Unload ==
    /\ mounted' = FALSE /\ load' = "off" /\ saving' = FALSE
    /\ \E n \in 0..Len(asks) :
         asks' = [i \in 1..n |-> [asks[i] EXCEPT !.mine = FALSE]]
    /\ stage' = "idle" /\ orphan' = FALSE
    /\ todo' = 0 /\ flying' = 0 /\ landed' = 0 /\ failed' = 0 /\ dropped' = 0
    /\ prepared' = Empty /\ gate' = "open" /\ calledOff' = FALSE
    /\ mounted \/ stage # "idle"
    /\ UNCHANGED <<form, stored, edits, editorVisits, atMount, touched, wiped>>

\* setDraft by the user, with n slots: the timer starts again
Edited(n) ==
    /\ mounted /\ edits < MaxEdits
    /\ edits' = edits + 1
    /\ form' = [slots |-> n, ver |-> edits + 1]
    /\ saving' = TRUE /\ touched' = TRUE
    /\ UNCHANGED <<mounted, load, stored, asks, stage, orphan, prepared, poolVars, editorVisits,
                   atMount, wiped>>

UpdateFixed   == Edited(form.slots)
UpdateSlot    == form.slots > 0 /\ Edited(form.slots)
AddSlot       == form.slots < MaxSlots /\ Edited(form.slots + 1)
DuplicateSlot == form.slots \in 1..(MaxSlots - 1) /\ Edited(form.slots + 1)
DeleteSlot    == form.slots > 0 /\ Edited(form.slots - 1)

ClearDraft ==
    /\ mounted /\ Ask("clear", Empty)
    /\ form' = Empty /\ saving' = TRUE /\ touched' = TRUE
    /\ UNCHANGED <<mounted, load, stored, stage, orphan, prepared, poolVars, edits, editorVisits,
                   atMount, wiped>>

\* 600 ms after the last change of the draft
Save ==
    /\ saving /\ Ask("put", form)
    /\ saving' = FALSE
    /\ UNCHANGED <<mounted, load, form, stored, stage, orphan, prepared, poolVars, edits,
                   editorVisits, atMount, touched, wiped>>

Saved ==
    /\ asks # <<>> /\ Head(asks).kind = "put"
    /\ asks' = Tail(asks) /\ stored' = Head(asks).draft
    /\ UNCHANGED <<mounted, load, form, saving, stage, orphan, prepared, poolVars, edits,
                   editorVisits, atMount, touched, wiped>>

Cleared ==
    /\ asks # <<>> /\ Head(asks).kind = "clear"
    /\ asks' = Tail(asks) /\ stored' = None
    /\ wiped' = (wiped \/ ~Head(asks).mine)
    /\ UNCHANGED <<mounted, load, form, saving, stage, orphan, prepared, poolVars, edits,
                   editorVisits, atMount, touched>>

\* the draft found takes the place of whatever the editor holds, and is saved
\* again like any change
Restored ==
    /\ asks # <<>> /\ Head(asks).kind = "get" /\ asks' = Tail(asks)
    /\ IF Head(asks).mine
       THEN /\ load' = "done"
            /\ IF stored = None THEN UNCHANGED <<form, saving>>
               ELSE form' = stored /\ saving' = TRUE
       ELSE UNCHANGED <<load, form, saving>>
    /\ UNCHANGED <<mounted, stored, stage, orphan, prepared, poolVars, edits, editorVisits,
                   atMount, touched, wiped>>

-----------------------------------------------------------------------------
(* The submission *)

Submit ==
    /\ mounted /\ stage = "idle" /\ form.slots > 0
    /\ stage' = "creating" /\ prepared' = form /\ orphan' = FALSE
    /\ UNCHANGED <<mounted, draftPart, poolVars, edits, editorVisits, atMount, touched, wiped>>

\* POST /batches failed: the draft stays
NotRegistered ==
    /\ stage = "creating" /\ stage' = "idle" /\ orphan' = FALSE /\ prepared' = Empty
    /\ UNCHANGED <<mounted, draftPart, poolVars, edits, editorVisits, atMount, touched, wiped>>

\* the editor of the page that submitted is emptied with whatever was typed
\* since, and the stored draft goes even when another page shows it
Registered ==
    /\ stage = "creating" /\ Len(asks) < MaxAsks
    /\ asks' = Append(asks, [kind |-> "clear", draft |-> Empty, mine |-> ~orphan])
    /\ stage' = "fanning"
    /\ todo' = prepared.slots /\ flying' = 0 /\ landed' = 0 /\ failed' = 0 /\ dropped' = 0
    /\ gate' = "open" /\ calledOff' = FALSE
    /\ IF orphan THEN UNCHANGED <<form, saving>> ELSE form' = Empty /\ saving' = TRUE
    /\ UNCHANGED <<mounted, load, stored, orphan, prepared, edits, editorVisits, atMount, touched, wiped>>

Pool == stage = "fanning" /\ UNCHANGED <<mounted, draftPart, stage, orphan, prepared, edits,
                                         editorVisits, atMount, touched, wiped>>

Take ==
    /\ Pool /\ gate = "open" /\ ~calledOff /\ todo > 0 /\ flying < PoolSize
    /\ todo' = todo - 1 /\ flying' = flying + 1
    /\ UNCHANGED <<landed, failed, dropped, gate, calledOff>>

\* a job made, or refused for good: either way the next one follows
Landed ==
    /\ Pool /\ flying > 0 /\ flying' = flying - 1 /\ landed' = landed + 1
    /\ UNCHANGED <<todo, failed, dropped, gate, calledOff>>
Failed ==
    /\ Pool /\ flying > 0 /\ flying' = flying - 1 /\ failed' = failed + 1
    /\ UNCHANGED <<todo, landed, dropped, gate, calledOff>>

\* the refused task is not given back
RefusedForGood ==
    /\ Pool /\ flying > 0 /\ flying' = flying - 1
    /\ gate' = IF gate = "open" THEN "asking" ELSE gate
    /\ UNCHANGED <<todo, landed, failed, dropped, calledOff>>

\* CAPTCHA_REQUIRED: back to the head of the queue, and the first worker
\* refused pauses the pool and asks the gate
Refused ==
    /\ Pool /\ flying > 0 /\ flying' = flying - 1 /\ todo' = todo + 1
    /\ gate' = IF gate = "open" THEN "asking" ELSE gate
    /\ UNCHANGED <<landed, failed, dropped, calledOff>>

\* acquireMidFlight asks the server once more
GateCleared ==
    /\ Pool /\ gate = "asking" /\ gate' = "open"
    /\ UNCHANGED <<todo, flying, landed, failed, dropped, calledOff>>
ModalOpens ==
    /\ Pool /\ gate = "asking" /\ gate' = "modal"
    /\ UNCHANGED <<todo, flying, landed, failed, dropped, calledOff>>

\* the modal is on the page: on a page that is gone nobody answers it
Solved ==
    /\ Pool /\ gate = "modal" /\ ~orphan /\ gate' = "open"
    /\ UNCHANGED <<todo, flying, landed, failed, dropped, calledOff>>

\* the queue is emptied
CalledOff ==
    /\ Pool /\ gate = "modal" /\ ~orphan
    /\ gate' = "open" /\ calledOff' = TRUE
    /\ todo' = 0 /\ dropped' = dropped + todo
    /\ UNCHANGED <<flying, landed, failed>>

\* every worker has returned; a task refused after the cancellation stays
\* behind in the queue
Finalize ==
    /\ stage = "fanning" /\ flying = 0 /\ gate = "open" /\ (todo = 0 \/ calledOff)
    /\ stage' = "finalizing"
    /\ UNCHANGED <<mounted, draftPart, orphan, prepared, poolVars, edits, editorVisits, atMount,
                   touched, wiped>>

\* an error of the finalize call that leaves the page busy
FinalizedBusy ==
    /\ stage = "finalizing" /\ stage' = stage /\ orphan' = orphan
    /\ prepared' = Empty
    /\ todo' = 0 /\ landed' = 0 /\ failed' = 0 /\ dropped' = 0
    /\ UNCHANGED <<mounted, draftPart, flying, gate, calledOff, edits, editorVisits, atMount, touched, wiped>>

\* finalized or not, the page is ready again
Finalized ==
    /\ stage = "finalizing" /\ stage' = "idle" /\ orphan' = FALSE
    /\ prepared' = Empty
    /\ todo' = 0 /\ landed' = 0 /\ failed' = 0 /\ dropped' = 0
    /\ UNCHANGED <<mounted, draftPart, flying, gate, calledOff, edits, editorVisits, atMount, touched, wiped>>

Answers == Landed \/ Failed \/ Refused
Database == Saved \/ Cleared \/ Restored
SubmitSteps ==
    \/ Registered \/ NotRegistered \/ Take \/ Answers
    \/ GateCleared \/ ModalOpens \/ Solved \/ CalledOff
    \/ Finalize \/ Finalized

EditorNext ==
    \/ Open \/ ModelsRead \/ Leave \/ Unload
    \/ UpdateFixed \/ UpdateSlot \/ AddSlot \/ DuplicateSlot \/ DeleteSlot \/ ClearDraft
    \/ Save \/ Database
    \/ Submit \/ SubmitSteps

\* requests are answered and the user answers the modal; the server does not
\* ask for a captcha for ever
EditorFairness ==
    /\ WF_editorVars(Database)
    /\ WF_editorVars(SubmitSteps)
    /\ SF_editorVars(Landed \/ Failed)

EditorSpec == EditorInit /\ [][EditorNext]_editorVars /\ EditorFairness

-----------------------------------------------------------------------------
\* However often the pool is paused, refused and called off, every job of the
\* batch is waiting, being posted, made, failed, or dropped by the user.
EveryJobAccounted ==
    stage \in {"fanning", "finalizing"} =>
        todo + flying + landed + failed + dropped = prepared.slots

\* A batch is finalized only when no job is on its way, and is short of jobs
\* only when one failed or the user called the rest off.
FinalizedWhole ==
    stage = "finalizing" => flying = 0 /\ (landed = prepared.slots \/ failed > 0 \/ calledOff)

\* When nothing is pending, a reload brings back exactly the editor: no
\* autosave overtakes another, and a submitted draft does not come back.
\* (Not when an older page's submission cleared the store meanwhile.)
QuietDraftIsExact ==
    mounted /\ load = "done" /\ ~saving /\ asks = <<>> /\ ~wiped => Content = form

EditorSafe == EveryJobAccounted /\ FinalizedWhole /\ QuietDraftIsExact

\* A submission ends, as long as its page is there to answer the captcha.
SubmissionEnds == stage # "idle" ~> stage = "idle" \/ orphan

\* BatchPage: "restore draft from IndexedDB if present".
RestoreKeepsDraft ==
    [][load = "draft" /\ load' = "done" /\ ~touched => form' = atMount]_editorVars
=============================================================================
