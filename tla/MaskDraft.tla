----------------------------- MODULE MaskDraft -----------------------------
(***************************************************************************)
(* The mask editor and its local draft: a source image is loaded by its     *)
(* route, picked from the lineage panel while the old one is on screen, or  *)
(* promoted from a result; prompt and mask are autosaved in IndexedDB under *)
(* a key made of the image and the mode, and restored when the page opens.  *)
(*                                                                         *)
(* A prompt and a painting are naturals: 0 is none, an image's own prompt   *)
(* is its number, an edit gets the next number above them.  IndexedDB       *)
(* serves a request when it is made, or rejects a write; what takes time is *)
(* the read at restore and the PNG of the mask before a write.             *)
(***************************************************************************)
EXTENDS Naturals, Sequences

CONSTANTS
    Sources,       \* images that exist, 1..n
    MaxMaskJobs,   \* bound: submissions, each makes one more image
    MaxMaskEdits,  \* bound: edits
    MaxSteps       \* MAX_STEPS of the mask's history, 50 in the code

NSources == CHOOSE n \in Sources : \A m \in Sources : m <= n
Images   == 1..(NSources + MaxMaskJobs)
Keys     == [of : Images, out : BOOLEAN]
Nowhere  == 0
Works    == 0..(NSources + MaxMaskJobs + MaxMaskEdits)
NoRecord == [text |-> 0, paint |-> 0]   \* an empty record is never written
Records  == [text : Works, paint : Works]
NoBase   == [known |-> FALSE, text |-> 0, out |-> FALSE]
Bases    == [known : BOOLEAN, text : Works, out : BOOLEAN]
NotReading == [of |-> Nowhere, out |-> FALSE]
Writes   == [key : Keys, rec : Records, fresh : BOOLEAN, older : Works]
Nothing  == [key |-> [of |-> 1, out |-> FALSE], rec |-> NoRecord, fresh |-> FALSE, older |-> 0]

VARIABLES
    route,      \* the image the address names, Nowhere when the page is closed
    out,        \* outpaintMode
    job, src,   \* sourceJob and the image on screen
    loads,      \* loads under way: [to, soft, read], read once the job has answered
    loaded,     \* loadedKeyRef
    switching,  \* softSwitching: no stage is on screen
    failed,     \* loadError
    text, paint, \* the prompt, the mask on the canvas
    steps, cursor, \* historyStackRef: its masks and the one shown; <<>> before there is a stage
    base, baseTimer, \* the baseline, and what the 250 ms timer will make of it
    touched,    \* canvasRevRef counts a stroke, of whichever image
    restored, reading, \* restoredRef; the key being read, if any
    armed,      \* the 800 ms debounce timer
    writing,    \* a record whose PNG is being made if it is new, its key, and the PNG before
    wrote,      \* hasWrittenRef
    lastBlob, blobDirty, \* lastMaskBlobRef, maskDirtyRef
    leaving,    \* Back has been pressed and waits for its flush
    status,     \* of the page
    sub,        \* the submission: "none", "sent", "running", "finalizing"; its draft key
    result,     \* the image of resultJob, Nowhere before there is one
    promoted,   \* PROMOTED_BLANK_KEYS
    stored,     \* IndexedDB
    mine, made, edits,
    maskVisits, picks, \* openings of the page and images picked, which a bound may count
    unheard,    \* history: the mask has changed, but not the length of its history, with no timer set
    whole,      \* history: the last write had its PNG and was not rejected
    raced       \* history: of this visit, loads overlapped, an edit preceded the restore, the mask
                \* changed while its PNG was made, or an answer came while Back waited

sourceVars == <<route, out, job, src, loads, loaded, switching, failed>>
draftVars  == <<base, baseTimer, touched, restored, reading, armed, writing, wrote,
                lastBlob, blobDirty, stored, unheard, whole>>
jobVars    == <<status, sub, mine, result, made>>
stageVars  == <<paint, steps, cursor>>
maskVars   == <<sourceVars, text, stageVars, draftVars, leaving, jobVars, promoted, edits,
                maskVisits, picks, raced>>

Key == [of |-> route, out |-> out]
Own(s) == s
Content == [text |-> text, paint |-> paint]
IsEmpty(r) == r = NoRecord
Enabled == src # Nowhere
Locked == status \in {"submitting", "running", "finalizing"}

\* isDirtyVsBaseline
Dirty == ~base.known \/ text # base.text \/ out # base.out \/ touched

MaskTypeOK ==
    /\ route \in Images \cup {Nowhere} /\ {job, src, result} \subseteq Images \cup {Nowhere}
    /\ loaded \in Images \cup {Nowhere}
    /\ {out, switching, failed, touched, restored, armed, wrote, blobDirty, leaving, unheard, whole,
        raced} \subseteq BOOLEAN
    /\ loads \subseteq [to : Images, soft : BOOLEAN, read : BOOLEAN]
    /\ {text, paint, lastBlob} \subseteq Works
    /\ steps \in Seq(Works) /\ Len(steps) <= MaxSteps /\ cursor \in 0..Len(steps)
    /\ base \in Bases /\ baseTimer \in Bases
    /\ reading \in Keys \cup {NotReading}
    /\ writing \in Writes
    /\ status \in {"idle", "submitting", "running", "finalizing", "done", "error"}
    /\ sub \in {"none", "sent", "running", "finalizing"} /\ mine \in Keys
    /\ promoted \subseteq Images
    /\ stored \in [Keys -> Records]

MaskInit ==
    /\ route = Nowhere /\ out = FALSE /\ job = Nowhere /\ src = Nowhere
    /\ loads = {} /\ loaded = Nowhere /\ switching = FALSE /\ failed = FALSE
    /\ text = 0 /\ paint = 0 /\ steps = <<>> /\ cursor = 0
    /\ base = NoBase /\ baseTimer = NoBase /\ touched = FALSE
    /\ restored = FALSE /\ reading = NotReading /\ armed = FALSE
    /\ writing = Nothing /\ wrote = FALSE /\ lastBlob = 0 /\ blobDirty = FALSE
    /\ leaving = FALSE /\ status = "idle" /\ sub = "none" /\ mine = Nothing.key
    /\ result = Nowhere /\ promoted = {}
    /\ stored = [k \in Keys |-> NoRecord]
    /\ unheard = FALSE /\ whole = TRUE /\ raced = FALSE
    /\ made = 0 /\ edits = 0 /\ maskVisits = 0 /\ picks = 0

-----------------------------------------------------------------------------
(* The autosave effect runs after every change of what it saves, of the key  *)
(* and of the status; it arms nothing while a job is submitted or runs.      *)

Effect(enabled, newStatus) ==
    /\ armed' = (enabled /\ newStatus \notin {"submitting", "running"})
    /\ unheard' = (unheard /\ ~armed')

Saves(newStatus) == Effect(Enabled, newStatus)

\* a change made by the user or by an answer: the effect runs if it is enabled
Rearm == Saves(status)

\* deleteDraft and clearDraft
Delete(k) == stored' = [stored EXCEPT ![k] = NoRecord]

-----------------------------------------------------------------------------
(* Opening, loading and leaving *)

Loading(s, soft) == [to |-> s, soft |-> soft, read |-> FALSE]

Existing == 1..(NSources + made)

\* the effect on the address r and the job j: what is not there yet is loaded
UrlEffect(r, j, pending) ==
    /\ loaded' = IF j = r THEN r ELSE loaded
    /\ loads' = IF loaded # r /\ j # r THEN pending \cup {Loading(r, FALSE)} ELSE pending

\* a page is opened on an image, by the user or by a soft load that ends after the page was
\* left; bound: when nothing of an earlier page is under way any more
Open(s) ==
    /\ route = Nowhere /\ sub = "none" /\ writing = Nothing /\ s \in Existing
    /\ maskVisits' = maskVisits + 1
    /\ route' = s /\ loads' = {Loading(s, FALSE)}
    /\ UNCHANGED <<out, job, src, loaded, switching, failed, text, stageVars, draftVars, leaving, jobVars,
                   promoted, edits, picks, raced>>

\* onPickNode: the picture is replaced when it has arrived, then the route
Pick(s) ==
    /\ route # Nowhere /\ ~Locked /\ status # "done" /\ ~leaving
    /\ s \in Existing \ {route} /\ (\A l \in loads : l.to # s)
    /\ picks' = picks + 1
    /\ loads' = loads \cup {Loading(s, TRUE)}
    /\ switching' = TRUE
    /\ raced' = (raced \/ loads # {} \/ reading # NotReading)
    /\ UNCHANGED <<route, out, job, src, loaded, failed, text, stageVars, draftVars, leaving, jobVars,
                   promoted, edits, maskVisits>>

\* a version picked in the comparison: the route first, then a plain load
PickVersion(s) ==
    /\ route # Nowhere /\ status = "done" /\ result # Nowhere /\ ~leaving
    /\ s \in Existing \ {route} /\ (\A l \in loads : l.to # s)
    /\ picks' = picks + 1
    /\ route' = s /\ UrlEffect(s, job, loads)
    /\ raced' = (raced \/ loads # {} \/ reading # NotReading)
    /\ Saves(status)
    /\ UNCHANGED <<out, job, src, switching, failed, text, stageVars, base, baseTimer, touched, restored,
                   reading, writing, wrote, lastBlob, blobDirty, stored, whole, leaving, jobVars,
                   promoted, edits, maskVisits>>

\* getJob has answered: job and prompt are the new image's, the picture is still the old one;
\* an image of the address that failed before is loaded once more, beside this one
JobRead(l) ==
    /\ ~l.read
    /\ job' = l.to
    /\ UrlEffect(route, l.to, (loads \ {l}) \cup {[l EXCEPT !.read = TRUE]})
    /\ text' = IF l.to \in promoted THEN text ELSE Own(l.to)
    /\ raced' = (raced \/ leaving \/ \E k \in loads' : k.to # l.to)
    /\ IF text' # text THEN Rearm ELSE UNCHANGED <<armed, unheard>>
    /\ UNCHANGED <<route, out, src, switching, failed, stageVars, base, baseTimer, touched, restored,
                   reading, writing, wrote, lastBlob, blobDirty, stored, whole, leaving, jobVars,
                   promoted, edits, maskVisits, picks>>

\* the restore effect: once per page, for the key of that moment
Restore(k) ==
    /\ restored' = TRUE
    /\ reading' = IF restored THEN reading ELSE k

\* the stage is mounted: a blank mask, and a history of it if there is none
Blank(kept) ==
    /\ paint' = 0
    /\ steps' = IF kept = <<>> THEN <<0>> ELSE kept
    /\ cursor' = IF kept = <<>> THEN 1 ELSE cursor

\* the picture is there: a new stage unless a result is compared, and a new baseline if there
\* is none; a soft load starts the history anew
PictureRead(l) ==
    /\ l.read
    /\ loads' = loads \ {l} /\ loaded' = l.to
    /\ src' = l.to /\ failed' = FALSE /\ switching' = FALSE
    /\ route' = IF l.soft THEN l.to ELSE route
    /\ status' = IF l.soft THEN "idle" ELSE status
    /\ result' = IF l.soft THEN Nowhere ELSE result
    /\ IF status' = "done" THEN UNCHANGED stageVars ELSE Blank(IF l.soft THEN <<>> ELSE steps)
    /\ base' = IF l.soft THEN NoBase ELSE base
    /\ baseTimer' = IF base'.known THEN baseTimer
                    ELSE [known |-> TRUE, text |-> text, out |-> out]
    /\ raced' = (raced \/ leaving)
    /\ Restore([of |-> route', out |-> out])
    /\ Effect(TRUE, status')
    /\ UNCHANGED <<out, job, text, touched, writing, wrote, lastBlob, blobDirty, stored, whole, leaving,
                   sub, mine, made, promoted, edits, maskVisits, picks>>

\* the load throws and drops the draft, finds no model that can edit masks, or no such image; a
\* soft one leads to its address all the same, where it is loaded again unless its job was read
LoadFails(l, thrown) ==
    /\ failed' = TRUE /\ switching' = FALSE
    /\ IF l.soft /\ route # l.to
       THEN route' = l.to /\ UrlEffect(l.to, job, loads \ {l}) /\ Saves(status)
       ELSE loads' = loads \ {l} /\ UNCHANGED <<route, loaded, armed, unheard>>
    /\ IF thrown THEN Delete([of |-> l.to, out |-> FALSE]) ELSE UNCHANGED stored
    /\ raced' = (raced \/ leaving)
    /\ UNCHANGED <<out, job, src, text, stageVars, base, baseTimer, touched, restored, reading,
                   writing, wrote, lastBlob, blobDirty, whole, leaving, jobVars, promoted, edits,
                   maskVisits, picks>>

-----------------------------------------------------------------------------
(* Editing *)

NewValue == NSources + MaxMaskJobs + edits + 1
Editable == route # Nowhere /\ ~Locked /\ status # "done" /\ ~leaving
Early == loads # {} \/ reading # NotReading

Touches ==
    /\ raced' = (raced \/ Early \/ (paint' # paint /\ writing # Nothing))
    /\ UNCHANGED <<route, job, src, loads, loaded, switching, failed, base, baseTimer, restored, reading,
                   writing, wrote, lastBlob, stored, whole, leaving, jobVars, promoted, maskVisits,
                   picks>>

Edited == edits < MaxMaskEdits /\ edits' = edits + 1 /\ Touches

Type(v) ==
    /\ Editable /\ v # text /\ text' = v
    /\ Rearm
    /\ UNCHANGED <<out, stageVars, touched, blobDirty>> /\ Edited

\* the key follows the mode; nothing is restored
ToggleMode ==
    /\ Editable /\ out' = ~out
    /\ Rearm
    /\ UNCHANGED <<text, stageVars, touched, blobDirty>> /\ Edited

OnStage == Enabled /\ ~switching /\ ~failed

\* push: what was undone is dropped, and above the limit the oldest step
Pushed(p) ==
    LET kept == Append(SubSeq(steps, 1, cursor), p)
    IN  IF Len(kept) > MaxSteps THEN Tail(kept) ELSE kept

\* captureSnapshot and markCanvasDirty, after the effect has run or not
Marked(p) ==
    /\ paint' = p /\ touched' = TRUE /\ blobDirty' = TRUE
    /\ UNCHANGED <<out, text>>

\* a change of the mask that the effect does not see is saved by a timer set before, if at all
Unheard == unheard' = (unheard \/ ~armed) /\ UNCHANGED armed

\* mutant: the canvas is not among the effect's dependencies
StrokeUnheard ==
    /\ Editable /\ OnStage /\ Marked(NewValue)
    /\ steps' = Pushed(NewValue) /\ cursor' = Len(steps')
    /\ UNCHANGED <<armed, unheard>>
    /\ Edited

\* the effect watches the length of the history, which a stroke after one undo and a stroke at
\* the limit leave as it was
Stroke ==
    /\ Editable /\ OnStage /\ Marked(NewValue)
    /\ steps' = Pushed(NewValue) /\ cursor' = Len(steps')
    /\ IF Len(steps') # Len(steps) THEN Rearm ELSE Unheard
    /\ Edited

\* undo, redo and the list of steps move the cursor only, the toolbar's over a comparison too
JumpTo(i) ==
    /\ route # Nowhere /\ ~Locked /\ ~leaving /\ OnStage
    /\ i \in DOMAIN steps \ {cursor} /\ cursor' = i /\ Marked(steps[i])
    /\ Unheard
    /\ Touches /\ UNCHANGED <<steps, edits>>

-----------------------------------------------------------------------------
(* The draft *)

BaseTimerFires ==
    /\ baseTimer.known /\ base' = baseTimer /\ baseTimer' = NoBase
    /\ UNCHANGED <<sourceVars, text, stageVars, touched, restored, reading, armed, writing, wrote,
                   lastBlob, blobDirty, stored, unheard, whole, leaving, jobVars, promoted, edits,
                   maskVisits, picks, raced>>

\* getDraft answers: the setters of a restore run the effect once without arming it, a history
\* of another length runs it again
Restored ==
    /\ reading # NotReading /\ route # Nowhere
    /\ reading' = NotReading
    /\ LET r == stored[reading] IN
       IF IsEmpty(r) THEN UNCHANGED <<wrote, text, stageVars, armed, unheard>>
       ELSE /\ wrote' = TRUE /\ text' = r.text
            /\ IF r.paint = 0
               THEN armed' = FALSE /\ UNCHANGED <<stageVars, unheard>>
               ELSE /\ paint' = r.paint /\ steps' = <<r.paint>> /\ cursor' = 1
                    /\ Effect(Enabled /\ Len(steps) # 1, status)
    /\ raced' = (raced \/ leaving)
    /\ UNCHANGED <<sourceVars, base, baseTimer, touched, restored, writing, lastBlob, blobDirty,
                   stored, whole, leaving, jobVars, promoted, edits, maskVisits, picks>>

\* writeDraftNow up to the PNG: what is saved is read here, the mask is made anew if it changed
Serialise ==
    CASE ~Dirty -> UNCHANGED <<writing, wrote, lastBlob, stored, whole>>
      [] Dirty /\ IsEmpty(Content) ->
            /\ IF wrote THEN Delete(Key) ELSE UNCHANGED stored
            /\ wrote' = FALSE /\ lastBlob' = 0
            /\ UNCHANGED <<writing, whole>>
      [] Dirty /\ ~IsEmpty(Content) ->
            LET fresh == blobDirty \/ lastBlob = 0 IN
            /\ writing' = [key |-> Key, fresh |-> fresh, older |-> lastBlob,
                           rec |-> [text |-> text, paint |-> IF fresh \/ paint = 0 THEN paint ELSE lastBlob]]
            /\ whole' = TRUE
            /\ UNCHANGED <<wrote, lastBlob, stored>>

\* the baseline's 250 ms are over before the 800 ms armed with or after them
SaveFires ==
    /\ armed /\ ~baseTimer.known /\ writing = Nothing /\ route # Nowhere
    /\ armed' = FALSE
    /\ Serialise
    /\ UNCHANGED <<sourceVars, text, stageVars, base, baseTimer, touched, restored, reading, blobDirty,
                   unheard, leaving, jobVars, promoted, edits, maskVisits, picks, raced>>

\* the PNG is there, or toBlob gave none and the last one is taken; IndexedDB takes the record
\* or rejects it
Landed(png, put) ==
    /\ writing # Nothing /\ writing' = Nothing
    /\ LET new  == writing.fresh /\ png
           mask == IF writing.rec.paint # 0 /\ writing.fresh /\ ~png THEN writing.older
                   ELSE writing.rec.paint
           here == route # Nowhere
           done == [text |-> writing.rec.text, paint |-> mask]
       IN /\ stored' = IF put THEN [stored EXCEPT ![writing.key] = done] ELSE stored
          /\ lastBlob' = IF here /\ (new \/ writing.rec.paint = 0) THEN mask ELSE lastBlob
          /\ blobDirty' = (blobDirty /\ ~(here /\ new))
          /\ wrote' = (here /\ (wrote \/ put))
          /\ whole' = (here => whole /\ put /\ mask = writing.rec.paint)
    /\ UNCHANGED <<sourceVars, text, stageVars, base, baseTimer, touched, restored, reading, armed,
                   unheard, leaving, jobVars, promoted, edits, maskVisits, picks, raced>>

-----------------------------------------------------------------------------
(* Leaving *)

\* the page's state goes with it, all but what an answer under way will still touch
Closed ==
    /\ route' = Nowhere /\ out' = FALSE /\ job' = Nowhere /\ src' = Nowhere
    /\ loads' = {} /\ loaded' = Nowhere /\ switching' = FALSE /\ failed' = FALSE
    /\ text' = 0 /\ paint' = 0 /\ steps' = <<>> /\ cursor' = 0
    /\ base' = NoBase /\ baseTimer' = NoBase /\ touched' = FALSE
    /\ restored' = FALSE /\ reading' = NotReading /\ armed' = FALSE
    /\ wrote' = FALSE /\ lastBlob' = 0 /\ blobDirty' = FALSE
    /\ leaving' = FALSE /\ status' = "idle" /\ result' = Nowhere
    /\ unheard' = FALSE /\ whole' = TRUE /\ raced' = FALSE

\* mutant: flushed only when the timer is armed
BackIfArmed ==
    /\ route # Nowhere /\ ~Locked /\ ~leaving /\ writing = Nothing
    /\ leaving' = TRUE /\ armed' = FALSE
    /\ IF armed THEN Serialise ELSE UNCHANGED <<writing, wrote, lastBlob, stored, whole>>
    /\ UNCHANGED <<sourceVars, text, stageVars, base, baseTimer, touched, restored, reading, blobDirty,
                   unheard, jobVars, promoted, edits, maskVisits, picks, raced>>

\* the back button of an editor that is not locked: flushNow, then the archive
Back ==
    /\ route # Nowhere /\ ~Locked /\ ~leaving /\ writing = Nothing
    /\ leaving' = TRUE /\ armed' = FALSE
    /\ Serialise
    /\ UNCHANGED <<sourceVars, text, stageVars, base, baseTimer, touched, restored, reading, blobDirty,
                   unheard, jobVars, promoted, edits, maskVisits, picks, raced>>

Left ==
    /\ leaving /\ writing = Nothing
    /\ Closed
    /\ UNCHANGED <<writing, stored, sub, mine, made, promoted, edits, maskVisits, picks>>

\* back, or Escape, while a job is under way: the draft is dropped
LeaveLocked ==
    /\ route # Nowhere /\ Locked
    /\ Delete(Key) /\ Closed
    /\ UNCHANGED <<writing, sub, mine, made, promoted, edits, maskVisits, picks>>

\* any other change of route: the autosave effect's cleanup clears the timer before the
\* unmount flush looks at it, so nothing is flushed
Unmount ==
    /\ route # Nowhere /\ ~leaving
    /\ Closed
    /\ UNCHANGED <<writing, stored, sub, mine, made, promoted, edits, maskVisits, picks>>

\* the tab is closed or reloaded (pagehide: writeDraftSync with the last PNG), or killed
TabGone(killed) ==
    /\ route # Nowhere
    /\ Closed
    /\ IF killed \/ ~Enabled THEN UNCHANGED stored
       ELSE IF IsEmpty(Content) THEN IF wrote THEN Delete(Key) ELSE UNCHANGED stored
       ELSE stored' = [stored EXCEPT ![Key] =
                          [text |-> text, paint |-> IF paint = 0 THEN 0 ELSE lastBlob]]
    /\ writing' = Nothing /\ sub' = "none" /\ promoted' = {}
    /\ UNCHANGED <<mine, made, edits, maskVisits, picks>>

-----------------------------------------------------------------------------
(* The job *)

\* a setStatus of the submission; none reaches a page that is gone
Becomes(s) ==
    IF route = Nowhere THEN UNCHANGED <<status, armed, unheard>>
    ELSE status' = s /\ Saves(s)

pagePart == <<sourceVars, text, stageVars, base, baseTimer,
              touched, restored, reading, writing, whole, leaving, promoted, edits, maskVisits, picks>>

Submit ==
    /\ route # Nowhere /\ status \in {"idle", "error"} /\ ~leaving
    /\ Enabled /\ text # 0 /\ job # Nowhere
    /\ sub = "none" /\ made < MaxMaskJobs
    /\ Becomes("submitting") /\ sub' = "sent" /\ mine' = Key
    /\ UNCHANGED <<pagePart, raced, wrote, lastBlob, blobDirty, stored, result, made>>

Accepted ==
    /\ sub = "sent" /\ sub' = "running"
    /\ Becomes("running")
    /\ UNCHANGED <<pagePart, raced, wrote, lastBlob, blobDirty, stored, mine, result, made>>

\* refused, failed, or the 120 polls are over
SubmissionFails ==
    /\ sub \in {"sent", "running"} /\ sub' = "none"
    /\ Becomes("error")
    /\ UNCHANGED <<pagePart, raced, wrote, lastBlob, blobDirty, stored, mine, result, made>>

\* clearDraft with the key of the press; the change of status then runs the effect
Succeeded ==
    /\ sub = "running" /\ sub' = "finalizing"
    /\ made' = made + 1
    /\ result' = IF route = Nowhere THEN result ELSE NSources + made'
    /\ Delete(mine)
    /\ wrote' = FALSE /\ lastBlob' = 0 /\ blobDirty' = FALSE
    /\ raced' = (raced \/ leaving)
    /\ Becomes("finalizing")
    /\ UNCHANGED <<pagePart, mine>>

Shown ==
    /\ sub = "finalizing" /\ sub' = "none"
    /\ Becomes("done")
    /\ UNCHANGED <<pagePart, raced, wrote, lastBlob, blobDirty, stored, mine, result, made>>

\* onDiscardChanges: the stage comes back blank
Discard ==
    /\ route # Nowhere /\ status = "done" /\ result # Nowhere /\ ~leaving
    /\ status' = "idle" /\ result' = Nowhere
    /\ IF OnStage THEN Blank(steps) ELSE UNCHANGED stageVars
    /\ Saves("idle")
    /\ UNCHANGED <<sourceVars, text, base, baseTimer, touched, restored, reading, writing, wrote,
                   lastBlob, blobDirty, stored, whole, leaving, sub, mine, made, promoted, edits,
                   maskVisits, picks, raced>>

\* promoteResultToSource: the result is the next source, its prompt blank
Promote ==
    /\ route # Nowhere /\ status = "done" /\ result # Nowhere /\ ~leaving
    /\ job' = result /\ src' = result /\ route' = result /\ promoted' = promoted \cup {result}
    /\ loaded' = result /\ text' = 0
    /\ IF OnStage THEN Blank(<<>>) ELSE steps' = <<>> /\ cursor' = 0 /\ UNCHANGED paint
    /\ base' = NoBase /\ baseTimer' = [known |-> TRUE, text |-> 0, out |-> out]
    /\ status' = "idle" /\ result' = Nowhere
    /\ raced' = (raced \/ Early)
    /\ Effect(TRUE, "idle")
    /\ UNCHANGED <<out, loads, switching, failed, touched, restored, reading, writing, wrote,
                   lastBlob, blobDirty, stored, whole, leaving, sub, mine, made, edits, maskVisits, picks>>

MaskNext ==
    \/ \E s \in Images : Open(s) \/ Pick(s) \/ PickVersion(s)
    \/ \E l \in loads : JobRead(l) \/ PictureRead(l) \/ \E b \in BOOLEAN : LoadFails(l, b)
    \/ \E v \in {0, NewValue} : Type(v)
    \/ ToggleMode \/ Stroke \/ \E i \in DOMAIN steps : JumpTo(i)
    \/ BaseTimerFires \/ Restored \/ SaveFires \/ \E png, put \in BOOLEAN : Landed(png, put)
    \/ Back \/ Left \/ LeaveLocked \/ Unmount \/ \E k \in BOOLEAN : TabGone(k)
    \/ Submit \/ Accepted \/ SubmissionFails \/ Succeeded \/ Shown \/ Discard \/ Promote

MaskSpec == MaskInit /\ [][MaskNext]_maskVars

-----------------------------------------------------------------------------
(* Properties *)

\* nothing is under way (no load, read, timer, write or job) and no load has failed
Settled ==
    /\ route # Nowhere /\ ~leaving /\ loads = {} /\ reading = NotReading
    /\ ~armed /\ writing = Nothing /\ ~baseTimer.known /\ restored
    /\ status \notin {"submitting", "running"} /\ ~failed /\ ~raced

Saved == Dirty /\ ~IsEmpty(Content) => stored[Key] = Content

\* When the editor has come to rest, what differs from the baseline is in IndexedDB under the
\* key of the image and mode on screen, but for changes of the mask that leave its history as
\* long as it was (see JumpTo and Stroke), and after a write that was rejected or lacked its PNG.
QuietDraftIsExact == Settled /\ ~unheard /\ whole => Saved

\* With no load under way the job a submission would name as parent is the one whose picture
\* is on screen and which the address names, as long as loads did not overlap and none failed.
PictureIsOfItsJob ==
    route # Nowhere /\ loads = {} /\ ~raced /\ ~failed => job = route /\ src = route

MaskDraftSafe == QuietDraftIsExact /\ PictureIsOfItsJob

\* The back button of an unlocked editor at rest never leaves an edit behind, also one that
\* the autosave has missed, unless its write is rejected or lacks its PNG.
BackKeepsTheDraft ==
    [][route' # route /\ Left /\ Enabled /\ loads = {} /\ reading = NotReading /\ sub = "none"
       /\ ~raced /\ whole => Saved]_maskVars

\* "Submit succeeded -> the work is on the server now, no need to keep the local draft around":
\* with the comparison on screen and everything at rest there is no draft of the edit.
FinishedDraftIsGone ==
    Settled /\ status = "done" /\ sub = "none" => IsEmpty(stored[mine])

\* "Monotonic counter the page bumps on every mask edit (history.length works fine)": every
\* change of the mask is saved.
EveryMaskEditIsSaved == Settled /\ whole => Saved
=============================================================================
