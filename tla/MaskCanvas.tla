----------------------------- MODULE MaskCanvas -----------------------------
(***************************************************************************)
(* The mask layer of the mask editor: strokes and operations on a canvas,   *)
(* the history stack beside it, and the comparison of a result, from which  *)
(* the editor comes back with a stage of its own.                           *)
(*                                                                         *)
(* What a canvas holds is a natural: 0 is blank, every change of pixels     *)
(* makes the next number.  A stage that is mounted brings a new canvas; the *)
(* page keeps the canvas of the last one, and the keyboard handler the one  *)
(* of the render it was made in.                                            *)
(***************************************************************************)
EXTENDS Naturals, Sequences

CONSTANTS
    MaxSteps,    \* MAX_STEPS, 50 in the code
    MaxMarks,    \* bound: changes of pixels
    MaxResults   \* bound: submissions

Tools == {"brush", "rect", "pan"}   \* eraser as brush, lasso as rect
NoStroke == "none"
Contents == 0..MaxMarks

VARIABLES
    view,      \* "stage", or "compare" with a result
    busy,      \* a job is under way: the editor is locked
    tool,
    pixels,    \* of the canvas the page has
    stroke,    \* the tool a pressed pointer paints with, "lost" once its tool was replaced
    steps, cursor, \* historyStackRef: snapshots, and the one shown, from 1
    keys,      \* the canvas the keyboard handler knows: "none", "old" or "live"
    marks, results, \* counters
    sent,      \* the mask of the last submission
    from,      \* history: what each content was made from
    torn       \* history: canvas and stack have been parted, see the actions

canvasVars == <<view, busy, tool, pixels, stroke, steps, cursor, keys, marks, results, sent,
                from, torn>>

CanvasTypeOK ==
    /\ view \in {"stage", "compare"} /\ {busy, torn} \subseteq BOOLEAN
    /\ tool \in Tools /\ stroke \in Tools \cup {NoStroke, "lost"}
    /\ {pixels, sent} \subseteq Contents
    /\ steps \in Seq(Contents) /\ Len(steps) \in 1..MaxSteps /\ cursor \in 1..Len(steps)
    /\ keys \in {"none", "old", "live"}
    /\ from \in [Contents -> Contents]

CanvasInit ==
    /\ view = "stage" /\ busy = FALSE /\ tool = "brush"
    /\ pixels = 0 /\ stroke = NoStroke /\ steps = <<0>> /\ cursor = 1
    /\ keys = "none"   \* bound before onCanvasReady has handed the canvas over
    /\ marks = 0 /\ results = 0 /\ sent = 0
    /\ from = [c \in Contents |-> 0] /\ torn = FALSE

OnStage == view = "stage" /\ ~busy

-----------------------------------------------------------------------------
(* The history stack *)

\* mutant: what was undone stays
PushedKeeping(s) ==
    LET kept == Append(steps, s) IN
    IF Len(kept) > MaxSteps THEN Tail(kept) ELSE kept

\* push: what was undone is dropped, and above the limit the oldest step
Pushed(s) ==
    LET kept == Append(SubSeq(steps, 1, cursor), s) IN
    IF Len(kept) > MaxSteps THEN Tail(kept) ELSE kept

\* captureSnapshot
Capture(s) == steps' = Pushed(s) /\ cursor' = Len(steps')

\* pixels change; the new content remembers what it was made from
Mark ==
    /\ marks < MaxMarks /\ marks' = marks + 1
    /\ pixels' = marks' /\ from' = [from EXCEPT ![marks'] = pixels]

-----------------------------------------------------------------------------
(* The pointer *)

\* a brush stamps at once, a rectangle or a lasso paints when the pointer is released
Down ==
    /\ OnStage /\ stroke = NoStroke /\ tool # "pan"
    /\ stroke' = tool
    /\ IF tool = "brush" THEN Mark ELSE UNCHANGED <<marks, pixels, from>>
    /\ UNCHANGED <<view, busy, tool, steps, cursor, keys, results, sent, torn>>

\* the wand fills and captures at the press
Wand ==
    /\ OnStage /\ stroke = NoStroke /\ Mark /\ Capture(pixels')
    /\ UNCHANGED <<view, busy, tool, stroke, keys, results, sent, torn>>

\* one stroke is one step: its stamps are taken for one change of what was there before
Move ==
    /\ view = "stage" /\ stroke = "brush"
    /\ marks < MaxMarks /\ marks' = marks + 1
    /\ pixels' = marks' /\ from' = [from EXCEPT ![marks'] = from[pixels]]
    /\ UNCHANGED <<view, busy, tool, stroke, steps, cursor, keys, results, sent, torn>>

\* nothing is captured of a rectangle of no size, nor when the tool was replaced meanwhile
Up(sized) ==
    /\ view = "stage" /\ stroke # NoStroke
    /\ stroke' = NoStroke
    /\ CASE stroke = "brush" -> Capture(pixels) /\ UNCHANGED <<pixels, marks, from>>
         [] stroke = "rect" /\ sized -> Mark /\ Capture(pixels')
         [] OTHER -> UNCHANGED <<pixels, marks, from, steps, cursor>>
    /\ UNCHANGED <<view, busy, tool, keys, results, sent, torn>>

\* a key or the toolbar; a new tool knows nothing of the pointer that is down
PickTool(t) ==
    /\ ~busy /\ t # tool
    /\ tool' = t
    /\ stroke' = IF stroke = NoStroke THEN NoStroke ELSE "lost"
    /\ torn' = (torn \/ stroke = "brush")
    /\ UNCHANGED <<view, busy, pixels, steps, cursor, keys, marks, results, sent, from>>

\* the brush's options are among what rebinds the keyboard handler
AdjustBrush ==
    /\ OnStage /\ keys # "live" /\ keys' = "live"
    /\ UNCHANGED <<view, busy, tool, pixels, stroke, steps, cursor, marks, results, sent, from,
                   torn>>

-----------------------------------------------------------------------------
(* Operations and history, from the panel, the toolbar or the keyboard *)

Apply ==
    /\ OnStage /\ stroke = NoStroke /\ Mark /\ Capture(pixels')
    /\ UNCHANGED <<view, busy, tool, stroke, keys, results, sent, torn>>

\* none and trash
Clear ==
    /\ OnStage /\ stroke = NoStroke /\ pixels # 0
    /\ pixels' = 0 /\ Capture(0) /\ torn' = TRUE
    /\ UNCHANGED <<view, busy, tool, stroke, keys, marks, results, sent, from>>

GoTo(i) ==
    /\ i \in 1..Len(steps) /\ cursor' = i
    /\ pixels' = steps[i]
    /\ UNCHANGED <<view, busy, tool, stroke, steps, keys, marks, results, sent, from>>

\* the buttons, also over a comparison, where the canvas is off screen
UndoButton == ~busy /\ stroke = NoStroke /\ GoTo(cursor - 1) /\ UNCHANGED torn
RedoButton == ~busy /\ stroke = NoStroke /\ GoTo(cursor + 1) /\ UNCHANGED torn
Jump(i)    == OnStage /\ stroke = NoStroke /\ i # cursor /\ GoTo(i) /\ UNCHANGED torn

\* undo and redo as the keyboard handler has them: on the canvas it was bound with
ByKey(i) ==
    /\ ~busy /\ keys # "none" /\ i \in 1..Len(steps) /\ cursor' = i
    /\ pixels' = IF keys = "live" THEN steps[i] ELSE pixels
    /\ torn' = (torn \/ keys = "old" \/ stroke # NoStroke)
    /\ UNCHANGED <<view, busy, tool, stroke, steps, keys, marks, results, sent, from>>

-----------------------------------------------------------------------------
(* The job and its result *)

\* onSubmit sends the canvas of its render; the lock rebinds the keyboard handler
Submit ==
    /\ OnStage /\ results < MaxResults /\ results' = results + 1
    /\ busy' = TRUE /\ sent' = pixels /\ keys' = "live"
    /\ torn' = (torn \/ stroke # NoStroke)
    /\ UNCHANGED <<view, tool, pixels, stroke, steps, cursor, marks, from>>

Fails ==
    /\ busy /\ busy' = FALSE /\ keys' = "live"
    /\ UNCHANGED <<view, tool, pixels, stroke, steps, cursor, marks, results, sent, from, torn>>

\* the comparison takes the stage's place
Succeeds ==
    /\ busy /\ busy' = FALSE /\ keys' = "live"
    /\ view' = "compare" /\ stroke' = NoStroke
    /\ UNCHANGED <<tool, pixels, steps, cursor, marks, results, sent, from, torn>>

\* a stage is mounted: a blank canvas, which no dependency of the keyboard handler tells it
Mounted ==
    /\ view' = "stage" /\ pixels' = 0 /\ stroke' = NoStroke
    /\ keys' = IF keys = "live" THEN "old" ELSE keys

\* mutant: the stage comes back as if the stack were new
DiscardUntold ==
    /\ view = "compare" /\ ~busy
    /\ Mounted
    /\ UNCHANGED <<busy, tool, steps, cursor, marks, results, sent, from, torn>>

\* onDiscardChanges: the stack stays as it was
Discard ==
    /\ view = "compare" /\ ~busy
    /\ Mounted /\ torn' = TRUE
    /\ UNCHANGED <<busy, tool, steps, cursor, marks, results, sent, from>>

\* onRegenerateSameParams: onSubmit of the comparison's render runs after the stage is back
Regenerate ==
    /\ view = "compare" /\ ~busy
    /\ results < MaxResults /\ results' = results + 1
    /\ view' = "stage" /\ pixels' = 0 /\ stroke' = NoStroke
    /\ sent' = pixels /\ busy' = TRUE /\ keys' = "live" /\ torn' = TRUE
    /\ UNCHANGED <<tool, steps, cursor, marks, from>>

\* onAcceptChanges ends in promoteResultToSource: a new source, a new stack
Accept ==
    /\ view = "compare" /\ ~busy
    /\ Mounted /\ steps' = <<0>> /\ cursor' = 1 /\ torn' = FALSE
    /\ UNCHANGED <<busy, tool, marks, results, sent, from>>

CanvasNext ==
    \/ Down \/ Wand \/ Move \/ \E sized \in BOOLEAN : Up(sized)
    \/ \E t \in Tools : PickTool(t)
    \/ AdjustBrush \/ Apply \/ Clear
    \/ UndoButton \/ RedoButton \/ \E i \in 1..MaxSteps : Jump(i)
    \/ ByKey(cursor - 1) \/ ByKey(cursor + 1)
    \/ Submit \/ Fails \/ Succeeds \/ Discard \/ Regenerate \/ Accept

CanvasSpec == CanvasInit /\ [][CanvasNext]_canvasVars

-----------------------------------------------------------------------------
(* Properties *)

\* As long as stack and canvas belong together and no stroke is open, the step the cursor
\* points at is what the canvas shows.
StepIsShown ==
    view = "stage" /\ stroke = NoStroke /\ ~torn => steps[cursor] = pixels

\* Undo goes back to what a step was made from: no abandoned step lies between two others.
StepsChain ==
    ~torn => \A i \in 2..Len(steps) : steps[i] # 0 => from[steps[i]] = steps[i - 1]

CanvasSafe == StepIsShown /\ StepsChain

\* "we just submit a brand-new job with the same prompt/mask/refs": what is sent from a
\* comparison is the mask that was sent before.  It does not hold the second time.
RegenerateSendsSameMask ==
    [][Regenerate => sent' = sent]_canvasVars
=============================================================================
