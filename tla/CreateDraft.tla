----------------------------- MODULE CreateDraft ----------------------------
(***************************************************************************)
(* The draft of the Create page (useDraftAutosave and draftDB): the text   *)
(* goes to localStorage at once, the reference images to IndexedDB in the  *)
(* order of the requests, 600 ms after the last edit.  The page can be     *)
(* left, closed or killed at any moment, and a submission may be answered  *)
(* long after that.                                                        *)
(*                                                                         *)
(* A text is a number, 0 the empty one; so is a choice of reference        *)
(* images, and Files gives how many images it holds.  The bound session    *)
(* goes with the text.                                                     *)
(***************************************************************************)
EXTENDS Integers, Sequences

CONSTANTS
    MaxTexts,       \* bound: texts ever typed
    MaxChoices,     \* bound: choices of images, each of one image
    MaxWaiting,     \* bound: requests to IndexedDB at the same time
    MaxStorageFaults

VARIABLES
    here,       \* the page is mounted
    enabled,    \* the catalog has loaded
    text, refs, \* the form
    typed, picked,  \* texts and choices made so far
    savedText,  \* localStorage: the text of the draft, -1 without a draft
    savedCount, \* its refs_count
    savedRefs,  \* IndexedDB
    timer,      \* the debounce is armed
    waiting,    \* requests to IndexedDB, in order
    restore,    \* the restore: not begun, reading, over
    ignoreOnce,
    hasWritten,
    sending,    \* a submission is under way, with this text
    accepted,   \* texts of accepted submissions
    overtaken,  \* a save or Clear came before IndexedDB answered the last request
    faults

draftVars == <<here, enabled, text, refs, typed, picked, savedText, savedCount, savedRefs, timer,
               waiting, restore, ignoreOnce, hasWritten, sending, accepted, overtaken, faults>>

NoDraft  == -1
Files(r) == IF r = 0 THEN 0 ELSE 1
Request  == [op : {"put", "clear", "get"}, refs : 0..MaxChoices, text : -1..MaxTexts,
             count : 0..1, mine : BOOLEAN]
Put(r)   == [op |-> "put", refs |-> r, text |-> -1, count |-> 0, mine |-> TRUE]
Clear    == [op |-> "clear", refs |-> 0, text |-> -1, count |-> 0, mine |-> TRUE]
Get      == [op |-> "get", refs |-> 0, text |-> savedText, count |-> savedCount, mine |-> TRUE]

DraftTypeOK ==
    /\ {here, enabled, timer, ignoreOnce, hasWritten, overtaken} \subseteq BOOLEAN
    /\ text \in 0..MaxTexts /\ typed \in 0..MaxTexts
    /\ refs \in 0..MaxChoices /\ picked \in 0..MaxChoices
    /\ savedText \in -1..MaxTexts /\ savedCount \in 0..1 /\ savedRefs \in 0..MaxChoices
    /\ waiting \in Seq(Request)
    /\ restore \in {"no", "reading", "over"}
    /\ sending \in 0..MaxTexts /\ accepted \subseteq 1..MaxTexts
    /\ faults \in 0..MaxStorageFaults

DraftInit ==
    /\ here = FALSE /\ enabled = FALSE
    /\ text = 0 /\ refs = 0 /\ typed = 0 /\ picked = 0
    /\ savedText = NoDraft /\ savedCount = 0 /\ savedRefs = 0
    /\ timer = FALSE /\ waiting = <<>>
    /\ restore = "no" /\ ignoreOnce = FALSE /\ hasWritten = FALSE
    /\ sending = 0 /\ accepted = {}
    /\ overtaken = FALSE /\ faults = 0

Ask(r) == Len(waiting) < MaxWaiting /\ waiting' = Append(waiting, r)

FormIsEmpty == text = 0 /\ refs = 0

-----------------------------------------------------------------------------
(* Coming and going *)

Mount ==
    /\ ~here
    /\ here' = TRUE /\ enabled' = FALSE /\ text' = 0 /\ refs' = 0
    /\ timer' = FALSE /\ restore' = "no" /\ ignoreOnce' = FALSE /\ hasWritten' = FALSE
    /\ overtaken' = FALSE
    /\ UNCHANGED <<typed, picked, savedText, savedCount, savedRefs, waiting, sending, accepted, faults>>

\* what the requests of a page that is gone still do to the store, nobody
\* is left to use their answers
Orphaned == [i \in DOMAIN waiting |-> [waiting[i] EXCEPT !.mine = FALSE]]

\* another page of the application: the timer is dropped, not flushed
LeavePage ==
    /\ here' = FALSE /\ timer' = FALSE /\ waiting' = Orphaned
    /\ UNCHANGED <<enabled, text, refs, restore, ignoreOnce, hasWritten, overtaken>>

Navigate ==
    /\ here
    /\ LeavePage
    /\ UNCHANGED <<typed, picked, savedText, savedCount, savedRefs, sending, accepted, faults>>

\* the tab is closed or reloaded: beforeunload flushes an armed timer, and of
\* the requests only the first few reach the store, the last of them a write
Unload ==
    /\ here
    /\ LET all == IF ~timer THEN waiting
                  ELSE IF ~FormIsEmpty THEN Append(waiting, Put(refs))
                  ELSE IF hasWritten THEN Append(waiting, Clear) ELSE waiting
       IN \/ UNCHANGED savedRefs
          \/ \E n \in 1..Len(all) : all[n].op # "get" /\ savedRefs' = all[n].refs
    /\ IF timer /\ ~FormIsEmpty
       THEN savedText' = text /\ savedCount' = Files(refs)
       ELSE IF timer /\ hasWritten THEN savedText' = NoDraft /\ savedCount' = 0
       ELSE UNCHANGED <<savedText, savedCount>>
    /\ here' = FALSE /\ timer' = FALSE /\ waiting' = <<>> /\ sending' = 0
    /\ UNCHANGED <<enabled, text, refs, typed, picked, restore, ignoreOnce, hasWritten, accepted,
                   overtaken, faults>>

\* the catalog is there: the restore begins, and the first autosave is armed;
\* a draft of more than seven days is dropped
Enable ==
    /\ here /\ ~enabled
    /\ enabled' = TRUE /\ timer' = TRUE
    /\ \/ /\ savedText = NoDraft
          /\ restore' = "over"
          /\ UNCHANGED <<savedText, savedCount, waiting>>
       \/ /\ savedText # NoDraft
          /\ restore' = "reading" /\ Ask(Get)
          /\ UNCHANGED <<savedText, savedCount>>
       \/ /\ savedText # NoDraft
          /\ savedText' = NoDraft /\ savedCount' = 0 /\ Ask(Clear)
          /\ restore' = "over"
    /\ UNCHANGED <<here, text, refs, typed, picked, savedRefs, ignoreOnce, hasWritten, sending, accepted,
                   overtaken, faults>>

-----------------------------------------------------------------------------
(* The form and its timer *)

\* the autosave effect after a change of the form
Touched ==
    IF ~enabled THEN UNCHANGED <<timer, ignoreOnce>>
    ELSE timer' = ~ignoreOnce /\ ignoreOnce' = FALSE

Type ==
    /\ here /\ typed < MaxTexts
    /\ typed' = typed + 1 /\ text' = typed + 1
    /\ Touched
    /\ UNCHANGED <<here, enabled, refs, picked, savedText, savedCount, savedRefs, waiting, restore,
                   hasWritten, sending, accepted, overtaken, faults>>

PickRefs ==
    /\ here /\ picked < MaxChoices
    /\ picked' = picked + 1 /\ refs' = picked + 1
    /\ Touched
    /\ UNCHANGED <<here, enabled, text, typed, savedText, savedCount, savedRefs, waiting, restore,
                   hasWritten, sending, accepted, overtaken, faults>>

\* the user empties the text or the images
Erase ==
    /\ here
    /\ \/ text # 0 /\ text' = 0 /\ UNCHANGED refs
       \/ refs # 0 /\ refs' = 0 /\ UNCHANGED text
    /\ Touched
    /\ UNCHANGED <<here, enabled, typed, picked, savedText, savedCount, savedRefs, waiting, restore,
                   hasWritten, sending, accepted, overtaken, faults>>

\* writeDraftNow, of an empty form only when something was written before;
\* localStorage may be full
Save ==
    /\ here /\ timer
    /\ timer' = FALSE
    /\ overtaken' = (overtaken \/ waiting # <<>>)
    /\ \/ /\ ~FormIsEmpty
          /\ Ask(Put(refs))
          /\ \/ savedText' = text /\ savedCount' = Files(refs) /\ UNCHANGED faults
             \/ /\ faults < MaxStorageFaults /\ faults' = faults + 1
                /\ UNCHANGED <<savedText, savedCount>>
       \/ /\ FormIsEmpty /\ hasWritten
          /\ Ask(Clear)
          /\ savedText' = NoDraft /\ savedCount' = 0
          /\ UNCHANGED faults
       \/ FormIsEmpty /\ ~hasWritten /\ UNCHANGED <<savedText, savedCount, waiting, faults>>
    /\ UNCHANGED <<here, enabled, text, refs, typed, picked, savedRefs, restore, ignoreOnce, hasWritten,
                   sending, accepted>>

-----------------------------------------------------------------------------
(* Answers of IndexedDB, in the order of the requests *)

PutDone ==
    /\ waiting # <<>> /\ Head(waiting).op = "put"
    /\ waiting' = Tail(waiting)
    /\ \/ savedRefs' = Head(waiting).refs /\ UNCHANGED faults
       \/ faults < MaxStorageFaults /\ faults' = faults + 1 /\ UNCHANGED savedRefs
    /\ hasWritten' = (hasWritten \/ Head(waiting).mine)
    /\ UNCHANGED <<here, enabled, text, refs, typed, picked, savedText, savedCount, timer, restore,
                   ignoreOnce, sending, accepted, overtaken>>

ClearDone ==
    /\ waiting # <<>> /\ Head(waiting).op = "clear"
    /\ waiting' = Tail(waiting)
    /\ savedRefs' = 0
    /\ hasWritten' = (hasWritten /\ ~Head(waiting).mine)
    /\ UNCHANGED <<here, enabled, text, refs, typed, picked, savedText, savedCount, timer, restore,
                   ignoreOnce, sending, accepted, overtaken, faults>>

\* the images of the draft, none when they are not as many as it says
Found == IF Files(savedRefs) = Head(waiting).count THEN savedRefs ELSE 0

\* an empty draft is not handed over, yet the next edit is skipped
GotAndSkips ==
    /\ waiting # <<>> /\ Head(waiting).op = "get"
    /\ waiting' = Tail(waiting)
    /\ restore' = IF Head(waiting).mine THEN "over" ELSE restore
    /\ ignoreOnce' = (ignoreOnce \/ Head(waiting).mine)
    /\ IF Head(waiting).mine /\ ~(Head(waiting).text = 0 /\ Found = 0)
       THEN text' = Head(waiting).text /\ refs' = Found /\ hasWritten' = TRUE /\ timer' = FALSE
       ELSE UNCHANGED <<text, refs, hasWritten, timer>>
    /\ UNCHANGED <<here, enabled, typed, picked, savedText, savedCount, savedRefs, sending, accepted,
                   overtaken, faults>>

\* the draft takes the place of the form; that change is not saved again,
\* and a pending save of what the user typed meanwhile is dropped
Got ==
    /\ waiting # <<>> /\ Head(waiting).op = "get"
    /\ waiting' = (IF Files(savedRefs) # Head(waiting).count /\ Head(waiting).mine
                   THEN Append(Tail(waiting), [Clear EXCEPT !.mine = FALSE]) ELSE Tail(waiting))
    /\ restore' = IF Head(waiting).mine THEN "over" ELSE restore
    /\ IF Head(waiting).mine /\ ~(Head(waiting).text = 0 /\ Found = 0)
       THEN text' = Head(waiting).text /\ refs' = Found /\ hasWritten' = TRUE /\ timer' = FALSE
       ELSE UNCHANGED <<text, refs, hasWritten, timer>>
    /\ UNCHANGED <<here, enabled, typed, picked, savedText, savedCount, savedRefs, ignoreOnce, sending,
                   accepted, overtaken, faults>>

-----------------------------------------------------------------------------
(* Clear and submission *)

\* clearDraft: what it does at once
Dropped == savedText' = NoDraft /\ savedCount' = 0 /\ Ask(Clear)

\* the Clear button empties the form, which arms the timer again
ClearButton ==
    /\ here
    /\ text' = 0 /\ refs' = 0
    /\ Dropped
    /\ IF enabled THEN timer' = ~ignoreOnce /\ ignoreOnce' = FALSE
       ELSE UNCHANGED <<timer, ignoreOnce>>
    /\ overtaken' = (overtaken \/ waiting # <<>>)
    /\ UNCHANGED <<here, enabled, typed, picked, savedRefs, restore, hasWritten, sending, accepted, faults>>

Submit ==
    /\ here /\ sending = 0 /\ text # 0
    /\ sending' = text
    /\ UNCHANGED <<here, enabled, text, refs, typed, picked, savedText, savedCount, savedRefs, timer,
                   waiting, restore, ignoreOnce, hasWritten, accepted, overtaken, faults>>

\* an answer that reaches a page that is gone changes nothing
SubmittedIfHere ==
    /\ sending # 0
    /\ accepted' = accepted \cup {sending} /\ sending' = 0
    /\ IF here THEN LeavePage /\ savedText' = NoDraft /\ savedCount' = 0
       ELSE UNCHANGED <<here, enabled, text, refs, timer, waiting, restore, ignoreOnce, hasWritten,
                        overtaken, savedText, savedCount>>
    /\ UNCHANGED <<typed, picked, savedRefs, faults>>

\* the job is made: the draft goes, and whatever page is shown makes way for
\* the archive, even when the Create page has been left meanwhile
Submitted ==
    /\ sending # 0 /\ Len(waiting) < MaxWaiting
    /\ accepted' = accepted \cup {sending} /\ sending' = 0
    /\ savedText' = NoDraft /\ savedCount' = 0
    /\ here' = FALSE /\ timer' = FALSE
    /\ waiting' = Append(Orphaned, [Clear EXCEPT !.mine = FALSE])
    /\ UNCHANGED <<enabled, text, refs, typed, picked, savedRefs, restore, ignoreOnce, hasWritten,
                   overtaken, faults>>

SubmitFails ==
    /\ sending # 0
    /\ sending' = 0
    /\ UNCHANGED <<here, enabled, text, refs, typed, picked, savedText, savedCount, savedRefs, timer,
                   waiting, restore, ignoreOnce, hasWritten, accepted, overtaken, faults>>

DraftNext ==
    \/ Mount \/ Navigate \/ Unload \/ Enable
    \/ Type \/ PickRefs \/ Erase \/ Save
    \/ PutDone \/ ClearDone \/ Got
    \/ ClearButton \/ Submit \/ Submitted \/ SubmitFails

DraftSpec == DraftInit /\ [][DraftNext]_draftVars

-----------------------------------------------------------------------------
\* what a reload would put into the form
Restorable ==
    IF savedText = NoDraft THEN <<0, 0>>
    ELSE <<savedText, IF Files(savedRefs) = savedCount THEN savedRefs ELSE 0>>

\* When nothing is pending on an open page, a reload brings back exactly the
\* form: no edit is skipped and no draft outlives its form.
QuietDraftIsExact ==
    here /\ restore = "over" /\ ~timer /\ waiting = <<>> /\ ~overtaken /\ faults = 0
      => Restorable = <<text, refs>>

\* A prompt that was submitted does not come back as a draft, wherever the
\* user was when the answer arrived; only a form that still holds it, on a
\* page opened meanwhile, may save it again.
SubmittedIsGone ==
    \A t \in accepted : savedText = t => sending = t \/ (here /\ text = t)

DraftSafe == QuietDraftIsExact /\ SubmittedIsGone
=============================================================================
