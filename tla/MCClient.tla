------------------------------ MODULE MCClient ------------------------------
(***************************************************************************)
(* One tab of the web client, for TLC.  Each part of the client has its    *)
(* module; they share no variable, so one run explores them side by side:  *)
(* screen is the part at work, chosen at the start, and the others wait in *)
(* their initial states.  Two modules work with two sets of bounds, for    *)
(* different cases: cards and drawer, mask and again.                      *)
(***************************************************************************)
EXTENDS Session, Integers, Sequences, TLC

CONSTANTS
    Ids, MaxClock, MaxChanges, MaxEvents, MaxRefresh, MaxSaving, MaxFaults, PageSize, MaxItems,
    FilterRows, Statuses, MaxTime, MaxFilterSteps, ListRows, PanelsPerPage, NJobs,
    MaxImages, MaxNodes, MaxLanes, Presses, MaxRequests, MaxTexts, MaxChoices, MaxWaiting,
    MaxStorageFaults, Models, Preferred, MaxParam, MaxServerChanges, Fetches, Typed,
    MaxCount, Decks, Count, MaxPickerMarks, MaxOpens, MaxTraffic, Batches, MaxCardReads, MaxBatchEvents,
    DrawerBatches, MaxDrawerReads, MaxDrawerEvents, Sources, MaxMaskJobs, MaxMaskEdits,
    MaxMaskVisits, MaxPicks, MaxPickEdits, MaxAgainSteps, MaxAgainPicks, MaxSteps,
    MaxCanvasMarks, MaxResults, Values, MaxCalls, MaxElsewhere

ASSUME ClientAssumption ==
    /\ IsFiniteSet(Models) /\ "none" \notin Models \cup Presses
    /\ Preferred \in Models \cup {"none"}
    /\ {MaxRequests, MaxParam, MaxServerChanges, MaxCount} \subseteq Nat \ {0}
    /\ Typed \subseteq Nat
    /\ IsFiniteSet(Sources) /\ Sources # {} /\ Sources = 1 .. Cardinality(Sources)
    /\ {MaxMaskJobs, MaxMaskEdits} \subseteq Nat /\ MaxSteps \in Nat \ {0}
    /\ 0 \in Values /\ 9 \notin Values   \* the default, and what stands for no edit
    /\ {MaxTexts, MaxCanvasMarks} \subseteq Nat

\* the catalog's order of the models
Order == CHOOSE f \in [Models -> 1 .. Cardinality(Models)] :
             \A m, n \in Models : f[m] = f[n] => m = n
\* row 1 is single, 2 and 3 form a set
RowSet == <<0, 1, 1>>
\* rows 1 and 2 are of one session
RowSession == <<1, 1, 2>>
\* panels 2 and 3 of the set are one picture
PanelPicture == <<"a", "b", "b">>
\* what each image of the two sessions was marked before
Before == [d \in Decks |-> IF d = "A" THEN <<"unjudged", "unjudged">> ELSE <<"picked", "final">>]
\* two images of one session, one of another
Shots == {[deck |-> "A", n |-> 1], [deck |-> "A", n |-> 2], [deck |-> "B", n |-> 1]}
\* the sizes on offer
Catalog == {<<3840, 2160>>, <<1536, 512>>}
\* the only size of a model without custom sizes
Fixed == <<1024, 1024>>

VARIABLES
    screen,
    \* ArchiveStore
    archiveServer, clock, online, archiveEvents, attached, hydrating, mem, db, saving,
    sync, refresh, posted, archiveFaults, excused,
    \* ArchivePaging
    count, pagingLoaded, viewport, committing, pagingArmed,
    \* ArchiveFilter
    facts, applied, pending, popover, exit, sortKey, urlSession, filterChosen, filterSteps,
    \* ArchiveView
    viewShown, viewStored, viewDrawer, setOpen, panels, panel, panelOpen, setPage,
    lightbox, closing, zoomed, peek, swipe, fly,
    \* Lineage
    rows, current, lineage, focus,
    \* CreateGenerate
    press, wire, requestId, issued, submitting, resolver, pressShown, widget, earned,
    consumed, midFlight, jobs, confirmed, forgotten, left,
    \* CreateDraft
    here, enabled, draftText, refs, typed, picked, savedText, savedCount, savedRefs,
    draftTimer, waiting, restore, ignoreOnce, hasWritten, sending, accepted, overtaken,
    draftFaults,
    \* CreateModels
    offered, catalog, sel, param, modelMounted, kept, lastModel, modelArmed, fetch,
    pressed, reverted, changes,
    \* SizePicker
    size, custom, open, w, h, preview, sizeTouched,
    \* OutputCount
    max, value, amountText, capped, dragging, handed, lowered,
    \* PickerView
    pickerRoute, fullscreen, sid, pickerLoaded, opening, mark, final, locked,
    pickerStored, pickerSaved, last, pickerMounted, pickerCursor, inited, due,
    pickerTimer, pickerDrawer, swap, undo, pickerMarks, opens,
    \* PickerStore
    pick, at, copy, judgmentsChosen, judgmentsOpened, unsent, posts, judgmentsReads,
    judgmentsEvents, recent, undoing, crossed, writeCount, readCount,
    \* BatchCards
    cardsTruth, cardsEvents, cardsSignedIn, cardsSubscribed, cardsListed, cardsDismissed,
    cardsReads, cardsDetails, cardsOpened, cardsDetail, cardsStale,
    \* MaskDraft
    maskRoute, maskOut, maskJob, maskSrc, maskLoads, maskLoaded, maskSwitching, maskFailed,
    maskText, maskPaint, maskSteps, maskCursor, maskBase, maskBaseTimer, maskTouched,
    maskRestored, maskReading, maskArmed, maskWriting, maskWrote, maskLastBlob,
    maskBlobDirty, maskLeaving, maskStatus, maskSub, maskResult, maskPromoted, maskStored,
    maskMine, maskMade, maskEdits, maskMaskVisits, maskPicks, maskUnheard, maskWhole,
    maskRaced,
    \* MaskCanvas
    view, busy, tool, pixels, stroke, canvasSteps, canvasCursor, keys, canvasMarks,
    results, sent, from, torn,
    \* Preferences
    settingsServer, settingsSaved, dirty, settingsLoaded, settingsLoads, save, look,
    reset, calls, elsewhere

archiveVars == <<archiveServer, clock, online, archiveEvents, attached, hydrating, mem,
    db, saving, sync, refresh, posted, archiveFaults, excused>>
pagingVars == <<count, pagingLoaded, viewport, committing, pagingArmed>>
filterVars == <<facts, applied, pending, popover, exit, sortKey, urlSession, filterChosen,
    filterSteps>>
viewVars == <<viewShown, viewStored, viewDrawer, setOpen, panels, panel, panelOpen,
    setPage, lightbox, closing, zoomed, peek, swipe, fly>>
familyVars == <<rows, current, lineage, focus>>
pressVars == <<press, wire, requestId, issued, submitting, resolver, pressShown, widget,
    earned, consumed, midFlight, jobs, confirmed, forgotten, left>>
draftVars == <<here, enabled, draftText, refs, typed, picked, savedText, savedCount,
    savedRefs, draftTimer, waiting, restore, ignoreOnce, hasWritten, sending, accepted,
    overtaken, draftFaults>>
modelVars == <<offered, catalog, sel, param, modelMounted, kept, lastModel, modelArmed,
    fetch, pressed, reverted, changes>>
sizeVars == <<size, custom, open, w, h, preview, sizeTouched>>
amountVars == <<max, value, amountText, capped, dragging, handed, lowered>>
pickerVars == <<pickerRoute, fullscreen, sid, pickerLoaded, opening, mark, final, locked,
    pickerStored, pickerSaved, last, pickerMounted, pickerCursor, inited, due,
    pickerTimer, pickerDrawer, swap, undo, pickerMarks, opens>>
judgmentsVars == <<pick, at, copy, judgmentsChosen, judgmentsOpened, unsent, posts,
    judgmentsReads, judgmentsEvents, recent, undoing, crossed, writeCount, readCount>>
cardsVars == <<cardsTruth, cardsEvents, cardsSignedIn, cardsSubscribed, cardsListed,
    cardsDismissed, cardsReads, cardsDetails, cardsOpened, cardsDetail, cardsStale>>
maskVars == <<maskRoute, maskOut, maskJob, maskSrc, maskLoads, maskLoaded, maskSwitching,
    maskFailed, maskText, maskPaint, maskSteps, maskCursor, maskBase, maskBaseTimer,
    maskTouched, maskRestored, maskReading, maskArmed, maskWriting, maskWrote,
    maskLastBlob, maskBlobDirty, maskLeaving, maskStatus, maskSub, maskResult,
    maskPromoted, maskStored, maskMine, maskMade,
    maskEdits, maskMaskVisits, maskPicks, maskUnheard, maskWhole, maskRaced>>
canvasVars == <<view, busy, tool, pixels, stroke, canvasSteps, canvasCursor, keys,
    canvasMarks, results, sent, from, torn>>
settingsVars == <<settingsServer, settingsSaved, dirty, settingsLoaded, settingsLoads,
    save, look, reset, calls, elsewhere>>

Store == INSTANCE ArchiveStore WITH
    server <- archiveServer, events <- archiveEvents, faults <- archiveFaults
Paging == INSTANCE ArchivePaging WITH
    loaded <- pagingLoaded, armed <- pagingArmed
Filter == INSTANCE ArchiveFilter WITH
    chosen <- filterChosen, steps <- filterSteps
View == INSTANCE ArchiveView WITH
    shown <- viewShown, stored <- viewStored, drawer <- viewDrawer
Family == INSTANCE Lineage
Generate == INSTANCE CreateGenerate WITH
    shown <- pressShown
Draft == INSTANCE CreateDraft WITH
    text <- draftText, timer <- draftTimer, faults <- draftFaults
Model == INSTANCE CreateModels WITH
    mounted <- modelMounted, armed <- modelArmed
Size == INSTANCE SizePicker WITH
    touched <- sizeTouched
Amount == INSTANCE OutputCount WITH
    text <- amountText
Picker == INSTANCE PickerView WITH
    MaxMarks <- MaxPickerMarks, route <- pickerRoute, loaded <- pickerLoaded,
    stored <- pickerStored, saved <- pickerSaved, mounted <- pickerMounted,
    cursor <- pickerCursor, timer <- pickerTimer, drawer <- pickerDrawer,
    marks <- pickerMarks
Judging == INSTANCE PickerStore WITH
    chosen <- judgmentsChosen, opened <- judgmentsOpened, reads <- judgmentsReads,
    events <- judgmentsEvents
Cards == INSTANCE BatchCards WITH
    MaxReads <- MaxCardReads, truth <- cardsTruth, events <- cardsEvents,
    signedIn <- cardsSignedIn, subscribed <- cardsSubscribed, listed <- cardsListed,
    dismissed <- cardsDismissed, reads <- cardsReads, details <- cardsDetails,
    opened <- cardsOpened, detail <- cardsDetail, stale <- cardsStale
Drawer == INSTANCE BatchCards WITH
    Batches <- DrawerBatches, MaxReads <- MaxDrawerReads,
    MaxBatchEvents <- MaxDrawerEvents, truth <- cardsTruth, events <- cardsEvents,
    signedIn <- cardsSignedIn, subscribed <- cardsSubscribed, listed <- cardsListed,
    dismissed <- cardsDismissed, reads <- cardsReads, details <- cardsDetails,
    opened <- cardsOpened, detail <- cardsDetail, stale <- cardsStale
Mask == INSTANCE MaskDraft WITH
    route <- maskRoute, out <- maskOut, job <- maskJob, src <- maskSrc,
    loads <- maskLoads, loaded <- maskLoaded, switching <- maskSwitching,
    failed <- maskFailed, text <- maskText, paint <- maskPaint, steps <- maskSteps,
    cursor <- maskCursor, base <- maskBase, baseTimer <- maskBaseTimer,
    touched <- maskTouched, restored <- maskRestored, reading <- maskReading,
    armed <- maskArmed, writing <- maskWriting, wrote <- maskWrote,
    lastBlob <- maskLastBlob, blobDirty <- maskBlobDirty, leaving <- maskLeaving,
    status <- maskStatus, sub <- maskSub, result <- maskResult, promoted <- maskPromoted,
    stored <- maskStored, mine <- maskMine, made <- maskMade, edits <- maskEdits,
    maskVisits <- maskMaskVisits, picks <- maskPicks, unheard <- maskUnheard,
    whole <- maskWhole, raced <- maskRaced
Canvas == INSTANCE MaskCanvas WITH
    MaxMarks <- MaxCanvasMarks, steps <- canvasSteps, cursor <- canvasCursor,
    marks <- canvasMarks
Settings == INSTANCE Preferences WITH
    server <- settingsServer, saved <- settingsSaved, loaded <- settingsLoaded,
    loads <- settingsLoads

Init ==
    /\ screen \in {"session", "archive", "paging", "filter", "view", "family", "press",
                  "draft", "model", "size", "amount", "picker", "judgments", "cards",
                  "drawer", "mask", "again", "canvas", "settings"}
    /\ SessionInit
    /\ Store!ArchiveInit
    /\ Paging!PagingInit
    /\ Filter!FilterInit
    /\ View!ViewInit
    /\ Family!LineageInit
    /\ Generate!GenInit
    /\ Draft!DraftInit
    /\ Model!ModelsInit
    /\ Size!SizeInit
    /\ Amount!CountInit
    /\ Picker!PickerInit
    /\ Judging!StoreInit
    /\ IF screen = "drawer" THEN Drawer!CardsInit ELSE Cards!CardsInit
    /\ Mask!MaskInit
    /\ Canvas!CanvasInit
    /\ Settings!PrefInit
    \* the initial state that a part waits in, where it has several
    /\ screen # "session" => page[CHOOSE t \in Tabs : TRUE] = "login"
    /\ screen # "settings" => settingsServer = [k \in Settings!PrefKeys |-> 0]

\* bound: the mask editor is opened on the first source or on an image that a job has made; the
\* other sources are reached by a pick.  Where images are picked, a visit is not followed beyond
\* the race that excepts it from the editor's properties; where none are, it is.
OpenedFirst == maskMaskVisits' # maskMaskVisits => maskRoute' \notin Sources \ {1}

\* the other parts wait; the part at work makes a step
Next ==
    /\ UNCHANGED screen
    /\ IF screen = "session" THEN TRUE ELSE UNCHANGED sessionVars
    /\ IF screen = "archive" THEN TRUE ELSE UNCHANGED archiveVars
    /\ IF screen = "paging" THEN TRUE ELSE UNCHANGED pagingVars
    /\ IF screen = "filter" THEN TRUE ELSE UNCHANGED filterVars
    /\ IF screen = "view" THEN TRUE ELSE UNCHANGED viewVars
    /\ IF screen = "family" THEN TRUE ELSE UNCHANGED familyVars
    /\ IF screen = "press" THEN TRUE ELSE UNCHANGED pressVars
    /\ IF screen = "draft" THEN TRUE ELSE UNCHANGED draftVars
    /\ IF screen = "model" THEN TRUE ELSE UNCHANGED modelVars
    /\ IF screen = "size" THEN TRUE ELSE UNCHANGED sizeVars
    /\ IF screen = "amount" THEN TRUE ELSE UNCHANGED amountVars
    /\ IF screen = "picker" THEN TRUE ELSE UNCHANGED pickerVars
    /\ IF screen = "judgments" THEN TRUE ELSE UNCHANGED judgmentsVars
    /\ IF screen \in {"cards", "drawer"} THEN TRUE ELSE UNCHANGED cardsVars
    /\ IF screen \in {"mask", "again"} THEN TRUE ELSE UNCHANGED maskVars
    /\ IF screen = "canvas" THEN TRUE ELSE UNCHANGED canvasVars
    /\ IF screen = "settings" THEN TRUE ELSE UNCHANGED settingsVars
    /\ \/ screen = "session" /\ SessionNext
       \/ screen = "archive" /\ Store!ArchiveNext
       \/ screen = "paging" /\ Paging!PagingNext
       \/ screen = "filter" /\ Filter!FilterNext
       \/ screen = "view" /\ View!ViewNext
       \/ screen = "family" /\ Family!LineageNext
       \/ screen = "press" /\ Generate!GenNext
       \/ screen = "draft" /\ Draft!DraftNext
       \/ screen = "model" /\ Model!ModelsNext
       \/ screen = "size" /\ Size!SizeNext
       \/ screen = "amount" /\ Amount!CountNext
       \/ screen = "picker" /\ Picker!PickerNext
       \/ screen = "judgments" /\ Judging!StoreNext
       \/ screen = "cards" /\ Cards!CardsNext
       \/ screen = "drawer" /\ Drawer!CardsNext
       \/ /\ screen = "mask" /\ Mask!MaskNext /\ ~maskRaced /\ OpenedFirst
          /\ maskMaskVisits' <= MaxMaskVisits /\ maskPicks' <= MaxPicks
          /\ maskEdits' <= MaxPickEdits
       \/ /\ screen = "again" /\ Mask!MaskNext /\ OpenedFirst
          /\ maskMaskVisits' + maskEdits' <= MaxAgainSteps /\ maskPicks' <= MaxAgainPicks
       \/ screen = "canvas" /\ Canvas!CanvasNext
       \/ screen = "settings" /\ Settings!PrefNext

clientVars == <<screen, sessionVars, archiveVars, pagingVars, filterVars, viewVars,
                familyVars, pressVars, draftVars, modelVars, sizeVars, amountVars,
                pickerVars, judgmentsVars, cardsVars, maskVars, canvasVars, settingsVars>>

Spec == Init /\ [][Next]_clientVars

-----------------------------------------------------------------------------
(* The properties of the parts, by the question they answer *)

\* every part keeps its types
ClientTypeOK ==
    /\ screen = "session" => SessionTypeOK
    /\ screen = "archive" => Store!ArchiveTypeOK
    /\ screen = "paging" => Paging!PagingTypeOK
    /\ screen = "filter" => Filter!FilterTypeOK
    /\ screen = "view" => View!ViewTypeOK
    /\ screen = "family" => Family!LineageTypeOK
    /\ screen = "press" => Generate!GenTypeOK
    /\ screen = "draft" => Draft!DraftTypeOK
    /\ screen = "model" => Model!ModelsTypeOK
    /\ screen = "size" => Size!SizeTypeOK
    /\ screen = "amount" => Amount!CountTypeOK
    /\ screen = "picker" => Picker!PickerTypeOK
    /\ screen = "judgments" => Judging!StoreTypeOK
    /\ screen = "cards" => Cards!CardsTypeOK
    /\ screen = "drawer" => Drawer!CardsTypeOK
    /\ screen \in {"mask", "again"} => Mask!MaskTypeOK
    /\ screen = "canvas" => Canvas!CanvasTypeOK
    /\ screen = "settings" => Settings!PrefTypeOK

\* What is submitted is what was asked for: a request whose answer is unknown is
\* repeated under its id, no captcha token is sent twice, between edits the
\* parameters remembered for a model are those shown for it, and the size and the
\* number handed on are those the form shows.
SubmissionsSafe ==
    /\ screen = "press" => Generate!GenerateSafe
    /\ screen = "model" => Model!ModelsSafe
    /\ screen = "size" => Size!SizeSafe
    /\ screen = "amount" => Amount!CountSafe

\* With nothing under way the stored draft is the work on screen (of the mask,
\* what its autosave has heard of and could write), the steps of the mask are the
\* canvas, and what is staged differs from what is saved.
DraftsSafe ==
    /\ screen = "draft" => Draft!DraftSafe
    /\ screen \in {"mask", "again"} => Mask!MaskDraftSafe
    /\ screen = "canvas" => Canvas!CanvasSafe
    /\ screen = "settings" => Settings!PrefSafe

\* What the client holds of the server's rows, batches and judgments is what the
\* server has, once answers and events are in, whatever their order; each part
\* names what it excepts.
CopiesAreExact ==
    /\ screen = "archive" => Store!QuietStoreIsExact
    /\ screen = "cards" => Cards!CardsSafe
    /\ screen = "drawer" => Drawer!CardsSafe
    /\ screen = "judgments" => Judging!MarksAreServers

\* Lists and graphs show every row once: no gap in the pages in view, each match
\* on one card, a family that can be walked, one final image in a session.
ListsSafe ==
    /\ screen = "paging" => Paging!NoGapInView
    /\ screen = "paging" => Paging!OneEmptyPageAtMost
    /\ screen = "filter" => Filter!EveryMatchListedOnce
    /\ screen = "family" => Family!LineageSafe
    /\ screen = "picker" => Picker!OneFinal

\* What a step of the archive or the picker may not do: throw the drawer past
\* a neighbour, apply what was not asked for first, reorder cards an event is not
\* about, go on to an image already judged, replace the final image unasked.
GallerySteps ==
    /\ View!PanelOnItsPage
    /\ View!MovesToNeighbour
    /\ Filter!FirstRequestCounts
    /\ Filter!OthersKeepOrder
    /\ Picker!NextIsUnjudged
    /\ Picker!SwapIsAsked

\* Changing the model and going back from the mask editor lose no work.
WorkIsKept ==
    /\ Model!SwitchKeepsParams
    /\ Mask!BackKeepsTheDraft

\* Leaving an impersonation keeps the admin's session, and no session ends
\* without somebody leaving or a token rejected.
SessionSteps ==
    /\ ExitKeepsAdmin
    /\ EndsForCause
=============================================================================
