----------------------------- MODULE PickerView -----------------------------
(***************************************************************************)
(* The picker page: the deck overview, the view of one session with its    *)
(* drawer and its confirmation, and the full-screen view; the cursor,    *)
(* the effects that restore and persist it, and the store's cursor timer   *)
(* (PickerPage.jsx, updateCursor and flushCursor of store/picker.js).  An  *)
(* effect runs when one of the values it depends on has changed since it   *)
(* last ran; "due" holds those values.                                     *)
(***************************************************************************)
EXTENDS Integers, FiniteSets, Sequences

CONSTANTS
    Decks,     \* sessions of the deck
    Count,     \* images of each
    Before,    \* the state each image of each session had before
    MaxMarks,  \* bound: judgments
    MaxOpens   \* bound: times a session is opened

VARIABLES
    route,    \* the session in the URL, or NoDeck
    fullscreen,
    sid,      \* sessionState.sessionId
    loaded,   \* the session whose data the store holds, or NoDeck while it loads
    opening,  \* openSession awaits its flush, for this session
    mark,     \* per session and image: its pick_state
    final,    \* per session: final_image_id, or 0
    locked,   \* per session: finalized
    stored,   \* per session: cursor_image_id in memory and in the cache, or 0
    saved,    \* per session: cursor_image_id on the server
    last,     \* lastCursorImageId: a session and its image
    mounted,  \* the view that is mounted
    cursor, inited, due,
    timer,    \* cursorTimer is armed
    drawer, swap,
    undo,     \* undoStack: images and the state they had, last first
    marks, opens

viewVars == <<route, fullscreen, sid, loaded, opening, mark, final, locked, undo, stored, saved, last, mounted, cursor,
              inited, due, timer, drawer, swap, undo, marks, opens>>
dataVars == <<mark, final, locked, undo>>
viewVars1 == <<route, fullscreen, sid, loaded, opening, opens>>
panelVars == <<drawer, swap>>

NoDeck == "none"
Images == 1..Count
Marks  == {"unjudged", "picked", "deferred", "final"}  \* discarded moves the view like picked
All    == {"images", "session", "id", "cursor"}

PickerTypeOK ==
    /\ {route, sid, loaded, opening} \subseteq Decks \cup {NoDeck}
    /\ mark \in [Decks -> [Images -> Marks]] /\ final \in [Decks -> 0..Count]
    /\ locked \in [Decks -> BOOLEAN]
    /\ {stored, saved} \subseteq [Decks -> -1..Count] /\ last \in [deck : Decks \cup {NoDeck}, image : 0..Count]
    /\ mounted \in {"deck", "session", "full"} /\ cursor \in Images /\ due \subseteq All
    /\ {fullscreen, inited, timer, drawer} \subseteq BOOLEAN
    /\ swap \in 0..Count

Given(d) == IF \E i \in Images : Before[d][i] = "final"
            THEN CHOOSE i \in Images : Before[d][i] = "final" ELSE 0

PickerInit ==
    /\ route = NoDeck /\ sid = NoDeck /\ loaded = NoDeck /\ opening = NoDeck /\ fullscreen = FALSE
    /\ mark = Before
    /\ final = [d \in Decks |-> Given(d)] /\ locked = [d \in Decks |-> FALSE]
    /\ stored = [d \in Decks |-> 0] /\ saved = [d \in Decks |-> 0]
    /\ last = [deck |-> NoDeck, image |-> 0]
    /\ mounted = "deck" /\ cursor = 1 /\ inited = FALSE /\ due = {} /\ timer = FALSE
    /\ drawer = FALSE /\ swap = 0
    /\ undo = <<>> /\ marks = 0 /\ opens = 0

\* the view that the URL and the full-screen flag call for; a new one starts afresh
Wanted(to, full) == IF to = NoDeck THEN "deck" ELSE IF full THEN "full" ELSE "session"

Mount(to, full) ==
    /\ mounted' = Wanted(to, full)
    /\ IF mounted' = mounted
       THEN /\ due' = IF to = route THEN due ELSE due \cup {"id"}
            /\ UNCHANGED <<cursor, inited, swap, drawer>>
       ELSE /\ cursor' = 1 /\ inited' = FALSE /\ due' = All
            /\ swap' = 0 /\ drawer' = FALSE

-----------------------------------------------------------------------------
(* Opening and leaving a session *)

Foreign == -1  \* an image of another session

\* doCursorFlush: the last cursor, whichever session it was of, goes to the
\* server with the id of the session the store is at
Flushed == IF sid = NoDeck \/ last.deck = NoDeck THEN saved
           ELSE [saved EXCEPT ![sid] = IF last.deck = sid THEN last.image ELSE Foreign]

\* a card, a row of the drawer, a digit key
Open(d) ==
    /\ opens < MaxOpens /\ route # d
    /\ opens' = opens + 1 /\ route' = d /\ opening' = d
    /\ saved' = Flushed /\ timer' = FALSE
    /\ Mount(d, fullscreen)
    /\ UNCHANGED <<fullscreen, sid, loaded, mark, final, locked, undo, stored, last, marks>>

\* the flush is done: the previous session is dropped
Clear ==
    /\ opening # NoDeck
    /\ opening' = NoDeck /\ sid' = opening /\ loaded' = NoDeck /\ undo' = <<>>
    /\ due' = IF mounted = "deck" THEN due ELSE due \cup {"images", "session"}
    /\ UNCHANGED <<route, fullscreen, mark, final, locked, stored, saved, last, mounted, cursor, inited, timer,
                   drawer, swap, marks, opens>>

\* the cache or the server gives the session the URL names
Load ==
    /\ route # NoDeck /\ loaded = NoDeck /\ opening = NoDeck
    /\ loaded' = route
    /\ stored' = [stored EXCEPT ![route] = saved[route]]
    /\ due' = due \cup {"images", "session"}
    /\ UNCHANGED <<route, fullscreen, sid, opening, mark, final, locked, undo, saved, last, mounted, cursor, inited, timer,
                   drawer, swap, marks, opens>>

\* closeSession: Escape, the overview button, or the end of Finalize
Close ==
    /\ route # NoDeck
    /\ route' = NoDeck /\ sid' = NoDeck /\ loaded' = NoDeck /\ opening' = NoDeck /\ undo' = <<>>
    /\ saved' = Flushed /\ timer' = FALSE
    /\ Mount(NoDeck, fullscreen)
    /\ UNCHANGED <<fullscreen, mark, final, locked, stored, last, marks, opens>>

Escape ==
    /\ mounted = "session" /\ swap = 0 /\ ~drawer
    /\ Close

EnterFullscreen ==
    /\ mounted = "session" /\ loaded # NoDeck /\ ~locked[loaded] /\ ~fullscreen
    /\ fullscreen' = TRUE
    /\ Mount(route, TRUE)
    /\ UNCHANGED <<route, sid, loaded, opening, mark, final, locked, undo, stored, saved, last, timer, marks, opens>>

LeaveFullscreen ==
    /\ fullscreen
    /\ fullscreen' = FALSE
    /\ Mount(route, FALSE)
    /\ UNCHANGED <<route, sid, loaded, opening, mark, final, locked, undo, stored, saved, last, timer, marks, opens>>

-----------------------------------------------------------------------------
(* The effects that restore the cursor and persist it *)

FirstUnjudged(d) ==
    IF \E i \in Images : mark[d][i] = "unjudged"
    THEN CHOOSE i \in Images : mark[d][i] = "unjudged" /\ \A j \in 1..(i - 1) : mark[d][j] # "unjudged"
    ELSE 1

Restored == IF stored[loaded] # 0 THEN (IF stored[loaded] = Foreign THEN 1 ELSE stored[loaded])
            ELSE IF mounted = "session" THEN FirstUnjudged(loaded) ELSE 1

\* a commit: the effects whose values changed run in their order.  In the
\* session view the second one clears the flag the first has set, and the third
\* persists a cursor whether or not it was restored.
Commit ==
    /\ due # {}
    /\ LET restores == loaded # NoDeck /\ ~inited /\ due \cap {"images", "session"} # {}
           ready    == inited \/ restores
           persists == loaded # NoDeck /\ due \cap {"images", "session", "cursor"} # {}
                       /\ (mounted = "full" => ready)
       IN /\ cursor' = IF restores THEN Restored ELSE cursor
          /\ inited' = (ready /\ ~(mounted = "session" /\ "id" \in due))
          /\ stored' = IF persists THEN [stored EXCEPT ![loaded] = cursor] ELSE stored
          /\ last' = IF persists THEN [deck |-> loaded, image |-> cursor] ELSE last
          /\ timer' = (timer \/ persists)
          /\ due' = (IF persists THEN {"session"} ELSE {})
                    \cup (IF cursor' # cursor THEN {"cursor"} ELSE {})
    /\ UNCHANGED <<viewVars1, dataVars, saved, mounted, panelVars, marks>>

\* CURSOR_THROTTLE_MS without a call of updateCursor, much longer than a commit
Save ==
    /\ timer /\ due = {}
    /\ timer' = FALSE /\ saved' = Flushed
    /\ UNCHANGED <<viewVars1, dataVars, stored, last, mounted, cursor, inited, due, panelVars, marks>>

-----------------------------------------------------------------------------
(* Judging *)

Working == loaded # NoDeck /\ mounted # "deck" /\ marks < MaxMarks

\* applyLocalState: a new final demotes the old one
Applied(d, i, st) ==
    /\ mark' = [mark EXCEPT ![d] = [j \in Images |->
                    IF j = i THEN st ELSE IF st = "final" /\ @[j] = "final" THEN "picked" ELSE @[j]]]
    /\ final' = [final EXCEPT ![d] = IF st = "final" THEN i ELSE IF @ = i THEN 0 ELSE @]

\* judgeImage: a judgment that changes nothing is skipped, any other is noted for undo
Judged(d, i, st) ==
    /\ Applied(d, i, st)
    /\ undo' = IF mark[d][i] = st THEN undo ELSE <<[image |-> i, was |-> mark[d][i]]>> \o undo

\* the step never wraps past the last image
NextUnjudgedAhead(i) ==
    IF \E j \in Images : j > i /\ mark[loaded][j] = "unjudged"
    THEN CHOOSE j \in Images : j > i /\ mark[loaded][j] = "unjudged" ELSE i

\* findNextUnjudged: the next unjudged image around the circle, as the view was
\* before the judgment; then the first deferred one; then where it was
NextUnjudged(i) ==
    LET After(k) == ((i - 1 + k) % Count) + 1
        open     == {k \in Images : mark[loaded][After(k)] = "unjudged"}
        put      == {j \in Images : mark[loaded][j] = "deferred"}
    IN IF open # {} THEN After(CHOOSE k \in open : \A o \in open : k <= o)
       ELSE IF put # {} THEN CHOOSE j \in put : \A o \in put : j <= o
       ELSE i

\* the full-screen view has no second choice
NextUnjudgedFull(i) == IF \E j \in Images : mark[loaded][j] = "unjudged" THEN NextUnjudged(i) ELSE i

MoveTo(i) == cursor' = i /\ due' = IF i = cursor THEN due ELSE due \cup {"cursor"}

\* P, X, F, Space or a button of the session view
Judge(st) ==
    /\ Working /\ mounted = "session" /\ swap = 0 /\ ~locked[loaded]
    /\ IF st = "final" /\ final[loaded] \notin {0, cursor}
       THEN swap' = cursor /\ UNCHANGED <<mark, final, undo, cursor, due>>
       ELSE Judged(loaded, cursor, st) /\ swap' = 0 /\ cursor' = NextUnjudged(cursor)
            /\ due' = due \cup {"images", "session", "cursor"}
    /\ marks' = marks + 1
    /\ UNCHANGED <<viewVars1, locked, stored, saved, last, mounted, inited, timer, drawer>>

\* the same keys full screen: no lock, no confirmation
JudgeFull(st) ==
    /\ Working /\ mounted = "full"
    /\ Judged(loaded, cursor, st) /\ cursor' = NextUnjudgedFull(cursor)
    /\ due' = due \cup {"images", "session", "cursor"}
    /\ marks' = marks + 1
    /\ UNCHANGED <<viewVars1, locked, stored, saved, last, mounted, inited, timer, panelVars>>

\* Enter or the button of the confirmation
ConfirmSwap ==
    /\ loaded # NoDeck /\ swap # 0
    /\ Judged(loaded, swap, "final") /\ swap' = 0
    /\ cursor' = NextUnjudged(cursor) /\ due' = due \cup {"images", "session", "cursor"}
    /\ UNCHANGED <<viewVars1, locked, stored, saved, last, mounted, inited, timer, drawer, marks>>

CancelSwap ==
    /\ swap # 0 /\ swap' = 0
    /\ UNCHANGED <<viewVars1, dataVars, stored, saved, last, mounted, cursor, inited, due, timer, drawer, marks>>

\* U or the button: the last judgment is taken back, and the cursor goes to it
Undo ==
    /\ loaded # NoDeck /\ mounted # "deck" /\ swap = 0 /\ undo # <<>>
    /\ Applied(loaded, Head(undo).image, Head(undo).was) /\ undo' = Tail(undo)
    /\ cursor' = IF mounted = "session" THEN Head(undo).image ELSE cursor
    /\ due' = due \cup {"images", "session", "cursor"}
    /\ UNCHANGED <<viewVars1, locked, stored, saved, last, mounted, inited, timer, panelVars, marks>>

Ready == final[loaded] # 0 /\ ~locked[loaded] /\ \A i \in Images : mark[loaded][i] \notin {"unjudged", "deferred"}

\* Enter or the button, and the answer; the view closes after the toast
Finalize ==
    /\ loaded # NoDeck /\ mounted = "session" /\ swap = 0 /\ Ready
    /\ locked' = [locked EXCEPT ![loaded] = TRUE] /\ due' = due \cup {"session"}
    /\ UNCHANGED <<viewVars1, mark, final, undo, stored, saved, last, mounted, cursor, inited, timer, panelVars, marks>>

Reopen ==
    /\ loaded # NoDeck /\ mounted = "session" /\ locked[loaded]
    /\ locked' = [locked EXCEPT ![loaded] = FALSE] /\ due' = due \cup {"session"}
    /\ UNCHANGED <<viewVars1, mark, final, undo, stored, saved, last, mounted, cursor, inited, timer, panelVars, marks>>

-----------------------------------------------------------------------------
(* Moving *)

\* the right arrow of the session view defers an unjudged image where it is:
\* the move that judgeAndAdvance asked for is overwritten
Right ==
    /\ loaded # NoDeck /\ swap = 0 /\ mounted = "session"
    /\ IF mark[loaded][cursor] = "unjudged" /\ ~locked[loaded]
       THEN /\ marks < MaxMarks /\ marks' = marks + 1
            /\ Judged(loaded, cursor, "deferred")
            /\ due' = due \cup {"images", "session"} /\ UNCHANGED cursor
       ELSE MoveTo(IF cursor < Count THEN cursor + 1 ELSE Count) /\ UNCHANGED <<mark, final, undo, marks>>
    /\ UNCHANGED <<viewVars1, locked, stored, saved, last, mounted, inited, timer, panelVars>>

\* the left arrow, Home, End, a thumbnail, the filmstrip, the arrows full screen
Jump(i) ==
    /\ loaded # NoDeck /\ mounted # "deck" /\ swap = 0
    /\ MoveTo(i)
    /\ UNCHANGED <<viewVars1, dataVars, stored, saved, last, mounted, inited, timer, panelVars, marks>>

\* S and the drawer's buttons
Drawer ==
    /\ mounted = "session" /\ swap = 0 /\ drawer' = ~drawer
    /\ UNCHANGED <<viewVars1, dataVars, stored, saved, last, mounted, cursor, inited, due, timer, swap, marks>>

PickerNext ==
    \/ \E d \in Decks : Open(d)
    \/ Clear \/ Load \/ Escape \/ EnterFullscreen \/ LeaveFullscreen
    \/ Commit \/ Save
    \/ \E st \in Marks \ {"unjudged"} : Judge(st) \/ JudgeFull(st)
    \/ ConfirmSwap \/ CancelSwap \/ Undo
    \/ Finalize \/ Reopen
    \/ Right \/ \E i \in Images : Jump(i)
    \/ Drawer

PickerSpec == PickerInit /\ [][PickerNext]_viewVars
              /\ WF_viewVars(Commit) /\ WF_viewVars(Save)

-----------------------------------------------------------------------------
Unjudged == {i \in Images : mark[loaded][i] = "unjudged"}

\* after a judgment the cursor is on an unjudged image while one is left
NextIsUnjudged ==
    [][mark' # mark /\ Unjudged' # {} /\ (\E st \in Marks : Judge(st) \/ JudgeFull(st))
       => cursor' \in Unjudged']_viewVars

\* in the session view one final replaces another only when the user confirmed it
SwapIsAsked ==
    [][final' # final =>
        \A d \in Decks : mounted = "session" /\ final[d] # 0 /\ final'[d] \notin {0, final[d]}
          => swap = final'[d]]_viewVars

\* one final at most, and the session names it
OneFinal == \A d \in Decks : {i \in Images : mark[d][i] = "final"} = {final[d]} \ {0}

\* the position shown reaches the server: what CURSOR_THROTTLE_MS is for
CursorIsSaved == timer ~> ~timer
=============================================================================
