----------------------------- MODULE BatchCards -----------------------------
(***************************************************************************)
(* The list of running batches: the store that App mounts while somebody is *)
(* signed in, fed by GET /batches and batch_progress events, the cards with *)
(* their secondary button, and the detail drawer.                           *)
(*                                                                         *)
(* A batch is its status; events and answers carry it.  A partial batch is  *)
(* taken for a cancelled one: neither button has a handler.  Hydration      *)
(* replaces the whole map, and subscribes only when its answer is there.    *)
(***************************************************************************)
EXTENDS Naturals, Sequences

CONSTANTS
    Batches,     \* batches of the user
    MaxReads,    \* bound: list requests under way
    MaxBatchEvents \* bound: events on their way

VARIABLES
    truth,       \* the status the server has, "none" or "gone"
    events,      \* batch_progress events on their way, oldest first
    signedIn,    \* App shows a user
    subscribed,  \* the store listens
    listed,      \* runningBatches
    dismissed,   \* dismissedIds, kept in localStorage
    reads,       \* list requests: what each was made for, its answer, and what it missed
    details,     \* drawer requests that are still wanted, or not
    opened,      \* drawerBatchId, or NoBatch
    detail,      \* the batch whose data the drawer shows, or NoBatch
    stale        \* history: cards an answer put back to an older status

cardVars == <<truth, events, signedIn, subscribed, listed, dismissed, reads, details, opened,
              detail, stale>>

NoBatch  == 0
Nothing  == [b \in Batches |-> "none"]
Over     == {"completed", "cancelled", "abandoned"}
CardStatuses == {"submitting", "running"} \cup Over

\* SECONDARY_BTN
Label(st) == CASE st = "running" -> "Cancel queued"
               [] st \in {"completed", "cancelled"} -> "Dismiss"
               [] st = "abandoned" -> "Discard"
               [] OTHER -> "none"

CardsTypeOK ==
    /\ truth \in [Batches -> CardStatuses \cup {"none", "gone"}]
    /\ listed \in [Batches -> CardStatuses \cup {"none"}]
    /\ \A i \in DOMAIN events : events[i] \in [card : Batches, status : CardStatuses]
    /\ {signedIn, subscribed} \subseteq BOOLEAN
    /\ dismissed \cup stale \subseteq Batches
    /\ \A i \in DOMAIN reads : reads[i].why \in {"mount", "refresh"} /\ reads[i].missed \subseteq Batches
    /\ {opened, detail} \subseteq Batches \cup {NoBatch}

CardsInit ==
    /\ truth = Nothing /\ events = <<>>
    /\ signedIn = FALSE /\ subscribed = FALSE /\ listed = Nothing
    /\ dismissed = {} /\ reads = <<>> /\ details = {}
    /\ opened = NoBatch /\ detail = NoBatch
    /\ stale = {}

Visible == {b \in Batches : listed[b] # "none"} \ dismissed
Ask(why) ==
    reads' = Append(reads, [why |-> why, served |-> FALSE, answer |-> Nothing, missed |-> {}])
CanAsk   == Len(reads) < MaxReads
CanEmit  == Len(events) < MaxBatchEvents
Emit(b, st) == CanEmit /\ events' = Append(events, [card |-> b, status |-> st])

drawerPart == <<details, opened, detail>>
storePart  == <<signedIn, subscribed, listed, dismissed, stale>>

-----------------------------------------------------------------------------
(* The server *)

\* fan-in, finalize, watchdog or another device
Progress(b) ==
    \E st \in CardStatuses :
        /\ \/ truth[b] = "submitting" /\ st \in {"running", "abandoned", "completed"}
           \/ truth[b] = "running" /\ st \in {"completed", "cancelled"}
        /\ Emit(b, st) /\ truth' = [truth EXCEPT ![b] = st]
        /\ UNCHANGED <<storePart, reads, drawerPart>>

Served(i) ==
    /\ ~reads[i].served
    /\ reads' = [reads EXCEPT ![i].served = TRUE,
                              ![i].answer = [b \in Batches |-> IF truth[b] = "gone" THEN "none" ELSE truth[b]]]
    /\ UNCHANGED <<truth, events, storePart, drawerPart>>

-----------------------------------------------------------------------------
(* The store *)

SignIn ==
    /\ ~signedIn /\ CanAsk /\ signedIn' = TRUE /\ Ask("mount")
    /\ UNCHANGED <<truth, events, subscribed, listed, dismissed, drawerPart, stale>>

\* a mount whose answer is pending goes on
SignOut ==
    /\ signedIn
    /\ signedIn' = FALSE /\ subscribed' = FALSE /\ listed' = Nothing
    /\ opened' = NoBatch /\ detail' = NoBatch /\ details' = {}
    /\ UNCHANGED <<truth, events, dismissed, reads, stale>>

WithoutRead(i) == [k \in 1..(Len(reads) - 1) |-> reads[IF k < i THEN k ELSE k + 1]]

\* the map is replaced; mount subscribes now
ReadArrives(i) ==
    /\ reads[i].served /\ reads' = WithoutRead(i)
    /\ listed' = reads[i].answer
    /\ stale' = reads[i].missed
    /\ subscribed' = (subscribed \/ reads[i].why = "mount")
    /\ UNCHANGED <<truth, events, signedIn, dismissed, drawerPart>>

\* the error is dropped; mount subscribes all the same, to a list that starts
\* from what it held
ReadFails(i) ==
    /\ reads' = WithoutRead(i)
    /\ subscribed' = (subscribed \/ reads[i].why = "mount")
    /\ stale' = IF reads[i].why = "mount" THEN Batches ELSE stale
    /\ UNCHANGED <<truth, events, signedIn, listed, dismissed, drawerPart>>

\* an event for a card the list does not have yet is ignored
DeliverToKnown ==
    /\ events # <<>> /\ events' = Tail(events)
    /\ LET e == Head(events) IN
        /\ listed' = IF subscribed /\ listed[e.card] # "none"
                     THEN [listed EXCEPT ![e.card] = e.status] ELSE listed
        /\ stale' = IF subscribed THEN stale \ {e.card} ELSE stale
        /\ reads' = [i \in DOMAIN reads |->
               IF reads[i].served THEN [reads[i] EXCEPT !.missed = @ \cup {e.card}] ELSE reads[i]]
    /\ UNCHANGED <<truth, signedIn, subscribed, dismissed, drawerPart>>

\* merged into the card, which appears when it was not there
Deliver ==
    /\ events # <<>> /\ events' = Tail(events)
    /\ LET e == Head(events) IN
        /\ listed' = IF subscribed THEN [listed EXCEPT ![e.card] = e.status] ELSE listed
        /\ stale' = IF subscribed THEN stale \ {e.card} ELSE stale
        /\ reads' = [i \in DOMAIN reads |->
               IF reads[i].served THEN [reads[i] EXCEPT !.missed = @ \cup {e.card}] ELSE reads[i]]
    /\ UNCHANGED <<truth, signedIn, subscribed, dismissed, drawerPart>>

-----------------------------------------------------------------------------
(* The page *)

\* the batch page has registered a batch: upsert
Register(b) ==
    /\ signedIn /\ truth[b] = "none"
    /\ truth' = [truth EXCEPT ![b] = "submitting"]
    /\ listed' = [listed EXCEPT ![b] = "submitting"]
    /\ reads' = [i \in DOMAIN reads |->
           IF reads[i].served THEN [reads[i] EXCEPT !.missed = @ \cup {b}] ELSE reads[i]]
    /\ UNCHANGED <<events, signedIn, subscribed, dismissed, drawerPart, stale>>

\* the card of another device, which this one hears of by its events
RegisterElsewhere(b) ==
    /\ truth[b] = "none" /\ Emit(b, "submitting")
    /\ truth' = [truth EXCEPT ![b] = "submitting"]
    /\ UNCHANGED <<storePart, reads, drawerPart>>

Press(b, label) == b \in Visible /\ Label(listed[b]) = label

\* a batch that is over by now is refused and the list is not read again
CancelQueued(b) ==
    /\ Press(b, "Cancel queued")
    /\ IF truth[b] \in {"submitting", "running"}
       THEN /\ \E st \in {truth[b], "cancelled"} : Emit(b, st) /\ truth' = [truth EXCEPT ![b] = st]
            /\ CanAsk /\ Ask("refresh")
       ELSE UNCHANGED <<truth, events, reads>>
    /\ UNCHANGED <<storePart, drawerPart>>

\* the handler leaves a cancelled card alone, although its button says the same
Dismiss(b) ==
    /\ Press(b, "Dismiss") /\ listed[b] # "cancelled"
    /\ dismissed' = dismissed \cup {b}
    /\ UNCHANGED <<truth, events, signedIn, subscribed, listed, reads, drawerPart, stale>>

\* hidden first, then deleted, which the server refuses while it is not over
Discard(b) ==
    /\ Press(b, "Discard") /\ CanAsk
    /\ dismissed' = dismissed \cup {b}
    /\ truth' = [truth EXCEPT ![b] = IF @ \in Over THEN "gone" ELSE @]
    /\ Ask("refresh")
    /\ UNCHANGED <<events, signedIn, subscribed, listed, drawerPart, stale>>

\* the drawer opens on one card, or moves to another while a read is pending
OpenDrawer(b) ==
    /\ b \in Visible /\ opened' = b /\ detail' = NoBatch
    /\ details' = {[card |-> b, wanted |-> TRUE]} \cup {[d EXCEPT !.wanted = FALSE] : d \in details}
    /\ b # opened
    /\ UNCHANGED <<truth, events, storePart, reads>>

CloseDrawer ==
    /\ opened # NoBatch /\ opened' = NoBatch /\ detail' = NoBatch
    /\ details' = {[d EXCEPT !.wanted = FALSE] : d \in details}
    /\ UNCHANGED <<truth, events, storePart, reads>>

\* whatever answer comes last is shown
DetailOfAny(d) ==
    /\ details' = details \ {d}
    /\ detail' = IF opened # NoBatch THEN d.card ELSE detail
    /\ UNCHANGED <<truth, events, storePart, reads, opened>>

\* an answer, or an error, of a request that was cancelled is dropped
DetailArrives(d) ==
    /\ details' = details \ {d}
    /\ detail' = IF d.wanted THEN d.card ELSE detail
    /\ UNCHANGED <<truth, events, storePart, reads, opened>>

CardsNext ==
    \/ \E b \in Batches : \/ Progress(b) \/ Register(b) \/ RegisterElsewhere(b) \/ CancelQueued(b)
                          \/ Dismiss(b) \/ Discard(b) \/ OpenDrawer(b)
    \/ \E i \in DOMAIN reads : Served(i) \/ ReadArrives(i) \/ ReadFails(i)
    \/ \E d \in details : DetailArrives(d)
    \/ SignIn \/ SignOut \/ Deliver \/ CloseDrawer

CardsSpec == CardsInit /\ [][CardsNext]_cardVars

-----------------------------------------------------------------------------
\* When nothing is under way the cards show what the server has, apart from
\* those an answer older than an event has put back.
QuietListIsExact ==
    signedIn /\ subscribed /\ reads = <<>> /\ events = <<>> =>
        \A b \in Batches \ (stale \cup dismissed) :
            listed[b] = IF truth[b] = "gone" THEN "none" ELSE truth[b]

\* The drawer shows the batch it was opened on, whatever answers are late.
DrawerShowsItsBatch == detail \in {NoBatch, opened}

CardsSafe == QuietListIsExact /\ DrawerShowsItsBatch

\* batchStore.refresh: "so the user sees the change immediately even if the
\* SSE event is in flight".
ListFollowsServer == stale = {}

\* App unmounts the store when nobody is signed in.
NobodySeesNothing == ~signedIn => Visible = {}
=============================================================================
