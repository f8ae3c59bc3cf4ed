----------------------------- MODULE PickerStore -----------------------------
(***************************************************************************)
(* The judgments of the picker between three parties: the store's copy of  *)
(* the session on screen (store/picker.js), the server's rows, and the     *)
(* events the server sends of every change, the store's own and those of   *)
(* other tabs.  A judgment is applied at once, sent after a debounce and   *)
(* reconciled with the answer; an event on an image judged a moment ago is *)
(* taken for the echo of that judgment and dropped.                        *)
(***************************************************************************)
EXTENDS Integers, Sequences, FiniteSets

CONSTANTS
    Shots,      \* images, as records [deck, n]
    MaxTraffic  \* bound: judgments, undos, the other tab's judgments, and reads of a session

VARIABLES
    pick,     \* the server's state of each image
    at,       \* sessionState.sessionId, or NoSession
    copy,     \* sessionState.data.images, or the empty function
    chosen,   \* session.final_image_id of the copy, or NoShot
    opened,   \* openSession awaits the flush of the cursor, for this session
    unsent,   \* pendingWrites: images whose debounce timer runs
    posts,    \* writes under way
    reads,    \* reads of a session under way
    events,   \* image_pick_state events on their way
    recent,   \* recentLocalWrites that are less than 2 s old
    undoing,  \* undoStack, last first
    crossed,  \* calls overlapped or failed, a final was taken back unsent, or an event of another tab was dropped
    writeCount, readCount

storeVars == <<pick, at, copy, chosen, opened, unsent, posts, reads, events, recent, undoing, crossed,
               writeCount, readCount>>

NoSession == "none"
NoShot    == [deck |-> "none", n |-> 0]
States    == {"unjudged", "picked", "final"}  \* discarded and deferred differ from picked in nothing here
DecksOf   == {s.deck : s \in Shots}
ShotsOf(d) == {s \in Shots : s.deck = d}
NoCopy    == [s \in {} |-> "unjudged"]
Held      == DOMAIN copy

StoreTypeOK ==
    /\ pick \in [Shots -> States] /\ at \in DecksOf \cup {NoSession} /\ opened \in DecksOf \cup {NoSession}
    /\ \E d \in DecksOf \cup {NoSession} : copy \in [ShotsOf(d) -> States]
    /\ chosen \in Shots \cup {NoShot}
    /\ \A s \in DOMAIN unsent : s \in Shots /\ unsent[s] \in States
    /\ recent \subseteq Shots /\ crossed \in BOOLEAN

StoreInit ==
    /\ pick = [s \in Shots |-> "unjudged"]
    /\ at = NoSession /\ copy = NoCopy /\ chosen = NoShot /\ opened = NoSession
    /\ unsent = [s \in {} |-> "unjudged"] /\ posts = {} /\ reads = {} /\ events = <<>>
    /\ recent = {} /\ undoing = <<>> /\ crossed = FALSE /\ writeCount = 0 /\ readCount = 0

FinalIn(marks, d) ==
    IF \E s \in DOMAIN marks : s.deck = d /\ marks[s] = "final"
    THEN CHOOSE s \in DOMAIN marks : s.deck = d /\ marks[s] = "final" ELSE NoShot

-----------------------------------------------------------------------------
(* Opening and reading a session *)

WithinTraffic == writeCount + readCount < MaxTraffic

Read(d) ==
    /\ WithinTraffic /\ readCount' = readCount + 1
    /\ reads' = reads \cup {[n |-> readCount', deck |-> d, got |-> NoCopy]}
    /\ crossed' = (crossed \/ posts # {})

\* openSession: a session already on screen is read again, another one waits
\* for the cursor of the last to be flushed
OpenAgain(d) ==
    /\ at = d /\ copy # NoCopy
    /\ Read(d)
    /\ UNCHANGED <<pick, at, copy, chosen, opened, unsent, posts, events, recent, undoing, writeCount>>

OpenSession(d) ==
    /\ at # d /\ opened = NoSession
    /\ opened' = d
    /\ UNCHANGED <<pick, at, copy, chosen, unsent, posts, reads, events, recent, undoing, crossed,
                   writeCount, readCount>>

\* the flush is done; the cached copy, when there is one, is shown till the read ends
Opened ==
    /\ opened # NoSession
    /\ opened' = NoSession /\ at' = opened
    /\ copy' = NoCopy /\ chosen' = NoShot /\ undoing' = <<>>
    /\ Read(opened)
    /\ UNCHANGED <<pick, unsent, posts, events, recent, writeCount>>

CloseSession ==
    /\ at # NoSession
    /\ at' = NoSession /\ copy' = NoCopy /\ chosen' = NoShot /\ undoing' = <<>>
    /\ UNCHANGED <<pick, opened, unsent, posts, reads, events, recent, crossed, writeCount, readCount>>

ReadServed(r) ==
    /\ r \in reads /\ r.got = NoCopy
    /\ reads' = (reads \ {r}) \cup {[r EXCEPT !.got = [s \in ShotsOf(r.deck) |-> pick[s]]]}
    /\ UNCHANGED <<pick, at, copy, chosen, opened, unsent, posts, events, recent, undoing, crossed,
                   writeCount, readCount>>

\* syncSession: the answer becomes the session on screen, whichever that was
ReadArrives(r) ==
    /\ r \in reads /\ r.got # NoCopy
    /\ reads' = reads \ {r}
    /\ at' = r.deck /\ copy' = r.got /\ chosen' = FinalIn(r.got, r.deck)
    /\ UNCHANGED <<pick, opened, unsent, posts, events, recent, undoing, crossed, writeCount, readCount>>

ReadFails(r) ==
    /\ r \in reads
    /\ reads' = reads \ {r} /\ crossed' = TRUE
    /\ UNCHANGED <<pick, at, copy, chosen, opened, unsent, posts, events, recent, undoing, writeCount,
                   readCount>>

\* a job of the session succeeds or fails: job_state and task_created read it again
JobEnds ==
    /\ at # NoSession
    /\ Read(at)
    /\ UNCHANGED <<pick, at, copy, chosen, opened, unsent, posts, events, recent, undoing, writeCount>>

-----------------------------------------------------------------------------
(* The server *)

\* a new final demotes the old one
Set(marks, s, st) ==
    [x \in DOMAIN marks |-> IF x = s THEN st
                            ELSE IF st = "final" /\ x.deck = s.deck /\ marks[x] = "final" THEN "picked"
                            ELSE marks[x]]

Demoted(s, st) == IF st = "final" THEN {x \in ShotsOf(s.deck) \ {s} : pick[x] = "final"} ELSE {}

\* _set_pick_state: nothing is said of a write that changes nothing; the
\* demotion is said before the new claim, and without a final
Announced(s, st, other) ==
    IF pick[s] = st THEN <<>>
    ELSE (IF Demoted(s, st) = {} THEN <<>>
          ELSE <<[shot |-> CHOOSE x \in Demoted(s, st) : TRUE, to |-> "picked", final |-> NoShot,
                  other |-> other]>>)
         \o <<[shot |-> s, to |-> st, final |-> FinalIn(Set(pick, s, st), s.deck), other |-> other]>>

Serve(p) ==
    /\ p \in posts /\ ~p.served
    /\ pick' = Set(pick, p.shot, p.to)
    /\ events' = events \o Announced(p.shot, p.to, FALSE)
    /\ posts' = (posts \ {p}) \cup {[p EXCEPT !.served = TRUE, !.final = FinalIn(pick', p.shot.deck),
                                              !.demoted = Demoted(p.shot, p.to)]}
    /\ UNCHANGED <<at, copy, chosen, opened, unsent, reads, recent, undoing, crossed, writeCount, readCount>>

\* another tab judges
OtherTab(s, st) ==
    /\ WithinTraffic /\ pick[s] # st
    /\ writeCount' = writeCount + 1
    /\ pick' = Set(pick, s, st) /\ events' = events \o Announced(s, st, TRUE)
    /\ crossed' = (crossed \/ posts # {} \/ reads # {})
    /\ UNCHANGED <<at, copy, chosen, opened, unsent, posts, reads, recent, undoing, readCount>>

-----------------------------------------------------------------------------
(* The store *)

\* applyLocalState
ApplyLocal(s, st) ==
    /\ copy' = Set(copy, s, st)
    /\ chosen' = IF st = "final" THEN s ELSE IF chosen = s THEN NoShot ELSE chosen

Post(s, st) ==
    /\ posts' = posts \cup {[n |-> writeCount', shot |-> s, to |-> st, served |-> FALSE, final |-> NoShot,
                             demoted |-> {}]}
    /\ crossed' = (crossed \/ posts # {} \/ reads # {})

\* a final taken back within its debounce is never sent, and the final it
\* demoted in the copy stays the server's
Withdrawn(s, st) == s \in DOMAIN unsent /\ unsent[s] = "final" /\ st # "final"

\* judgeImage: applied, noted for undo, and sent when the debounce ends
JudgeImage(s, st) ==
    /\ s \in Held /\ copy[s] # st /\ WithinTraffic
    /\ writeCount' = writeCount + 1
    /\ undoing' = <<[shot |-> s, was |-> copy[s]]>> \o undoing
    /\ ApplyLocal(s, st)
    /\ recent' = recent \cup {s}
    /\ unsent' = [x \in DOMAIN unsent \cup {s} |-> IF x = s THEN st ELSE unsent[x]]
    /\ crossed' = (crossed \/ Withdrawn(s, st))
    /\ UNCHANGED <<pick, at, opened, posts, reads, events, readCount>>

\* the debounce of one image ends, whatever is on screen by then
Send(s) ==
    /\ s \in DOMAIN unsent
    /\ unsent' = [x \in DOMAIN unsent \ {s} |-> unsent[x]]
    /\ writeCount' = writeCount
    /\ Post(s, unsent[s])
    /\ UNCHANGED <<pick, at, copy, chosen, opened, reads, events, recent, undoing, readCount>>

\* the answer changes the image it is about only
ReconciledAlone(p) == [x \in Held |-> IF x = p.shot THEN p.to ELSE copy[x]]

\* the answer is authoritative: of the image, and of the final it replaced
Reconciled(p) == [x \in Held |-> IF x = p.shot THEN p.to ELSE IF x \in p.demoted THEN "picked" ELSE copy[x]]

Answered(p) ==
    /\ p \in posts /\ p.served
    /\ posts' = posts \ {p}
    /\ IF p.shot \in Held THEN copy' = Reconciled(p) /\ chosen' = p.final ELSE UNCHANGED <<copy, chosen>>
    /\ UNCHANGED <<pick, at, opened, unsent, reads, events, recent, undoing, crossed, writeCount, readCount>>

\* the write, or its answer, is lost: the last judgment of the image is rolled back
PostFails(p) ==
    /\ p \in posts
    /\ posts' = posts \ {p} /\ crossed' = TRUE
    /\ LET mine == {i \in DOMAIN undoing : undoing[i].shot = p.shot}
           i    == CHOOSE k \in mine : \A o \in mine : k <= o
       IN IF mine = {} THEN UNCHANGED <<copy, chosen, undoing>>
          ELSE /\ undoing' = SubSeq(undoing, 1, i - 1) \o SubSeq(undoing, i + 1, Len(undoing))
               /\ IF p.shot \in Held THEN ApplyLocal(p.shot, undoing[i].was) ELSE UNCHANGED <<copy, chosen>>
    /\ UNCHANGED <<pick, at, opened, unsent, reads, events, recent, writeCount, readCount>>

\* undoLast sends at once, and leaves a debounce that still runs; its answer is not looked at
UndoLast ==
    /\ undoing # <<>> /\ WithinTraffic
    /\ writeCount' = writeCount + 1
    /\ undoing' = Tail(undoing)
    /\ LET e == Head(undoing)
       IN IF e.shot \in Held
          THEN /\ ApplyLocal(e.shot, e.was)
               /\ recent' = recent \cup {e.shot}
               /\ posts' = posts \cup {[n |-> writeCount', shot |-> e.shot, to |-> e.was, served |-> FALSE,
                                        final |-> NoShot, demoted |-> {}]}
               /\ crossed' = (crossed \/ posts # {} \/ reads # {} \/ e.shot \in DOMAIN unsent)
          ELSE UNCHANGED <<copy, chosen, recent, posts, crossed>>
    /\ UNCHANGED <<pick, at, opened, unsent, reads, events, readCount>>

\* onImagePickState: dropped as an echo, or written over the copy
Deliver ==
    /\ events # <<>> /\ events' = Tail(events)
    /\ LET e == Head(events)
       IN /\ IF e.shot \in Held \ recent
             THEN copy' = [copy EXCEPT ![e.shot] = e.to] /\ chosen' = e.final
             ELSE UNCHANGED <<copy, chosen>>
          /\ crossed' = (crossed \/ (e.other /\ e.shot \in recent))
    /\ UNCHANGED <<pick, at, opened, unsent, posts, reads, recent, undoing, writeCount, readCount>>

\* 2 s after the last judgment of the image
EchoEnds(s) ==
    /\ s \in recent
    /\ recent' = recent \ {s}
    /\ UNCHANGED <<pick, at, copy, chosen, opened, unsent, posts, reads, events, undoing, crossed,
                   writeCount, readCount>>

StoreNext ==
    \/ \E d \in DecksOf : OpenAgain(d) \/ OpenSession(d)
    \/ Opened \/ CloseSession \/ JobEnds
    \/ \E r \in reads : ReadServed(r) \/ ReadArrives(r) \/ ReadFails(r)
    \/ \E p \in posts : Serve(p) \/ Answered(p) \/ PostFails(p)
    \/ \E s \in Shots, st \in States : OtherTab(s, st) \/ JudgeImage(s, st)
    \/ \E s \in Shots : Send(s) \/ EchoEnds(s)
    \/ UndoLast \/ Deliver

StoreSpec == StoreInit /\ [][StoreNext]_storeVars

-----------------------------------------------------------------------------
Settled == DOMAIN unsent = {} /\ posts = {} /\ reads = {} /\ events = <<>> /\ opened = NoSession

\* when all is answered and no call crossed another, the marks on screen are
\* the server's: the optimistic judgment, the answer, the undo and the events
\* of the store's own writes and of other tabs add up
MarksAreServers == Settled /\ ~crossed => \A s \in Held : copy[s] = pick[s]

\* and so is the final the session names ("server is source of truth")
FinalIsServers == Settled /\ ~crossed /\ copy # NoCopy => chosen = FinalIn(pick, at)
=============================================================================
