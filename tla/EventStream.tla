----------------------------- MODULE EventStream -----------------------------
(***************************************************************************)
(* The event stream of one browser tab: the SSE client with its retries    *)
(* and watchdog, the store that owns it, and the hub of the server with    *)
(* its replay buffer and the bounded queue of every connection.            *)
(*                                                                         *)
(* A slot is one connection, with its ends apart: the client may be gone   *)
(* while the generator of the server still believes in it, and the other   *)
(* way round.  The locks of the hub are never held across an await, so a   *)
(* broadcast is one step of the event loop.  Heartbeats only prevent the   *)
(* watchdog from firing: a stalled slot is one that gets none.             *)
(***************************************************************************)
EXTENDS Integers, Sequences, SequencesExt, FiniteSets, Filter

CONSTANTS
    Slots,       \* connections that may exist at a time
    MaxEvents,   \* bound: events broadcast to the user
    QueueMax,    \* _CLIENT_QUEUE_MAX, 256 in the code
    WireMax,     \* bound: events between the generator and the reader
    MaxPerUser,  \* SSE_MAX_CONNECTIONS_PER_USER
    LostAfter,   \* failures in a row that show the overlay, 5 in the code
    MaxFaults    \* bound: network failures, stalls and rival connections

ASSUME StreamAssumption ==
    /\ Slots \subseteq Nat \ {0}
    /\ {MaxEvents, QueueMax, WireMax, MaxPerUser, LostAfter, MaxFaults} \subseteq Nat
    /\ MaxPerUser > 0 /\ LostAfter > 0

VARIABLES
    token,      \* the token in storage, shared with the other tabs
    authed,     \* isAuthenticated, as App has last rendered it
    status,     \* connectionState.status
    attempts,   \* failures in a row, counted to LostAfter
    timer,      \* retryTimer is set
    watchdog,   \* watchdogTimer is set
    stopped,    \* the client will never connect again, or there is none
    ctrl,       \* the slot abortCtrl belongs to, or 0
    lastId,     \* lastEventId, or 0
    loop,       \* the connect() call on each slot
    sent,       \* the headers of each request: token and Last-Event-ID
    stalled,    \* slots on which no byte arrives any more
    seq,        \* _next_seq
    buffer,     \* _buffer of the user
    bucket,     \* _clients of the user, oldest first; 0 is another tab's
    gen,        \* the generator serving each slot
    replay,     \* what it still has to replay
    queue,      \* its queue
    wire,       \* what it has yielded and the client has not read
    faults,
    heard,      \* history: the events the present client has handed on
    overrun,    \* history: events a full queue of this tab has refused
    expired     \* history: events trimmed from the buffer

clientVars == <<token, authed, status, attempts, timer, watchdog, stopped, ctrl, lastId, heard>>
serverVars == <<seq, buffer, bucket, gen, replay, queue, overrun, expired>>
wireVars   == <<loop, sent, stalled, wire>>
vars == <<clientVars, serverVars, wireVars, faults>>

Warning   == 0
Terminate == -1
NoRequest == [token |-> "none", last |-> 0]

TypeOK ==
    /\ token \in {"none", "good", "bad"}
    /\ status \in {"idle", "connecting", "open", "reconnecting", "lost", "unauthorized"}
    /\ attempts \in 0 .. LostAfter
    /\ {authed, timer, watchdog, stopped} \subseteq BOOLEAN
    /\ ctrl \in Slots \cup {0}
    /\ lastId \in 0 .. seq
    /\ loop \in [Slots -> {"none", "fetching", "reading", "aborted"}]
    /\ gen \in [Slots -> {"none", "hello", "live", "ended"}]
    /\ \A s \in Slots : Len(queue[s]) <= QueueMax /\ Len(wire[s]) <= WireMax
    /\ faults \in 0 .. MaxFaults

Init ==
    /\ token = "none" /\ authed = FALSE
    /\ status = "idle" /\ attempts = 0
    /\ timer = FALSE /\ watchdog = FALSE /\ stopped = TRUE
    /\ ctrl = 0 /\ lastId = 0
    /\ loop = [s \in Slots |-> "none"]
    /\ sent = [s \in Slots |-> NoRequest]
    /\ stalled = {}
    /\ seq = 0 /\ buffer = <<>> /\ bucket = <<>>
    /\ gen = [s \in Slots |-> "none"]
    /\ replay = [s \in Slots |-> <<>>]
    /\ queue = [s \in Slots |-> <<>>]
    /\ wire = [s \in Slots |-> <<>>]
    /\ faults = 0
    /\ heard = {} /\ overrun = {} /\ expired = {}

Free(s) == loop[s] = "none" /\ gen[s] = "none"
Fault   == faults < MaxFaults /\ faults' = faults + 1

-----------------------------------------------------------------------------
(* The client *)

\* retries that end once the overlay shows
ScheduleRetryUntilLost ==
    LET n == IF attempts < LostAfter THEN attempts + 1 ELSE attempts IN
    IF stopped
    THEN UNCHANGED <<attempts, status, timer>>
    ELSE /\ attempts' = n
         /\ status' = IF n >= LostAfter THEN "lost" ELSE "reconnecting"
         /\ timer' = (n < LostAfter)

\* scheduleRetry, unless the client has been stopped
ScheduleRetry ==
    LET n == IF attempts < LostAfter THEN attempts + 1 ELSE attempts IN
    IF stopped
    THEN UNCHANGED <<attempts, status, timer>>
    ELSE /\ attempts' = n
         /\ status' = IF n >= LostAfter THEN "lost" ELSE "reconnecting"
         /\ timer' = TRUE

\* connect() with n failures behind it: without a token it only waits.
\* Calls is what becomes of the loops of the other slots.
Open(n, Calls, tok, last) ==
    IF tok = "none"
    THEN /\ status' = "connecting"
         /\ loop' = Calls
         /\ UNCHANGED <<ctrl, sent, stalled, wire>>
    ELSE \E s \in Slots :
         /\ Free(s) /\ Calls[s] = "none"
         /\ \A r \in Slots : Free(r) => s <= r
         /\ status' = IF n = 0 THEN "connecting" ELSE "reconnecting"
         /\ ctrl' = s
         /\ loop' = [Calls EXCEPT ![s] = "fetching"]
         /\ sent' = [sent EXCEPT ![s] = [token |-> tok, last |-> last]]
         /\ stalled' = stalled \ {s}
         /\ wire' = [wire EXCEPT ![s] = <<>>]

\* abortCtrl.abort(): a pending fetch returns at once, a reader later
Abort(Calls) ==
    [s \in Slots |-> CASE s # ctrl -> Calls[s]
                       [] Calls[s] = "fetching" -> "none"
                       [] Calls[s] = "reading" -> "aborted"
                       [] OTHER -> Calls[s]]

\* the store's connect() at login: a new client, without a Last-Event-ID
SignIn ==
    /\ ~authed
    /\ token' = "good" /\ authed' = TRUE
    /\ stopped' = FALSE /\ attempts' = 0 /\ timer' = FALSE /\ watchdog' = FALSE
    /\ lastId' = 0 /\ heard' = {}
    /\ Open(0, [s \in Slots |-> "none"], "good", 0)
    /\ UNCHANGED <<serverVars, faults>>

\* disconnect(), when the tab logs out: close() aborts and forgets all
SignOut ==
    /\ authed
    /\ token' = "none" /\ authed' = FALSE
    /\ stopped' = TRUE /\ timer' = FALSE /\ watchdog' = FALSE /\ ctrl' = 0
    /\ loop' = [s \in Slots |-> "none"]
    /\ status' = "idle" /\ attempts' = 0
    /\ lastId' = 0 /\ heard' = {}
    /\ UNCHANGED <<sent, stalled, wire, serverVars, faults>>

\* another tab logs out or in, or the token expires
OtherTabSigns ==
    /\ authed
    /\ \E t \in {"none", "good", "bad"} \ {token} : token' = t
    /\ Fault
    /\ UNCHANGED <<authed, status, attempts, timer, watchdog, stopped, ctrl, lastId,
                   heard, wireVars, serverVars>>

RetryFires ==
    /\ timer /\ timer' = FALSE
    /\ Open(attempts, loop, token, lastId)
    /\ UNCHANGED <<token, authed, attempts, watchdog, stopped, lastId, heard, serverVars, faults>>

\* with the button shown while the stream is open too
RetryWhileOpen ==
    /\ status \in {"lost", "open"}
    /\ timer' = FALSE /\ attempts' = 0
    /\ Open(0, Abort(loop), token, lastId)
    /\ UNCHANGED <<token, authed, watchdog, stopped, lastId, heard, serverVars, faults>>

\* "retry now", on the overlay that shows while the connection is lost
RetryNow ==
    /\ status = "lost"
    /\ timer' = FALSE /\ attempts' = 0
    /\ Open(0, Abort(loop), token, lastId)
    /\ UNCHANGED <<token, authed, watchdog, stopped, lastId, heard, serverVars, faults>>

\* fetch rejects, also when the server has accepted, or the answer is an error other than 401
\* and 403
FetchFails(s) ==
    /\ loop[s] = "fetching"
    /\ Fault
    /\ loop' = [loop EXCEPT ![s] = "none"]
    /\ ScheduleRetry
    /\ UNCHANGED <<token, authed, watchdog, stopped, ctrl, lastId, heard, sent, stalled,
                   wire, serverVars>>

Refused(s) ==
    /\ loop[s] = "fetching" /\ sent[s].token = "bad"
    /\ loop' = [loop EXCEPT ![s] = "none"]
    /\ stopped' = TRUE /\ status' = "unauthorized"
    /\ UNCHANGED <<token, authed, attempts, timer, watchdog, ctrl, lastId, heard, sent,
                   stalled, wire, serverVars, faults>>

Opened(s) ==
    /\ loop[s] = "fetching" /\ gen[s] # "none"
    /\ loop' = [loop EXCEPT ![s] = "reading"]
    /\ attempts' = 0 /\ status' = "open" /\ watchdog' = TRUE
    /\ UNCHANGED <<token, authed, timer, stopped, ctrl, lastId, heard, sent, stalled, wire,
                   serverVars, faults>>

\* handleBlock: remember the id, hand the event on
Read(s) ==
    /\ loop[s] = "reading" /\ s \notin stalled /\ wire[s] # <<>>
    /\ wire' = [wire EXCEPT ![s] = Tail(@)]
    /\ LET id == Head(wire[s]) IN
       /\ lastId' = IF id > 0 THEN id ELSE lastId
       /\ heard' = IF id > 0 THEN heard \cup {id} ELSE heard
    /\ UNCHANGED <<token, authed, status, attempts, timer, watchdog, stopped, ctrl, loop,
                   sent, stalled, serverVars, faults>>

\* the end of the read loop: the finally block, then a retry
Ended(s) ==
    /\ loop' = [loop EXCEPT ![s] = "none"]
    /\ watchdog' = FALSE
    /\ ScheduleRetry
    /\ UNCHANGED <<token, authed, stopped, ctrl, lastId, heard, sent, stalled, wire>>

ReadEnds(s) ==
    /\ \/ loop[s] = "aborted"
       \/ /\ loop[s] = "reading" /\ s \notin stalled
          /\ gen[s] = "ended" /\ wire[s] = <<>>
    /\ Ended(s)
    /\ UNCHANGED <<serverVars, faults>>

ConnectionDrops(s) ==
    /\ loop[s] = "reading"
    /\ Fault
    /\ Ended(s)
    /\ UNCHANGED serverVars

Stall(s) ==
    /\ loop[s] = "reading" /\ s \notin stalled
    /\ Fault
    /\ stalled' = stalled \cup {s}
    /\ UNCHANGED <<clientVars, loop, sent, wire, serverVars>>

\* a watchdog that looks at the timer of the next retry
WatchdogDuringRetry ==
    /\ watchdog /\ timer
    /\ UNCHANGED vars

\* no byte for two heartbeats
WatchdogFires ==
    /\ watchdog
    /\ \A s \in Slots : loop[s] = "reading" => s \in stalled
    /\ ctrl # 0 /\ loop[ctrl] = "reading"
    /\ loop' = Abort(loop)
    /\ UNCHANGED <<clientVars, sent, stalled, wire, serverVars, faults>>

-----------------------------------------------------------------------------
(* The hub *)

\* a farewell that is not dropped by a full queue
FarewellForced(q) == q \o <<Warning, Terminate>>

\* _send_warning and the terminator, each dropped by a full queue
Farewell(q) ==
    LET w == IF Len(q) < QueueMax THEN Append(q, Warning) ELSE q IN
    IF Len(w) < QueueMax THEN Append(w, Terminate) ELSE w

\* _register: append to the bucket, evict the oldest beyond the cap
Register(c) ==
    LET b == Append(bucket, c)
        out == IF Len(b) > MaxPerUser THEN {b[i] : i \in 1 .. Len(b) - MaxPerUser} ELSE {}
    IN /\ bucket' = IF Len(b) > MaxPerUser
                    THEN SubSeq(b, Len(b) - MaxPerUser + 1, Len(b)) ELSE b
       /\ queue' = [s \in Slots |-> IF s = c THEN <<>>
                                    ELSE IF s \in out THEN Farewell(queue[s]) ELSE queue[s]]

\* the request arrives: the generator registers and yields its hello
Accept(s) ==
    /\ loop[s] = "fetching" /\ gen[s] = "none" /\ sent[s].token = "good"
    /\ Register(s)
    /\ gen' = [gen EXCEPT ![s] = "hello"]
    /\ UNCHANGED <<clientVars, wireVars, seq, buffer, replay, overrun, expired, faults>>

\* newer by more than one
ReplayLate(s) ==
    /\ gen[s] = "hello"
    /\ gen' = [gen EXCEPT ![s] = "live"]
    /\ replay' = [replay EXCEPT ![s] = Kept(buffer, sent[s].last + 2 .. seq)]
    /\ sent' = [sent EXCEPT ![s] = NoRequest]
    /\ UNCHANGED <<clientVars, loop, stalled, wire, seq, buffer, bucket, queue, overrun, expired, faults>>

\* _replay_for: what the buffer holds above Last-Event-ID, or all of it
Replay(s) ==
    /\ gen[s] = "hello"
    /\ gen' = [gen EXCEPT ![s] = "live"]
    /\ replay' = [replay EXCEPT ![s] = Kept(buffer, sent[s].last + 1 .. seq)]
    /\ sent' = [sent EXCEPT ![s] = NoRequest]
    /\ UNCHANGED <<clientVars, loop, stalled, wire, seq, buffer, bucket, queue, overrun, expired, faults>>

SendReplayed(s) ==
    /\ gen[s] = "live" /\ replay[s] # <<>> /\ Len(wire[s]) < WireMax
    /\ wire' = [wire EXCEPT ![s] = Append(@, Head(replay[s]))]
    /\ replay' = [replay EXCEPT ![s] = Tail(@)]
    /\ UNCHANGED <<clientVars, loop, sent, stalled, seq, buffer, bucket, gen, queue,
                   overrun, expired, faults>>

SendQueued(s) ==
    /\ gen[s] = "live" /\ replay[s] = <<>> /\ queue[s] # <<>> /\ Len(wire[s]) < WireMax
    /\ queue' = [queue EXCEPT ![s] = Tail(@)]
    /\ IF Head(queue[s]) = Terminate
       THEN /\ gen' = [gen EXCEPT ![s] = "ended"]
            /\ bucket' = RemoveFirst(bucket, s)
            /\ UNCHANGED wire
       ELSE /\ wire' = [wire EXCEPT ![s] = Append(@, Head(queue[s]))]
            /\ UNCHANGED <<gen, bucket>>
    /\ UNCHANGED <<clientVars, loop, sent, stalled, seq, buffer, replay, overrun, expired, faults>>

\* the server notices that the client has gone: _unregister
Forget(s) ==
    /\ loop[s] = "none" /\ gen[s] # "none"
    /\ gen' = [gen EXCEPT ![s] = "none"]
    /\ bucket' = RemoveFirst(bucket, s)
    /\ queue' = [queue EXCEPT ![s] = <<>>]
    /\ replay' = [replay EXCEPT ![s] = <<>>]
    /\ wire' = [wire EXCEPT ![s] = <<>>]
    /\ sent' = [sent EXCEPT ![s] = NoRequest]
    /\ stalled' = stalled \ {s}
    /\ UNCHANGED <<clientVars, loop, seq, buffer, overrun, expired, faults>>

\* broadcast_to_user: trim by age, record, fan out.  A full queue refuses
\* the event, and the warning and the terminator that should follow it.
Broadcast ==
    /\ seq < MaxEvents
    /\ seq' = seq + 1
    /\ \E k \in 0 .. Len(buffer) :
         /\ buffer' = Append(SubSeq(buffer, k + 1, Len(buffer)), seq + 1)
         /\ expired' = expired \cup {buffer[i] : i \in 1 .. k}
    /\ queue' = [s \in Slots |->
                   IF s \in ToSet(bucket) /\ Len(queue[s]) < QueueMax
                   THEN Append(queue[s], seq + 1) ELSE queue[s]]
    /\ overrun' = overrun \cup {seq + 1 : s \in {c \in Slots \cap ToSet(bucket) :
                                                   Len(queue[c]) >= QueueMax}}
    /\ UNCHANGED <<clientVars, wireVars, bucket, gen, replay, faults>>

\* another tab of the user connects, or leaves
RivalConnects ==
    /\ Fault
    /\ Register(0)
    /\ UNCHANGED <<clientVars, wireVars, seq, buffer, gen, replay, overrun, expired>>

RivalLeaves ==
    /\ \E i \in 1 .. Len(bucket) : bucket[i] = 0 /\ bucket' = RemoveAt(bucket, i)
    /\ UNCHANGED <<clientVars, wireVars, seq, buffer, gen, replay, queue, overrun, expired, faults>>

-----------------------------------------------------------------------------
Client ==
    \/ SignIn \/ SignOut \/ OtherTabSigns \/ RetryFires \/ RetryNow \/ WatchdogFires
    \/ \E s \in Slots : \/ FetchFails(s) \/ Refused(s) \/ Opened(s) \/ Read(s)
                        \/ ReadEnds(s) \/ ConnectionDrops(s) \/ Stall(s)
Hub ==
    \/ Broadcast \/ RivalConnects \/ RivalLeaves
    \/ \E s \in Slots : \/ Accept(s) \/ Replay(s) \/ SendReplayed(s) \/ SendQueued(s)
                        \/ Forget(s)
Next == Client \/ Hub

\* timers fire, a request is answered, the reader and the generator of a
\* connection go on while they can, and one without a reader is noticed
Fairness ==
    /\ WF_vars(RetryFires) /\ WF_vars(WatchdogFires)
    /\ \A s \in Slots :
         /\ WF_vars(Refused(s) \/ Accept(s) \/ Opened(s))
         /\ WF_vars(Read(s) \/ ReadEnds(s))
         /\ WF_vars(Replay(s) \/ SendReplayed(s) \/ SendQueued(s))
         /\ WF_vars(Forget(s))

Spec == Init /\ [][Next]_vars /\ Fairness

-----------------------------------------------------------------------------
Chains == Cardinality({s \in Slots : loop[s] # "none"}) + (IF timer THEN 1 ELSE 0)

\* At any time the client holds one connection, or waits for one retry:
\* never two streams, which would hand every event on twice and reconnect
\* twice as often, and a reader always has its watchdog.
OneStream ==
    /\ Chains <= 1
    /\ (\E s \in Slots : loop[s] = "reading") => watchdog /\ status = "open"

\* Whoever reads and has caught up with the server has heard every event
\* broadcast to the user, across any number of reconnections, but for those
\* older than the replay buffer and those a full queue refused.
CaughtUpHasAll ==
    \A s \in Slots :
        loop[s] = "reading" /\ gen[s] = "live" /\ s \in ToSet(bucket)
            /\ replay[s] = <<>> /\ queue[s] = <<>> /\ wire[s] = <<>>
        => 1 .. seq \subseteq heard \cup overrun \cup expired

\* A client that is retrying gets its stream back in the end, unless the
\* user leaves, the server refuses the token, or there is no token.
RetryEnds ==
    status \in {"reconnecting", "lost"} ~> status \in {"open", "unauthorized", "idle", "connecting"}

\* A stream on which nothing arrives any more is given up: the watchdog
\* covers every reader, so a proxy that swallows the bytes is noticed.
Deaf == \E s \in stalled : loop[s] = "reading"
StallIsNoticed == Deaf ~> ~Deaf

\* What the hub says of a full queue: the tab is dropped and replays the
\* rest from the buffer, so nothing the buffer still holds is missed.
OverrunIsReplayed ==
    \A s \in Slots :
        loop[s] = "reading" /\ gen[s] = "live" /\ s \in ToSet(bucket)
            /\ replay[s] = <<>> /\ queue[s] = <<>> /\ wire[s] = <<>>
        => 1 .. seq \subseteq heard \cup expired
=============================================================================
