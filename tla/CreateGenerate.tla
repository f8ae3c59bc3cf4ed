--------------------------- MODULE CreateGenerate ---------------------------
(***************************************************************************)
(* Presses of Generate for a single POST (CreatePage's handleGenerate and  *)
(* submitSingle) with the captcha gate they share (useCaptchaGate and the  *)
(* modal it shows).  "submitting" is set only when the POST is built, so a *)
(* second press can start while the first awaits the catalog or the        *)
(* precheck.                                                               *)
(***************************************************************************)
EXTENDS Integers, FiniteSets

CONSTANTS
    Presses,    \* presses under way at the same time
    MaxRequests \* bound: request ids and captcha tokens

VARIABLES
    press,      \* each press: where it waits
    wire,       \* the request id and the token its POST carries
    requestId,  \* clientRequestIdRef, or 0
    issued,     \* ids made so far
    submitting,
    resolver,   \* resolverRef: the press the modal serves, or none
    shown,      \* showModal
    widget,     \* the token the widget holds, or 0
    earned,     \* tokens the user has earned
    consumed,   \* tokens a POST has carried, with the count
    midFlight,  \* inFlightRef of the gate
    jobs,       \* request ids the server has made a job for
    confirmed,  \* request ids whose job the page was told of
    forgotten,  \* ids dropped by Clear, or by the success of another id
    left        \* the page was left for the archive

genVars == <<press, wire, requestId, issued, submitting, resolver, shown, widget, earned, consumed,
             midFlight, jobs, confirmed, forgotten, left>>

NoPress == "none"
Nothing == [id |-> 0, token |-> 0]
Places  == {"idle", "fresh", "precheck", "modal", "post", "again", "remodal", "repost"}

GenTypeOK ==
    /\ press \in [Presses -> Places]
    /\ wire \in [Presses -> [id : 0..MaxRequests, token : 0..MaxRequests]]
    /\ requestId \in 0..MaxRequests /\ issued \in 0..MaxRequests
    /\ {submitting, shown, midFlight, left} \subseteq BOOLEAN /\ forgotten \subseteq 1..MaxRequests
    /\ resolver \in Presses \cup {NoPress}
    /\ widget \in 0..MaxRequests /\ earned \in 0..MaxRequests
    /\ consumed \in [1..MaxRequests -> 0..2]
    /\ confirmed \subseteq jobs /\ jobs \subseteq 1..MaxRequests

GenInit ==
    /\ press = [p \in Presses |-> "idle"] /\ wire = [p \in Presses |-> Nothing]
    /\ requestId = 0 /\ issued = 0 /\ submitting = FALSE
    /\ resolver = NoPress /\ shown = FALSE /\ widget = 0 /\ earned = 0
    /\ consumed = [k \in 1..MaxRequests |-> 0]
    /\ midFlight = FALSE
    /\ jobs = {} /\ confirmed = {} /\ forgotten = {} /\ left = FALSE

Goto(p, place) == press' = [press EXCEPT ![p] = place]

-----------------------------------------------------------------------------
\* the button: disabled while submitting; a stale catalog is read again first
Generate(p) ==
    /\ ~left /\ ~submitting /\ press[p] = "idle"
    /\ Goto(p, "fresh")
    /\ UNCHANGED <<wire, requestId, issued, submitting, resolver, shown, widget, earned, consumed,
                   midFlight, jobs, confirmed, forgotten, left>>

Freshened(p) ==
    /\ press[p] = "fresh"
    /\ Goto(p, "precheck")
    /\ UNCHANGED <<wire, requestId, issued, submitting, resolver, shown, widget, earned, consumed,
                   midFlight, jobs, confirmed, forgotten, left>>

\* a closed modal keeps its token until it opens again
OpenModalStale(p) == resolver' = p /\ shown' = TRUE /\ UNCHANGED widget

\* openModalAndWait: the promise of whoever waited before is forgotten; the
\* widget of a modal that was closed starts without a token
OpenModal(p) ==
    /\ resolver' = p /\ shown' = TRUE
    /\ widget' = IF shown THEN widget ELSE 0

Carry(id, token) ==
    consumed' = IF token = 0 \/ consumed[token] = 2 THEN consumed
                ELSE [consumed EXCEPT ![token] = @ + 1]

\* submitSingle builds the payload: the id of the last press that was not
\* answered, or a new one
Post(p, token) ==
    /\ requestId # 0 \/ issued < MaxRequests
    /\ issued' = IF requestId = 0 THEN issued + 1 ELSE issued
    /\ requestId' = IF requestId = 0 THEN issued + 1 ELSE requestId
    /\ wire' = [wire EXCEPT ![p] = [id |-> requestId', token |-> token]]
    /\ Carry(requestId', token)
    /\ Goto(p, "post")
    /\ submitting' = TRUE

\* the precheck asks for no captcha, or fails
Precheck(p) ==
    /\ press[p] = "precheck"
    /\ Post(p, 0)
    /\ UNCHANGED <<resolver, shown, widget, earned, midFlight, jobs, confirmed, forgotten, left>>

PrecheckAsks(p) ==
    /\ press[p] = "precheck"
    /\ OpenModal(p)
    /\ Goto(p, "modal")
    /\ UNCHANGED <<wire, requestId, issued, submitting, earned, consumed, midFlight, jobs, confirmed,
                   forgotten, left>>

-----------------------------------------------------------------------------
(* The modal *)

\* the widget hands a token over, or takes it back when it expires
Solve ==
    /\ shown /\ widget = 0 /\ earned < MaxRequests
    /\ earned' = earned + 1 /\ widget' = earned + 1
    /\ UNCHANGED <<press, wire, requestId, issued, submitting, resolver, shown, consumed, midFlight, jobs,
                   confirmed, forgotten, left>>

Expire ==
    /\ shown /\ widget # 0
    /\ widget' = 0
    /\ UNCHANGED <<press, wire, requestId, issued, submitting, resolver, shown, earned, consumed, midFlight,
                   jobs, confirmed, forgotten, left>>

\* Continue or Enter
Continue ==
    /\ shown /\ widget # 0 /\ resolver # NoPress
    /\ shown' = FALSE /\ resolver' = NoPress
    /\ IF press[resolver] = "modal"
       THEN Post(resolver, widget) /\ UNCHANGED midFlight
       ELSE /\ wire' = [wire EXCEPT ![resolver].token = widget]
            /\ Carry(wire[resolver].id, widget)
            /\ Goto(resolver, "repost")
            /\ midFlight' = FALSE
            /\ UNCHANGED <<requestId, issued, submitting>>
    /\ UNCHANGED <<widget, earned, jobs, confirmed, forgotten, left>>

\* Cancel or Escape: CAPTCHA_CANCELLED is shown
CloseModal ==
    /\ shown /\ resolver # NoPress
    /\ shown' = FALSE /\ resolver' = NoPress
    /\ Goto(resolver, "idle")
    /\ IF press[resolver] = "modal" THEN UNCHANGED <<submitting, midFlight>>
       ELSE submitting' = FALSE /\ midFlight' = FALSE
    /\ UNCHANGED <<wire, requestId, issued, widget, earned, consumed, jobs, confirmed, forgotten, left>>

-----------------------------------------------------------------------------
(* Answers *)

Ends(p) == Goto(p, "idle") /\ submitting' = FALSE

\* the answer carries a job: a fresh id next time, and off to the archive
Accepted(p) ==
    /\ press[p] \in {"post", "repost"}
    /\ jobs' = jobs \cup {wire[p].id} /\ confirmed' = confirmed \cup {wire[p].id}
    /\ requestId' = 0
    /\ forgotten' = forgotten \cup ({requestId} \ {0, wire[p].id})
    /\ left' = TRUE
    /\ Ends(p)
    /\ UNCHANGED <<wire, issued, resolver, shown, widget, earned, consumed, midFlight>>

\* every answer, good or bad, makes the next press a new request
ErrorAndForget(p) ==
    /\ press[p] \in {"post", "repost"}
    /\ \/ UNCHANGED jobs
       \/ jobs' = jobs \cup {wire[p].id}
    /\ requestId' = 0
    /\ Ends(p)
    /\ UNCHANGED <<wire, issued, resolver, shown, widget, earned, consumed, midFlight, confirmed, forgotten,
                   left>>

\* an error, with or without a job behind it; the id stays for the next press
Error(p) ==
    /\ press[p] \in {"post", "repost"}
    /\ \/ UNCHANGED jobs
       \/ jobs' = jobs \cup {wire[p].id}
    /\ Ends(p)
    /\ UNCHANGED <<wire, requestId, issued, resolver, shown, widget, earned, consumed, midFlight, confirmed,
                   forgotten, left>>

\* CAPTCHA_REQUIRED though the precheck asked for none: the gate is asked
\* again, unless another press is asking it
Refused(p) ==
    /\ press[p] = "post"
    /\ IF midFlight THEN Ends(p) /\ UNCHANGED midFlight
       ELSE Goto(p, "again") /\ midFlight' = TRUE /\ UNCHANGED submitting
    /\ UNCHANGED <<wire, requestId, issued, resolver, shown, widget, earned, consumed, jobs, confirmed,
                   forgotten, left>>

\* the gate has cleared meanwhile: the refusal is shown
Cleared(p) ==
    /\ press[p] = "again"
    /\ midFlight' = FALSE
    /\ Ends(p)
    /\ UNCHANGED <<wire, requestId, issued, resolver, shown, widget, earned, consumed, jobs, confirmed,
                   forgotten, left>>

AskAgain(p) ==
    /\ press[p] = "again"
    /\ OpenModal(p)
    /\ Goto(p, "remodal")
    /\ UNCHANGED <<wire, requestId, issued, submitting, earned, consumed, midFlight, jobs, confirmed,
                   forgotten, left>>

\* the Clear button drops the id
ClearForm ==
    /\ ~left /\ requestId # 0
    /\ requestId' = 0 /\ forgotten' = forgotten \cup {requestId}
    /\ UNCHANGED <<press, wire, issued, submitting, resolver, shown, widget, earned, consumed, midFlight,
                   jobs, confirmed, left>>

GenNext ==
    \/ Solve \/ Expire \/ Continue \/ CloseModal \/ ClearForm
    \/ \E p \in Presses :
          \/ Generate(p) \/ Freshened(p) \/ Precheck(p) \/ PrecheckAsks(p)
          \/ Accepted(p) \/ Error(p) \/ Refused(p) \/ Cleared(p) \/ AskAgain(p)

GenSpec == GenInit /\ [][GenNext]_genVars

-----------------------------------------------------------------------------
\* A job whose answer was lost is asked for again by the next press, with the
\* id the server knows it by: nothing is made twice although the page never
\* heard of it, as long as nobody cleared the form or finished another press.
UnansweredIsRetried == jobs \ confirmed \subseteq {requestId} \cup forgotten

\* A captcha token, good for one use, is carried by one POST only, whichever
\* press the modal ends up serving.
TokenSentOnce == \A k \in DOMAIN consumed : consumed[k] <= 1

GenerateSafe == UnansweredIsRetried /\ TokenSentOnce
=============================================================================
