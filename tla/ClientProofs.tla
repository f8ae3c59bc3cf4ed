---------------------------- MODULE ClientProofs ----------------------------
(***************************************************************************)
(* The safety of a session, of what is submitted from the Create page, and *)
(* of the work a user has not submitted or saved yet, for any number of    *)
(* tabs, presses, requests, models, readings of the catalog, numbers and   *)
(* texts typed, sources, edits and preferences.                            *)
(*                                                                         *)
(* Each part has an inductive invariant over its own variables (SessionInv,*)
(* PressInv, ModelInv, SizeInv, CountInv; DraftInv, MaskInv, CanvasInv,    *)
(* SettingsInv).  A step of the client is a step of one part and leaves    *)
(* the variables of the others alone, so each of them holds whichever part *)
(* is on screen.                                                           *)
(***************************************************************************)
EXTENDS MCClient, FilterProofs, FunctionTheorems

LEMMA ClientNumbers ==
    /\ IsFiniteSet(Models) /\ "none" \notin Models /\ "none" \notin Presses
    /\ MaxRequests \in Nat /\ MaxParam \in Nat /\ MaxServerChanges \in Nat /\ MaxCount \in Nat
    /\ MaxRequests > 0 /\ MaxParam > 0 /\ MaxServerChanges > 0 /\ MaxCount > 0
    /\ Typed \subseteq Nat /\ Preferred \in Models \cup {"none"}
  BY ClientAssumption

-----------------------------------------------------------------------------
(* The session                                                             *)

\* An impersonation tab sends its own token and leaves its own session only;
\* a tab is born without a request and without a departure.
SessionInv ==
    /\ SessionTypeOK
    /\ \A t \in Tabs :
          /\ perTab[t] # NoToken => leaving[t] # "all"
          /\ perTab[t] # NoToken /\ call[t] # NoCall => call[t].token = perTab[t]
          /\ call[t] # NoCall => call[t].kind # "none"
          /\ page[t] = "closed" => call[t] = NoCall /\ leaving[t] = "no"

LEMMA SessionStarts == SessionInit => SessionInv
PROOF
    <1> SUFFICES ASSUME SessionInit PROVE SessionInv OBVIOUS
    <1>1. PICK t \in Tabs : page = [u \in Tabs |-> IF u = t THEN "login" ELSE "closed"]
      BY DEF SessionInit
    <1>2. page \in [Tabs -> {"closed", "login", "app"}] BY <1>1
    <1>3. SessionTypeOK BY <1>2 DEF SessionInit, SessionTypeOK, NoCall, Idle, Waiting
    <1> QED BY <1>3 DEF SessionInit, SessionInv

\* what ending a session for a tab does to the invariant
LEMMA LogoutKeeps ==
    ASSUME SessionInv, NEW t \in Tabs, ForceLogout(t), UNCHANGED <<form, dead, given>>
    PROVE  SessionInv'
PROOF
    <1>1. SessionTypeOK' BY DEF SessionInv, SessionTypeOK, ForceLogout, NoCall
    <1> QED BY <1>1 DEF SessionInv, SessionTypeOK, ForceLogout

LEMMA SessionStep ==
    ASSUME SessionInv, SessionNext \/ UNCHANGED sessionVars
    PROVE  SessionInv'
PROOF
    <1> USE DEF SessionInv
    <1>0. CASE UNCHANGED sessionVars BY <1>0 DEF sessionVars, SessionTypeOK
    <1>1. ASSUME NEW k \in Tokens \cup ImpTokens, Reject(k) PROVE SessionInv'
      BY <1>1 DEF Reject, SessionTypeOK
    <1>2. ASSUME NEW t \in Tabs, OpenTab(t) PROVE SessionInv' BY <1>2 DEF OpenTab, SessionTypeOK
    <1>3. ASSUME NEW t \in Tabs,
                 Submit(t) \/ Checked(t) \/ LoginFails(t) \/ CaptchaDemanded(t) \/ CaptchaDone(t)
          PROVE  SessionInv'
      <2>1. /\ form' \in [Tabs -> Idle \cup Waiting]
            /\ UNCHANGED <<stored, perTab, page, call, leaving, dead, given>>
        BY <1>3 DEF Submit, Checked, LoginFails, CaptchaDemanded, CaptchaDone, SessionTypeOK,
                    Idle, Waiting
      <2> QED BY <2>1 DEF SessionTypeOK
    <1>4. ASSUME NEW t \in Tabs, LoginSucceeds(t) PROVE SessionInv'
      BY <1>4 DEF LoginSucceeds, SessionTypeOK, Idle
    <1>5. ASSUME NEW t \in Tabs, Request(t) PROVE SessionInv'
      <2>1. PICK k \in {"any", "password"} :
                call' = [call EXCEPT ![t] = [token |-> TokenOf(t), kind |-> k]]
        BY <1>5 DEF Request
      <2>2. UNCHANGED <<stored, perTab, page, form, leaving, dead, given>> /\ page[t] = "app"
        BY <1>5 DEF Request
      <2>3. SessionTypeOK' BY <2>1, <2>2 DEF SessionTypeOK, TokenOf
      <2> QED BY <2>1, <2>2, <2>3 DEF SessionTypeOK, TokenOf
    <1>6. ASSUME NEW t \in Tabs, Answer(t) PROVE SessionInv'
      <2>1. CASE Kicks(call[t]) BY <1>6, <2>1, LogoutKeeps DEF Answer
      <2>2. CASE ~Kicks(call[t])
        <3>1. /\ call' = [call EXCEPT ![t] = NoCall]
              /\ UNCHANGED <<stored, perTab, page, form, leaving, dead, given>>
          BY <1>6, <2>2 DEF Answer
        <3>2. NoCall \in [token : Tokens \cup ImpTokens \cup {NoToken}, kind : {"none", "any", "password"}]
          BY DEF NoCall
        <3>3. SessionTypeOK' BY <3>1, <3>2 DEF SessionTypeOK
        <3> QED BY <3>1, <3>3 DEF SessionTypeOK
      <2> QED BY <2>1, <2>2
    <1>7. ASSUME NEW t \in Tabs, Leave(t) PROVE SessionInv' BY <1>7 DEF Leave, SessionTypeOK
    <1>8. ASSUME NEW t \in Tabs, Left(t) PROVE SessionInv'
      <2>1. CASE TokenOf(t) \in dead BY <1>8, <2>1, LogoutKeeps DEF Left
      <2>2. CASE TokenOf(t) \notin dead
        <3>1. /\ perTab' = [perTab EXCEPT ![t] = NoToken] /\ stored' \in {NoToken, stored}
              /\ leaving' = [leaving EXCEPT ![t] = "no"] /\ page' = [page EXCEPT ![t] = "login"]
              /\ UNCHANGED <<form, call, dead, given>>
          BY <1>8, <2>2 DEF Left
        <3>2. SessionTypeOK' BY <3>1 DEF SessionTypeOK
        <3> QED BY <3>1, <3>2 DEF SessionTypeOK
      <2> QED BY <2>1, <2>2
    <1>9. ASSUME NEW t \in Tabs, NEW u \in Tabs \ {t}, Impersonate(t, u) PROVE SessionInv'
      BY <1>9 DEF Impersonate, SessionTypeOK
    <1> QED BY <1>0, <1>1, <1>2, <1>3, <1>4, <1>5, <1>6, <1>7, <1>8, <1>9 DEF SessionNext

\* The action of ExitKeepsAdmin.
ExitKeeps ==
    perTab' # perTab =>
        \A t \in Tabs : perTab[t] # NoToken /\ perTab'[t] = NoToken /\ stored # NoToken
         => stored' = stored \/ perTab[t] \in dead

\* The action of EndsForCause.
Cause ==
    stored # NoToken /\ stored' = NoToken =>
         \E t \in Tabs : \/ leaving[t] # "no"
                         \/ call[t].kind # "none" /\ (call[t].token = NoToken \/ call[t].token \in dead)

LEMMA ExitKeepsStep == ASSUME SessionInv, SessionNext PROVE ExitKeeps
PROOF
    <1> SUFFICES ASSUME NEW t \in Tabs, perTab[t] # NoToken, perTab'[t] = NoToken, stored # NoToken
                 PROVE  stored' = stored \/ perTab[t] \in dead
      BY DEF ExitKeeps
    <1> USE DEF SessionInv
    <1>1. PICK u \in Tabs : Answer(u) \/ Left(u) \/ \E v \in Tabs \ {u} : Impersonate(u, v)
      BY DEF SessionNext, Reject, OpenTab, Submit, Checked, LoginFails, CaptchaDemanded, CaptchaDone,
             LoginSucceeds, Request, Leave
    <1>2. CASE Answer(u)
      <2>1. u = t /\ Kicks(call[t]) BY <1>2 DEF Answer, ForceLogout, SessionTypeOK
      <2>2. call[t].token = perTab[t] BY <1>2, <2>1 DEF Answer
      <2> QED BY <2>1, <2>2 DEF Kicks
    <1>3. CASE Left(u)
      <2>1. u = t BY <1>3 DEF Left, ForceLogout, SessionTypeOK
      <2> QED BY <1>3, <2>1 DEF Left, TokenOf
    <1>4. CASE \E v \in Tabs \ {u} : Impersonate(u, v) BY <1>4 DEF Impersonate
    <1> QED BY <1>1, <1>2, <1>3, <1>4

LEMMA CauseStep == ASSUME SessionInv, SessionNext PROVE Cause
PROOF
    <1> SUFFICES ASSUME stored # NoToken, stored' = NoToken
                 PROVE  \E t \in Tabs :
                          \/ leaving[t] # "no"
                          \/ call[t].kind # "none" /\ (call[t].token = NoToken \/ call[t].token \in dead)
      BY DEF Cause
    <1> USE DEF SessionInv
    <1>1. PICK u \in Tabs : Answer(u) \/ Left(u)
      BY SessionAssumption
      DEF SessionNext, Reject, OpenTab, Submit, Checked, LoginFails, CaptchaDemanded, CaptchaDone,
             LoginSucceeds, Request, Leave, Impersonate
    <1>2. CASE Answer(u)
      <2>1. Kicks(call[u]) /\ call[u] # NoCall BY <1>2 DEF Answer
      <2> QED BY <2>1 DEF Kicks
    <1>3. CASE Left(u) BY <1>3 DEF Left
    <1> QED BY <1>1, <1>2, <1>3

\* Leaving an impersonation keeps the admin's session, and a stored session ends
\* only when somebody leaves or a token of its own is rejected (AuthContext,
\* forceLogout and the 401 handling of api.js, in every tab and between them).
THEOREM SessionEndsRightly == Spec => SessionSteps
PROOF
    <1>1. Init => SessionInv BY SessionStarts DEF Init
    <1>2. [Next]_clientVars => SessionNext \/ UNCHANGED sessionVars
      <2>1. Next => SessionNext \/ UNCHANGED sessionVars BY ONLY DEF Next
      <2>2. UNCHANGED clientVars => UNCHANGED sessionVars BY ONLY DEF clientVars
      <2> QED BY <2>1, <2>2
    <1>3. SessionInv /\ [Next]_clientVars => SessionInv' BY <1>2, SessionStep
    <1>4. SessionInv /\ [Next]_clientVars => [ExitKeeps]_sessionVars /\ [Cause]_sessionVars
      BY <1>2, ExitKeepsStep, CauseStep
    <1>5. Spec => [][ExitKeeps]_sessionVars /\ [][Cause]_sessionVars
      BY <1>1, <1>3, <1>4, PTL DEF Spec
    <1> QED BY <1>5 DEF SessionSteps, ExitKeepsAdmin, EndsForCause, ExitKeeps, Cause

-----------------------------------------------------------------------------
(* Presses of Generate                                                     *)

Sent == {"post", "again", "remodal", "repost"}

\* What a press has sent is the present id, or one that is accounted for; the modal
\* serves a press that waits for it, and holds a token no POST has carried.
PressInv ==
    /\ Generate!GenTypeOK
    /\ Generate!GenerateSafe
    /\ \A p \in Presses : press[p] \in Sent =>
          wire[p].id # 0 /\ wire[p].id \in {requestId} \cup forgotten \cup confirmed
    /\ resolver # "none" => press[resolver] \in {"modal", "remodal"}
    /\ \A k \in 1 .. MaxRequests : k > earned => consumed[k] = 0
    /\ pressShown /\ widget # 0 => widget <= earned /\ consumed[widget] = 0

\* the types, of the values a step may give them
GenValues ==
    /\ press \in [Presses -> Generate!Places]
    /\ wire \in [Presses -> [id : 0 .. MaxRequests, token : 0 .. MaxRequests]]
    /\ requestId \in 0 .. MaxRequests /\ issued \in 0 .. MaxRequests
    /\ forgotten \subseteq 1 .. MaxRequests
    /\ resolver \in Presses \cup {"none"}
    /\ widget \in 0 .. MaxRequests /\ earned \in 0 .. MaxRequests
    /\ consumed \in [1 .. MaxRequests -> 0 .. 2]
    /\ confirmed \subseteq jobs /\ jobs \subseteq 1 .. MaxRequests
GenFlags == submitting \in BOOLEAN /\ pressShown \in BOOLEAN /\ midFlight \in BOOLEAN /\ left \in BOOLEAN

LEMMA GenParts == Generate!GenTypeOK <=> GenValues /\ GenFlags
PROOF
    <1>1. {submitting, pressShown, midFlight, left} \subseteq BOOLEAN <=> GenFlags
      BY Zenon DEF GenFlags
    <1>2. Generate!GenTypeOK <=> GenValues /\ {submitting, pressShown, midFlight, left} \subseteq BOOLEAN
      BY ONLY Zenon DEF Generate!GenTypeOK, GenValues, Generate!NoPress
    <1> QED BY <1>1, <1>2

\* the rest of the invariant, without the flags but pressShown
Promises ==
    /\ \A k \in jobs : k \in confirmed \/ k = requestId \/ k \in forgotten
    /\ \A k \in 1 .. MaxRequests : consumed[k] <= 1 /\ (k > earned => consumed[k] = 0)
    /\ \A p \in Presses : press[p] \in Sent =>
          wire[p].id # 0 /\ wire[p].id \in {requestId} \cup forgotten \cup confirmed
    /\ resolver # "none" => press[resolver] \in {"modal", "remodal"}
    /\ pressShown /\ widget # 0 => widget <= earned /\ consumed[widget] = 0

LEMMA PressParts == PressInv <=> GenValues /\ GenFlags /\ Promises
PROOF
    <1>1. Generate!GenTypeOK => DOMAIN consumed = 1 .. MaxRequests BY DEF Generate!GenTypeOK
    <1>2. Generate!UnansweredIsRetried <=> \A k \in jobs : k \in confirmed \/ k = requestId \/ k \in forgotten
      BY DEF Generate!UnansweredIsRetried
    <1>3. Generate!GenTypeOK => (Generate!TokenSentOnce <=> \A k \in 1 .. MaxRequests : consumed[k] <= 1)
      BY <1>1 DEF Generate!TokenSentOnce
    <1> QED BY <1>2, <1>3, GenParts DEF PressInv, Promises, Generate!GenerateSafe

LEMMA GenFlagsStep == GenFlags /\ Generate!GenNext => GenFlags'
PROOF
    <1> SUFFICES ASSUME GenFlags, Generate!GenNext PROVE GenFlags' OBVIOUS
    <1> USE DEF GenFlags
    <1>1. CASE Generate!Solve \/ Generate!Expire \/ Generate!Continue \/ Generate!CloseModal \/ Generate!ClearForm
      BY ONLY <1>1, GenFlags, Zenon
      DEF GenFlags, Generate!Solve, Generate!Expire, Generate!Continue, Generate!CloseModal, Generate!ClearForm, Generate!Post
    <1>2. ASSUME NEW p \in Presses,
                 Generate!Generate(p) \/ Generate!Freshened(p) \/ Generate!Precheck(p)
                 \/ Generate!PrecheckAsks(p) \/ Generate!Accepted(p)
          PROVE  GenFlags'
      BY ONLY <1>2, GenFlags, Zenon
      DEF GenFlags, Generate!Generate, Generate!Freshened, Generate!Precheck, Generate!PrecheckAsks,
          Generate!Accepted, Generate!Post, Generate!OpenModal, Generate!Ends
    <1>3. ASSUME NEW p \in Presses,
                 Generate!Error(p) \/ Generate!Refused(p) \/ Generate!Cleared(p) \/ Generate!AskAgain(p)
          PROVE  GenFlags'
      BY ONLY <1>3, GenFlags, Zenon
      DEF GenFlags, Generate!Error, Generate!Refused, Generate!Cleared, Generate!AskAgain,
          Generate!OpenModal, Generate!Ends
    <1> QED BY <1>1, <1>2, <1>3 DEF Generate!GenNext

\* a press goes on, or stops, and nothing else changes
LEMMA PressMoves ==
    ASSUME GenValues, Promises, NEW p \in Presses, NEW place \in Generate!Places,
           Generate!Goto(p, place), UNCHANGED <<wire, requestId, issued, consumed, jobs, confirmed, forgotten>>,
           UNCHANGED earned, place \in Sent => press[p] \in Sent,
           \/ UNCHANGED <<resolver, pressShown, widget>> /\ (resolver = p => place \in {"modal", "remodal"})
           \/ Generate!OpenModal(p) /\ place \in {"modal", "remodal"}
           \/ resolver' = "none" /\ pressShown' = FALSE /\ UNCHANGED widget
    PROVE  GenValues' /\ Promises'
PROOF
    <1> USE ClientNumbers
    <1>1. GenValues' BY DEF GenValues, Generate!Goto, Generate!OpenModal
    <1>2. \A q \in Presses : press'[q] = IF q = p THEN place ELSE press[q]
      BY DEF GenValues, Generate!Goto
    <1>3. resolver' # "none" => press'[resolver'] \in {"modal", "remodal"}
      BY <1>2 DEF Promises, Generate!OpenModal, GenValues
    <1>4. pressShown' /\ widget' # 0 => widget' <= earned' /\ consumed'[widget'] = 0
      BY DEF Promises, Generate!OpenModal
    <1>5. \A q \in Presses : press'[q] \in Sent =>
             wire'[q].id # 0 /\ wire'[q].id \in {requestId'} \cup forgotten' \cup confirmed'
      BY <1>2 DEF Promises
    <1>6. /\ \A k \in jobs' : k \in confirmed' \/ k = requestId' \/ k \in forgotten'
          /\ \A k \in 1 .. MaxRequests : consumed'[k] <= 1 /\ (k > earned' => consumed'[k] = 0)
      BY DEF Promises
    <1> QED BY <1>1, <1>3, <1>4, <1>5, <1>6 DEF Promises

\* a token that no POST has carried is carried
LEMMA Carries ==
    ASSUME GenValues, Promises, NEW token \in 0 .. MaxRequests, NEW id, Generate!Carry(id, token),
           token # 0 => token <= earned /\ consumed[token] = 0
    PROVE  /\ consumed' \in [1 .. MaxRequests -> 0 .. 2]
           /\ \A k \in 1 .. MaxRequests : consumed'[k] <= 1 /\ (k > earned => consumed'[k] = 0)
PROOF
    <1> USE ClientNumbers
    <1>1. CASE token = 0 BY <1>1 DEF Generate!Carry, GenValues, Promises
    <1>2. CASE token # 0
      <2>1. token \in 1 .. MaxRequests /\ consumed[token] = 0 /\ token <= earned BY <1>2
      <2>2. consumed' = [consumed EXCEPT ![token] = 1] BY <1>2, <2>1 DEF Generate!Carry, GenValues
      <2>3. \A k \in 1 .. MaxRequests : consumed'[k] = IF k = token THEN 1 ELSE consumed[k]
        BY <2>1, <2>2 DEF GenValues
      <2> QED BY <2>1, <2>2, <2>3 DEF GenValues, Promises
    <1> QED BY <1>1, <1>2

\* a POST is built
LEMMA Posts ==
    ASSUME GenValues, Promises, NEW p \in Presses, NEW token \in 0 .. MaxRequests,
           Generate!Post(p, token), token # 0 => token <= earned /\ consumed[token] = 0,
           UNCHANGED <<widget, earned, jobs, confirmed, forgotten>>,
           \/ UNCHANGED <<resolver, pressShown>> /\ press[p] = "precheck" /\ token = 0
           \/ resolver' = "none" /\ pressShown' = FALSE
    PROVE  GenValues' /\ Promises'
PROOF
    <1> USE ClientNumbers
    <1>1. /\ consumed' \in [1 .. MaxRequests -> 0 .. 2]
          /\ \A k \in 1 .. MaxRequests : consumed'[k] <= 1 /\ (k > earned => consumed'[k] = 0)
      BY Carries DEF Generate!Post
    <1>2. /\ requestId' \in 0 .. MaxRequests /\ issued' \in 0 .. MaxRequests /\ requestId' # 0
          /\ requestId # 0 => requestId' = requestId
      BY DEF Generate!Post, GenValues
    <1>3. \A q \in Presses : /\ press'[q] = IF q = p THEN "post" ELSE press[q]
                             /\ q = p => wire'[q].id = requestId' /\ wire'[q].token = token
                             /\ q # p => wire'[q] = wire[q]
      BY DEF Generate!Post, Generate!Goto, GenValues
    <1>4. GenValues'
      <2>1. press' \in [Presses -> Generate!Places]
        BY DEF Generate!Post, Generate!Goto, GenValues, Generate!Places
      <2>2. wire' \in [Presses -> [id : 0 .. MaxRequests, token : 0 .. MaxRequests]]
        BY <1>2 DEF Generate!Post, GenValues
      <2> QED BY <1>1, <1>2, <2>1, <2>2 DEF GenValues
    <1>5. \A q \in Presses : press'[q] \in Sent =>
             wire'[q].id # 0 /\ wire'[q].id \in {requestId'} \cup forgotten' \cup confirmed'
      BY <1>2, <1>3 DEF Promises
    <1>6. \A k \in jobs' : k \in confirmed' \/ k = requestId' \/ k \in forgotten'
      BY <1>2 DEF Promises, GenValues
    <1>7. resolver' # "none" => press'[resolver'] \in {"modal", "remodal"}
      BY <1>3 DEF Promises, GenValues
    <1>8. pressShown' /\ widget' # 0 => widget' <= earned' /\ consumed'[widget'] = 0
      <2>1. CASE UNCHANGED <<resolver, pressShown>> /\ press[p] = "precheck" /\ token = 0
        <3>1. consumed' = consumed BY <2>1 DEF Generate!Post, Generate!Carry
        <3> QED BY <2>1, <3>1 DEF Promises
      <2>2. CASE resolver' = "none" /\ pressShown' = FALSE BY <2>2
      <2> QED BY <2>1, <2>2
    <1> QED BY <1>1, <1>4, <1>5, <1>6, <1>7, <1>8 DEF Promises

LEMMA PressStarts == Generate!GenInit => PressInv
PROOF
    <1> SUFFICES ASSUME Generate!GenInit PROVE PressInv OBVIOUS
    <1>1. GenFlags BY Zenon DEF GenFlags, Generate!GenInit
    <1>2. GenValues
      BY ClientNumbers DEF Generate!GenInit, GenValues, Generate!Nothing, Generate!Places, Generate!NoPress
    <1>3. Promises BY ClientNumbers DEF Generate!GenInit, Promises, Sent, Generate!NoPress
    <1> QED BY <1>1, <1>2, <1>3, PressParts

LEMMA PressAnswered ==
    ASSUME GenValues, Promises, NEW p \in Presses, press[p] \in {"post", "repost"},
           Generate!Goto(p, "idle"), jobs' = jobs \/ jobs' = jobs \cup {wire[p].id},
           \/ confirmed' = confirmed
           \/ confirmed' = confirmed \cup {wire[p].id} /\ jobs' = jobs \cup {wire[p].id},
           UNCHANGED <<wire, issued, resolver, pressShown, widget, earned, consumed>>,
           \/ UNCHANGED <<requestId, forgotten>>
           \/ /\ requestId' = 0 /\ wire[p].id \in confirmed'
              /\ forgotten' = forgotten \cup ({requestId} \ {0, wire[p].id})
    PROVE  GenValues' /\ Promises'
PROOF
    <1> USE ClientNumbers
    <1>h. /\ jobs' = jobs \/ jobs' = jobs \cup {wire[p].id}
          /\ \/ confirmed' = confirmed
             \/ confirmed' = confirmed \cup {wire[p].id} /\ jobs' = jobs \cup {wire[p].id}
          /\ \/ UNCHANGED <<requestId, forgotten>>
             \/ requestId' = 0 /\ forgotten' = forgotten \cup ({requestId} \ {0, wire[p].id})
      OBVIOUS
    <1>1. wire[p].id \in 1 .. MaxRequests /\ wire[p].id \in {requestId} \cup forgotten \cup confirmed
      <2>1. wire[p] \in [id : 0 .. MaxRequests, token : 0 .. MaxRequests] BY DEF GenValues
      <2>2. press[p] \in Sent BY DEF Sent
      <2> QED BY <2>1, <2>2 DEF Promises
    <1>2. \A q \in Presses : press'[q] = IF q = p THEN "idle" ELSE press[q]
      BY DEF GenValues, Generate!Goto
    <1>3. GenValues'
      <2>1. press' \in [Presses -> Generate!Places] BY DEF GenValues, Generate!Goto, Generate!Places
      <2>2. confirmed \subseteq jobs /\ jobs \subseteq 1 .. MaxRequests /\ forgotten \subseteq 1 .. MaxRequests
            /\ requestId \in 0 .. MaxRequests
        BY DEF GenValues
      <2>3. confirmed' \subseteq jobs' /\ jobs' \subseteq 1 .. MaxRequests BY ONLY <1>h, <1>1, <2>2
      <2>5. {requestId} \ {0, wire[p].id} \subseteq 1 .. MaxRequests BY ONLY <2>2, ClientNumbers
      <2>6. 0 \in 0 .. MaxRequests BY ClientNumbers
      <2>7. forgotten' \subseteq 1 .. MaxRequests /\ requestId' \in 0 .. MaxRequests
        BY ONLY <1>h, <2>2, <2>5, <2>6
      <2> QED BY <2>1, <2>3, <2>7 DEF GenValues
    <1>4. \A k : k # 0 /\ k \in {requestId} \cup forgotten \cup confirmed =>
                   k \in {requestId'} \cup forgotten' \cup confirmed'
      OBVIOUS
    <1>5. \A k \in jobs' : k \in confirmed' \/ k = requestId' \/ k \in forgotten'
      <2>1. ASSUME NEW k \in jobs' PROVE k \in confirmed' \/ k = requestId' \/ k \in forgotten'
        <3>1. k \in jobs \/ k = wire[p].id BY ONLY <1>h, <2>1
        <3>2. k # 0
          <4>1. jobs \subseteq 1 .. MaxRequests BY DEF GenValues
          <4> QED BY <1>1, <3>1, <4>1
        <3>3. k \in {requestId} \cup forgotten \cup confirmed BY <1>1, <3>1 DEF Promises
        <3> QED BY <1>4, <3>2, <3>3
      <2> QED BY <2>1
    <1>6. \A q \in Presses : press'[q] \in Sent =>
             wire'[q].id # 0 /\ wire'[q].id \in {requestId'} \cup forgotten' \cup confirmed'
      BY <1>2, <1>4 DEF Promises, Sent
    <1>7. resolver' # "none" => press'[resolver'] \in {"modal", "remodal"}
      BY <1>2 DEF Promises, GenValues
    <1> QED BY <1>3, <1>5, <1>6, <1>7 DEF Promises

LEMMA PressStep ==
    ASSUME PressInv, Generate!GenNext \/ UNCHANGED pressVars
    PROVE  PressInv'
PROOF
    <1> USE ClientNumbers
    <1>i. GenValues /\ GenFlags /\ Promises BY PressParts
    <1>q. SUFFICES ASSUME Generate!GenNext PROVE GenValues' /\ Promises'
      <2>1. CASE Generate!GenNext
        <3>1. GenFlags' BY <1>i, <2>1, GenFlagsStep
        <3>2. (GenValues /\ GenFlags /\ Promises)' BY <2>1, <3>1
        <3>3. PressInv' <=> (GenValues /\ GenFlags /\ Promises)' BY PressParts, PTL
        <3> QED BY <3>2, <3>3
      <2>2. CASE UNCHANGED pressVars
        <3>1. GenFlags' BY <1>i, <2>2, Zenon DEF pressVars, GenFlags
        <3>2. GenValues' /\ Promises' BY <1>i, <2>2 DEF pressVars, GenValues, Promises
        <3>3. PressInv' <=> (GenValues /\ GenFlags /\ Promises)' BY PressParts, PTL
        <3> QED BY <3>1, <3>2, <3>3
      <2> QED BY <2>1, <2>2
    <1>1. CASE Generate!Solve
      <2>1. GenValues' BY <1>i, <1>1 DEF Generate!Solve, GenValues
      <2>2. earned + 1 \in 1 .. MaxRequests /\ earned < earned + 1 BY <1>i, <1>1 DEF Generate!Solve, GenValues
      <2>3. consumed[earned + 1] = 0 BY <1>i, <2>2 DEF Promises
      <2>4. \A k \in 1 .. MaxRequests : consumed'[k] <= 1 /\ (k > earned' => consumed'[k] = 0)
        BY <1>i, <1>1 DEF Generate!Solve, Promises, GenValues
      <2>5. widget' = earned + 1 /\ earned' = earned + 1 /\ consumed' = consumed /\ pressShown'
        BY <1>1 DEF Generate!Solve
      <2>6. widget' <= earned' /\ consumed'[widget'] = 0 BY <2>2, <2>3, <2>5
      <2>7. Promises' BY <1>i, <1>1, <2>4, <2>6 DEF Generate!Solve, Promises
      <2> QED BY <2>1, <2>7
    <1>2. CASE Generate!Expire BY <1>i, <1>2 DEF Generate!Expire, GenValues, Promises
    <1>3. CASE Generate!Continue
      <2>1. /\ pressShown /\ widget # 0 /\ resolver # "none" /\ resolver \in Presses
            /\ widget \in 0 .. MaxRequests /\ widget <= earned /\ consumed[widget] = 0
            /\ press[resolver] \in {"modal", "remodal"}
            /\ pressShown' = FALSE /\ resolver' = "none"
            /\ UNCHANGED <<widget, earned, jobs, confirmed, forgotten>>
        BY <1>i, <1>3 DEF Generate!Continue, Generate!NoPress, GenValues, Promises
      <2>2. CASE press[resolver] = "modal"
        <3>1. Generate!Post(resolver, widget) BY <1>3, <2>2 DEF Generate!Continue
        <3> QED BY <1>i, <2>1, <3>1, Posts
      <2>3. CASE press[resolver] = "remodal"
        <3>1. /\ wire' = [wire EXCEPT ![resolver].token = widget]
              /\ Generate!Carry(wire[resolver].id, widget) /\ Generate!Goto(resolver, "repost")
              /\ UNCHANGED <<requestId, issued>>
          BY <1>3, <2>3 DEF Generate!Continue
        <3>2. /\ consumed' \in [1 .. MaxRequests -> 0 .. 2]
              /\ \A k \in 1 .. MaxRequests : consumed'[k] <= 1 /\ (k > earned' => consumed'[k] = 0)
          BY <1>i, <2>1, <3>1, Carries
        <3>3. \A q \in Presses : /\ press'[q] = IF q = resolver THEN "repost" ELSE press[q]
                                 /\ wire'[q].id = wire[q].id
          BY <1>i, <2>1, <3>1 DEF Generate!Goto, GenValues
        <3>4. GenValues'
          <4>1. press' \in [Presses -> Generate!Places]
            BY <1>i, <2>1, <3>1 DEF Generate!Goto, GenValues, Generate!Places
          <4>2. wire' \in [Presses -> [id : 0 .. MaxRequests, token : 0 .. MaxRequests]]
            BY <1>i, <2>1, <3>1 DEF GenValues
          <4> QED BY <1>i, <2>1, <3>1, <3>2, <4>1, <4>2 DEF GenValues
        <3>5. \A q \in Presses : press'[q] \in Sent =>
                 wire'[q].id # 0 /\ wire'[q].id \in {requestId'} \cup forgotten' \cup confirmed'
          <4>1. press[resolver] \in Sent BY <2>3 DEF Sent
          <4> QED BY <1>i, <2>1, <3>1, <3>3, <4>1 DEF Promises
        <3>6. \A k \in jobs' : k \in confirmed' \/ k = requestId' \/ k \in forgotten'
          BY <1>i, <2>1, <3>1 DEF Promises
        <3> QED BY <2>1, <3>2, <3>4, <3>5, <3>6 DEF Promises
      <2> QED BY <2>1, <2>2, <2>3
    <1>4. CASE Generate!CloseModal
      <2>1. resolver \in Presses BY <1>i, <1>4 DEF Generate!CloseModal, GenValues, Generate!NoPress
      <2>2. "idle" \in Generate!Places /\ "idle" \notin Sent BY DEF Generate!Places, Sent
      <2>3. /\ Generate!Goto(resolver, "idle") /\ pressShown' = FALSE /\ resolver' = "none"
            /\ UNCHANGED <<wire, requestId, issued, widget, earned, consumed, jobs, confirmed, forgotten>>
        BY <1>4 DEF Generate!CloseModal, Generate!NoPress
      <2> QED BY <1>i, <2>1, <2>2, <2>3, PressMoves
    <1>5. CASE Generate!ClearForm BY <1>i, <1>5 DEF Generate!ClearForm, GenValues, Promises
    <1>6. ASSUME NEW p \in Presses,
                 Generate!Generate(p) \/ Generate!Freshened(p) \/ Generate!Cleared(p) \/ Generate!Refused(p)
          PROVE  GenValues' /\ Promises'
      <2>1. PICK place \in {"fresh", "precheck", "idle", "again"} :
               /\ Generate!Goto(p, place) /\ (place = "again" => press[p] = "post")
          BY <1>6 DEF Generate!Generate, Generate!Freshened, Generate!Cleared, Generate!Refused, Generate!Ends
      <2>2. /\ press[p] \in {"idle", "fresh", "again", "post"}
            /\ UNCHANGED <<wire, requestId, issued, consumed, jobs, confirmed, forgotten>>
            /\ UNCHANGED <<earned, resolver, pressShown, widget>>
        BY <1>6 DEF Generate!Generate, Generate!Freshened, Generate!Cleared, Generate!Refused, Generate!Ends
      <2>3. resolver # p BY <1>i, <2>2 DEF Promises
      <2>4. place \in Generate!Places BY <2>1 DEF Generate!Places
      <2>5. place \in Sent => press[p] \in Sent BY <2>1 DEF Sent
      <2> QED BY <1>i, <2>1, <2>2, <2>3, <2>4, <2>5, PressMoves
    <1>7. ASSUME NEW p \in Presses, Generate!PrecheckAsks(p) \/ Generate!AskAgain(p)
          PROVE  GenValues' /\ Promises'
      <2>1. PICK place \in {"modal", "remodal"} :
               Generate!Goto(p, place) /\ (place = "remodal" => press[p] = "again")
          BY <1>7 DEF Generate!PrecheckAsks, Generate!AskAgain
      <2>2. /\ UNCHANGED <<wire, requestId, issued, consumed, jobs, confirmed, forgotten>>
            /\ UNCHANGED earned /\ Generate!OpenModal(p)
        BY <1>7 DEF Generate!PrecheckAsks, Generate!AskAgain
      <2>3. place \in Generate!Places BY <2>1 DEF Generate!Places
      <2>4. place \in Sent => press[p] \in Sent BY <2>1 DEF Sent
      <2> QED BY <1>i, <2>1, <2>2, <2>3, <2>4, PressMoves
    <1>8. ASSUME NEW p \in Presses, Generate!Precheck(p) PROVE GenValues' /\ Promises'
      <2>1. /\ Generate!Post(p, 0) /\ press[p] = "precheck"
            /\ UNCHANGED <<widget, earned, jobs, confirmed, forgotten>> /\ UNCHANGED <<resolver, pressShown>>
        BY <1>8 DEF Generate!Precheck
      <2>2. 0 \in 0 .. MaxRequests OBVIOUS
      <2> QED BY <1>i, <2>1, <2>2, Posts
    <1>9. ASSUME NEW p \in Presses, Generate!Accepted(p) \/ Generate!Error(p)
          PROVE  GenValues' /\ Promises'
      <2>1. CASE Generate!Accepted(p) BY <1>i, <2>1, PressAnswered DEF Generate!Accepted, Generate!Ends
      <2>2. CASE Generate!Error(p) BY <1>i, <2>2, PressAnswered DEF Generate!Error, Generate!Ends
      <2> QED BY <1>9, <2>1, <2>2
    <1> QED BY <1>q, <1>1, <1>2, <1>3, <1>4, <1>5, <1>6, <1>7, <1>8, <1>9 DEF Generate!GenNext

-----------------------------------------------------------------------------
(* Models and their parameters                                             *)

Chosable == Models \cup {"none"}
Offer    == [state : {"on", "off", "absent"}, max : 1 .. MaxParam]
Asked    == [on : BOOLEAN, model : Chosable, last : Chosable, then : BOOLEAN]
Renders  == [model : Chosable, param : 1 .. MaxParam, max : 1 .. MaxParam, ready : BOOLEAN]

ModelValues ==
    /\ offered \in [Models -> Offer] /\ catalog \in [Models -> Offer]
    /\ sel \in Chosable /\ param \in 1 .. MaxParam
    /\ kept \in [Models -> 0 .. MaxParam] /\ lastModel \in Chosable
    /\ fetch \in [Fetches -> Asked]
    /\ pressed \in Renders
    /\ changes \in 0 .. MaxServerChanges
ModelFlags == modelMounted \in BOOLEAN /\ modelArmed \in BOOLEAN /\ reverted \in BOOLEAN

ModelInv == ModelValues /\ ModelFlags /\ Model!RestIsRemembered

LEMMA ModelParts == ModelInv => Model!ModelsTypeOK /\ Model!ModelsSafe
PROOF
    <1> SUFFICES ASSUME ModelInv PROVE Model!ModelsTypeOK /\ Model!ModelsSafe OBVIOUS
    <1>1. {modelMounted, modelArmed, reverted} \subseteq BOOLEAN BY Zenon DEF ModelInv, ModelFlags
    <1>2. \A f \in Fetches : fetch[f].model \in Models \cup {"none"} /\ fetch[f].last \in Models \cup {"none"}
      BY DEF ModelInv, ModelValues, Asked, Chosable
    <1>3. /\ offered \in [Models -> Offer] /\ catalog \in [Models -> Offer]
          /\ sel \in Models \cup {"none"} /\ param \in 1 .. MaxParam
          /\ kept \in [Models -> 0 .. MaxParam] /\ lastModel \in Models \cup {"none"}
          /\ changes \in 0 .. MaxServerChanges
          /\ pressed \in [model : Models \cup {"none"}, param : 1 .. MaxParam,
                         max : 1 .. MaxParam, ready : BOOLEAN]
      BY DEF ModelInv, ModelValues, Chosable, Renders
    <1>4. Model!ModelsTypeOK
      BY ONLY <1>1, <1>2, <1>3, Zenon DEF Model!ModelsTypeOK, Model!Entry, Model!None, Offer
    <1> QED BY <1>4 DEF ModelInv, Model!ModelsSafe

\* the catalog's order is one
LEMMA OrderRanks == Order \in [Models -> Nat]
PROOF
    <1> DEFINE n == Cardinality(Models)
               Ranking(f) == \A k, m \in Models : f[k] = f[m] => k = m
    <1>1. n \in Nat /\ ExistsBijection(1 .. n, Models) BY ClientNumbers, FS_CardinalityType
    <1>2. \E f : f \in Bijection(Models, 1 .. n)
      BY <1>1, Fun_ExistsBijSymmetric DEF ExistsBijection
    <1>3. \E f \in [Models -> 1 .. n] : Ranking(f)
      BY <1>2 DEF Bijection, Injection, IsInjective
    <1>4. Order \in [Models -> 1 .. n] BY <1>3 DEF Order
    <1> QED BY <1>1, <1>4

LEMMA FirstIsListed ==
    ASSUME NEW cat
    PROVE  Model!FirstOf(cat) \in Chosable
PROOF
    <1> DEFINE listed == {m \in Models : cat[m].state # "absent"}
               on     == {m \in listed : cat[m].state = "on"}
               best   == IF on # {} THEN on ELSE listed
    <1>1. best \subseteq Models OBVIOUS
    <1>2. CASE best # {}
      <2> DEFINE ranks == {Order[m] : m \in best}
      <2>1. ranks \in SUBSET Nat /\ ranks # {} BY <1>1, <1>2, OrderRanks
      <2>2. PICK x \in ranks : \A y \in ranks : x <= y BY <2>1, LeastNumber
      <2>3. \E m \in best : \A k \in best : Order[m] <= Order[k] BY <2>2
      <2>4. Model!FirstOf(cat) = CHOOSE m \in best : \A k \in best : Order[m] <= Order[k]
        BY <1>2 DEF Model!FirstOf
      <2> HIDE DEF best
      <2>5. Model!FirstOf(cat) \in best BY <2>3, <2>4
      <2> QED BY <1>1, <2>5 DEF Chosable
    <1>3. CASE best = {} BY <1>3 DEF Model!FirstOf, Model!None, Chosable
    <1> QED BY <1>2, <1>3

LEMMA ModelStarts == Model!ModelsInit => ModelInv
PROOF
    <1> SUFFICES ASSUME Model!ModelsInit PROVE ModelInv OBVIOUS
    <1>1. ModelFlags BY Zenon DEF Model!ModelsInit, ModelFlags
    <1>2. ModelValues
      BY ClientNumbers DEF Model!ModelsInit, ModelValues, Offer, Asked, Chosable, Model!Unknown,
           Model!Idle, Model!None, Model!NotPressed, Renders
    <1>3. Model!RestIsRemembered BY DEF Model!ModelsInit, Model!RestIsRemembered
    <1> QED BY <1>1, <1>2, <1>3 DEF ModelInv

\* persistNow keeps the types and remembers the present parameters
LEMMA Persists ==
    ASSUME ModelValues, Model!Persisted
    PROVE  /\ kept' \in [Models -> 0 .. MaxParam] /\ lastModel' \in Chosable
           /\ sel # "none" => kept'[sel] = param
  BY ClientNumbers DEF ModelValues, Model!Persisted, Chosable, Model!None

\* a model that arrives has its parameters within its bound
LEMMA ArrivesWell ==
    ASSUME ModelValues, kept' \in [Models -> 0 .. MaxParam], NEW m \in Chosable, NEW entry,
           m # "none" => entry.max \in 1 .. MaxParam, Model!Arrives(m, entry)
    PROVE  /\ sel' \in Chosable /\ param' \in 1 .. MaxParam
           /\ modelArmed' \in BOOLEAN /\ (sel' # "none" => modelArmed')
PROOF
    <1> USE ClientNumbers
    <1>1. sel' = m /\ modelArmed' = (m # "none") BY DEF Model!Arrives, Model!None
    <1>2. param' \in 1 .. MaxParam
      <2>1. CASE m = "none" BY <2>1 DEF Model!Arrives, Model!None, ModelValues
      <2>2. CASE m # "none" /\ kept'[m] = 0 BY <2>2 DEF Model!Arrives, Model!None
      <2>3. CASE m # "none" /\ kept'[m] # 0
        <3>1. m \in Models BY <2>3 DEF Chosable
        <3>2. kept'[m] \in 1 .. MaxParam BY <2>3, <3>1
        <3>3. param' = Model!Lesser(kept'[m], entry.max) BY <2>3 DEF Model!Arrives, Model!None
        <3> QED BY <2>3, <3>2, <3>3 DEF Model!Lesser
      <2> QED BY <2>1, <2>2, <2>3
    <1> QED BY <1>1, <1>2

\* what the answer to a refresh leaves selected, remembered and armed
LEMMA ChosenWell ==
    ASSUME ModelValues, ModelFlags, Model!RestIsRemembered, NEW f \in Fetches, Model!Chosen(f)
    PROVE  /\ sel' \in Chosable /\ param' \in 1 .. MaxParam
           /\ kept' \in [Models -> 0 .. MaxParam] /\ lastModel' \in Chosable
           /\ modelArmed' \in BOOLEAN /\ reverted' \in BOOLEAN
           /\ modelMounted /\ sel' # "none" /\ ~modelArmed' /\ ~reverted' => kept'[sel'] = param'
           /\ sel' # sel /\ sel # "none" /\ ~reverted' => kept'[sel] = param
PROOF
    <1> USE ClientNumbers
    <1>0. /\ fetch[f].model \in Chosable /\ fetch[f].last \in Chosable
          /\ \A m \in Models : offered[m].max \in 1 .. MaxParam
      BY DEF ModelValues, Asked, Offer
    <1>1. CASE fetch[f].model # "none" /\ offered[fetch[f].model].state # "absent"
      <2> DEFINE asks == fetch[f].model
      <2>1. /\ UNCHANGED <<kept, lastModel>> /\ reverted' = (reverted \/ asks # sel)
            /\ IF asks = sel THEN Model!Stays ELSE Model!Arrives(asks, offered[asks])
        BY <1>1 DEF Model!Chosen, Model!None
      <2>2. CASE asks = sel
        <3>1. UNCHANGED <<sel, param, modelArmed, kept, lastModel>> /\ reverted' = reverted
          <4>1. reverted' = reverted BY <2>1, <2>2, Zenon DEF ModelFlags
          <4> QED BY <2>1, <2>2, <4>1 DEF Model!Stays
        <3> QED BY <3>1 DEF ModelValues, ModelFlags, Model!RestIsRemembered, Model!None
      <2>3. CASE asks # sel
        <3>1. asks \in Models BY <1>0, <1>1 DEF Chosable
        <3>2. kept' \in [Models -> 0 .. MaxParam] /\ lastModel' \in Chosable
          BY <2>1 DEF ModelValues
        <3>3. reverted' = TRUE BY <2>1, <2>3, Zenon
        <3>4. /\ sel' \in Chosable /\ param' \in 1 .. MaxParam
              /\ modelArmed' \in BOOLEAN /\ (sel' # "none" => modelArmed')
          BY <1>0, <2>1, <2>3, <3>1, <3>2, ArrivesWell DEF Chosable
        <3> QED BY <3>2, <3>3, <3>4
      <2> QED BY <2>2, <2>3
    <1>2. CASE ~(fetch[f].model # "none" /\ offered[fetch[f].model].state # "absent")
      <2> DEFINE m == Model!Fallback(offered, fetch[f].last)
                 entry == IF m = "none" THEN Model!Unknown ELSE offered[m]
      <2>1. /\ Model!Persisted /\ reverted' = reverted
            /\ IF m = sel THEN sel' = m /\ param' = param /\ modelArmed' = FALSE
               ELSE Model!Arrives(m, entry)
        BY <1>2 DEF Model!Chosen, Model!None
      <2>2. m \in Chosable BY <1>0, FirstIsListed DEF Model!Fallback, Chosable
      <2>3. /\ kept' \in [Models -> 0 .. MaxParam] /\ lastModel' \in Chosable
            /\ sel # "none" => kept'[sel] = param
        BY <2>1, Persists
      <2>4. reverted' \in BOOLEAN BY <2>1, Zenon DEF ModelFlags
      <2>5. CASE m = sel
        BY <2>1, <2>2, <2>3, <2>4, <2>5 DEF ModelValues
      <2>6. CASE m # sel
        <3>1. m # "none" => entry.max \in 1 .. MaxParam BY <1>0, <2>2 DEF Chosable
        <3>2. Model!Arrives(m, entry) BY <2>1, <2>6
        <3> HIDE DEF m, entry
        <3>3. /\ sel' \in Chosable /\ param' \in 1 .. MaxParam
              /\ modelArmed' \in BOOLEAN /\ (sel' # "none" => modelArmed')
          BY <2>2, <2>3, <3>1, <3>2, ArrivesWell
        <3> QED BY <2>3, <2>4, <3>3
      <2> QED BY <2>5, <2>6
    <1> QED BY <1>1, <1>2

\* a fetch begins or ends
LEMMA FetchTyped ==
    ASSUME ModelValues, NEW f \in Fetches, NEW a \in Asked, fetch' = [fetch EXCEPT ![f] = a]
    PROVE  fetch' \in [Fetches -> Asked]
  BY DEF ModelValues

LEMMA ModelStep ==
    ASSUME ModelInv, Model!ModelsNext \/ UNCHANGED modelVars
    PROVE  ModelInv'
PROOF
    <1> USE ClientNumbers
    <1>i. ModelValues /\ ModelFlags /\ Model!RestIsRemembered BY DEF ModelInv
    <1>n. "none" \in Chosable /\ Models \subseteq Chosable BY DEF Chosable
    <1>a. Model!Idle \in Asked BY <1>n DEF Model!Idle, Asked, Model!None
    <1>b. Model!NotPressed \in Renders
      BY <1>n DEF Model!NotPressed, Model!None, Renders
    <1>p. \A t : Model!GoesOn(t) => pressed' \in Renders
      BY <1>i DEF Model!GoesOn, ModelValues, Renders
    <1>0. CASE UNCHANGED modelVars
      <2>1. ModelFlags' BY <1>i, <1>0, Zenon DEF modelVars, ModelFlags
      <2>2. ModelValues' /\ Model!RestIsRemembered'
        BY <1>i, <1>0 DEF modelVars, ModelValues, Model!RestIsRemembered
      <2> QED BY <2>1, <2>2 DEF ModelInv
    <1>1. CASE Model!ServerChange
      <2>1. /\ UNCHANGED <<catalog, sel, param, modelMounted, kept, lastModel, modelArmed, fetch, pressed, reverted>>
            /\ changes' = changes + 1 /\ changes < MaxServerChanges
            /\ \E m \in Models : \E e \in Offer : offered' = [offered EXCEPT ![m] = e]
        BY <1>1 DEF Model!ServerChange, Model!Entry, Offer
      <2>2. ModelFlags' BY <1>i, <2>1, Zenon DEF ModelFlags
      <2>3. offered' \in [Models -> Offer] BY <1>i, <2>1 DEF ModelValues
      <2>4. ModelValues' BY <1>i, <2>1, <2>3 DEF ModelValues
      <2>5. Model!RestIsRemembered' BY <1>i, <2>1 DEF Model!RestIsRemembered
      <2> QED BY <2>2, <2>4, <2>5 DEF ModelInv
    <1>2. ASSUME NEW f \in Fetches, Model!Refresh(f) PROVE ModelInv'
      <2> DEFINE a == [on |-> TRUE, model |-> sel, last |-> lastModel, then |-> FALSE]
      <2>1. /\ UNCHANGED <<offered, catalog, sel, param, modelMounted, kept, lastModel, modelArmed, pressed, reverted,
                   changes>>
            /\ fetch' = [fetch EXCEPT ![f] = a]
        BY <1>2 DEF Model!Refresh
      <2>2. a \in Asked BY <1>i DEF Asked, ModelValues
      <2>3. fetch' \in [Fetches -> Asked] BY <1>i, <2>1, <2>2, FetchTyped
      <2>4. ModelFlags' BY <1>i, <2>1, Zenon DEF ModelFlags
      <2>5. ModelValues' BY <1>i, <2>1, <2>3 DEF ModelValues
      <2>6. Model!RestIsRemembered' BY <1>i, <2>1 DEF Model!RestIsRemembered
      <2> QED BY <2>4, <2>5, <2>6 DEF ModelInv
    <1>3. CASE Model!Mount
      <2>1. PICK f \in Fetches :
               fetch' = [fetch EXCEPT ![f] = [on |-> TRUE, model |-> "none", last |-> lastModel, then |-> FALSE]]
        BY <1>3 DEF Model!Mount, Model!None
      <2>2. /\ catalog' = Model!Unknown /\ sel' = "none" /\ param' = 1 /\ pressed' = Model!NotPressed
            /\ UNCHANGED <<offered, kept, lastModel, changes>>
        BY <1>3 DEF Model!Mount, Model!None
      <2>3. ModelFlags' BY <1>i, <1>3, Zenon DEF Model!Mount, ModelFlags
      <2>4. [on |-> TRUE, model |-> "none", last |-> lastModel, then |-> FALSE] \in Asked
        BY <1>i, <1>n DEF Asked, ModelValues
      <2>5. fetch' \in [Fetches -> Asked] BY <1>i, <2>1, <2>4, FetchTyped
      <2>6. catalog' \in [Models -> Offer] BY <2>2 DEF Model!Unknown, Offer
      <2>7. ModelValues'
        BY <1>i, <1>b, <1>n, <2>2, <2>5, <2>6 DEF ModelValues
      <2>8. Model!RestIsRemembered' BY <2>2 DEF Model!RestIsRemembered, Model!None
      <2> QED BY <2>3, <2>7, <2>8 DEF ModelInv
    <1>4. ASSUME NEW f \in Fetches, Model!CatalogRead(f) PROVE ModelInv'
      <2>1. /\ Model!Chosen(f) /\ catalog' = offered /\ Model!GoesOn(fetch[f].then)
            /\ fetch' = [fetch EXCEPT ![f] = Model!Idle] /\ UNCHANGED <<offered, changes>>
            /\ modelMounted' = modelMounted
        BY <1>4 DEF Model!CatalogRead
      <2>2. /\ sel' \in Chosable /\ param' \in 1 .. MaxParam
            /\ kept' \in [Models -> 0 .. MaxParam] /\ lastModel' \in Chosable
            /\ modelArmed' \in BOOLEAN /\ reverted' \in BOOLEAN
            /\ modelMounted /\ sel' # "none" /\ ~modelArmed' /\ ~reverted' => kept'[sel'] = param'
        BY <1>i, <2>1, ChosenWell
      <2>3. fetch' \in [Fetches -> Asked] BY <1>i, <1>a, <2>1, FetchTyped
      <2>4. ModelFlags' BY <1>i, <2>1, <2>2, Zenon DEF ModelFlags
      <2>5. ModelValues' BY <1>i, <1>p, <2>1, <2>2, <2>3 DEF ModelValues
      <2>6. Model!RestIsRemembered' BY <2>1, <2>2 DEF Model!RestIsRemembered, Model!None
      <2> QED BY <2>4, <2>5, <2>6 DEF ModelInv
    <1>5. ASSUME NEW f \in Fetches, Model!CatalogFails(f) PROVE ModelInv'
      <2>1. /\ UNCHANGED <<offered, catalog, sel, param, modelMounted, kept, lastModel, modelArmed, reverted, changes>>
            /\ fetch' = [fetch EXCEPT ![f] = Model!Idle] /\ Model!GoesOn(fetch[f].then)
        BY <1>5 DEF Model!CatalogFails
      <2>2. fetch' \in [Fetches -> Asked] BY <1>i, <1>a, <2>1, FetchTyped
      <2>4. ModelFlags' BY <1>i, <2>1, Zenon DEF ModelFlags
      <2>5. ModelValues' BY <1>i, <1>p, <2>1, <2>2 DEF ModelValues
      <2>6. Model!RestIsRemembered' BY <1>i, <2>1 DEF Model!RestIsRemembered
      <2> QED BY <2>4, <2>5, <2>6 DEF ModelInv
    <1>6. ASSUME NEW m \in Models, Model!PickModel(m) PROVE ModelInv'
      <2>1. /\ Model!Persisted /\ Model!Arrives(m, catalog[m])
            /\ UNCHANGED <<offered, catalog, modelMounted, fetch, pressed, reverted, changes>>
        BY <1>6 DEF Model!PickModel
      <2>2. kept' \in [Models -> 0 .. MaxParam] /\ lastModel' \in Chosable BY <1>i, <2>1, Persists
      <2>3. catalog[m].max \in 1 .. MaxParam BY <1>i DEF ModelValues, Offer
      <2>4. /\ sel' \in Chosable /\ param' \in 1 .. MaxParam
            /\ modelArmed' \in BOOLEAN /\ (sel' # "none" => modelArmed')
        BY <1>i, <1>n, <2>1, <2>2, <2>3, ArrivesWell
      <2>5. ModelFlags' BY <1>i, <2>1, <2>4, Zenon DEF ModelFlags
      <2>6. ModelValues' BY <1>i, <2>1, <2>2, <2>4 DEF ModelValues
      <2>7. Model!RestIsRemembered' BY <2>4 DEF Model!RestIsRemembered, Model!None
      <2> QED BY <2>5, <2>6, <2>7 DEF ModelInv
    <1>7. ASSUME NEW v \in 1 .. MaxParam, Model!SetParam(v) PROVE ModelInv'
      <2>1. ModelFlags' BY <1>i, <1>7, Zenon DEF Model!SetParam, ModelFlags
      <2>2. ModelValues' BY <1>i, <1>7 DEF Model!SetParam, ModelValues
      <2>3. Model!RestIsRemembered' BY <1>7 DEF Model!SetParam, Model!RestIsRemembered
      <2> QED BY <2>1, <2>2, <2>3 DEF ModelInv
    <1>8. CASE Model!StickyTimer
      <2>1. Model!Persisted /\ UNCHANGED <<offered, catalog, sel, param, fetch, pressed, changes>>
        BY <1>8 DEF Model!StickyTimer
      <2>2. /\ kept' \in [Models -> 0 .. MaxParam] /\ lastModel' \in Chosable
            /\ sel # "none" => kept'[sel] = param
        BY <1>i, <2>1, Persists
      <2>3. ModelFlags' BY <1>i, <1>8, Zenon DEF Model!StickyTimer, ModelFlags
      <2>4. ModelValues' BY <1>i, <2>1, <2>2 DEF ModelValues
      <2>5. Model!RestIsRemembered' BY <2>1, <2>2 DEF Model!RestIsRemembered, Model!None
      <2> QED BY <2>3, <2>4, <2>5 DEF ModelInv
    <1>9. CASE Model!Generate
      <2> DEFINE this(fresh) == [model |-> sel, param |-> param, max |-> catalog[sel].max,
                                 ready |-> fresh]
                 a == [on |-> TRUE, model |-> sel, last |-> lastModel, then |-> TRUE]
      <2>1. /\ sel # "none" /\ \E fresh \in BOOLEAN : pressed' = this(fresh)
            /\ UNCHANGED fetch \/ \E f \in Fetches : fetch' = [fetch EXCEPT ![f] = a]
            /\ UNCHANGED <<offered, catalog, sel, param, modelMounted, kept, lastModel,
                           modelArmed, reverted, changes>>
        BY <1>9 DEF Model!Generate, Model!None
      <2>2. sel \in Models BY <1>i, <2>1 DEF ModelValues, Chosable
      <2>3. pressed' \in Renders
        <3>1. catalog[sel].max \in 1 .. MaxParam BY <1>i, <2>2 DEF ModelValues, Offer
        <3> QED BY <1>i, <2>1, <3>1 DEF ModelValues, Renders
      <2>4. a \in Asked BY <1>i DEF Asked, ModelValues
      <2>5. fetch' \in [Fetches -> Asked]
        <3> HIDE DEF a
        <3> QED BY <1>i, <2>1, <2>4, FetchTyped DEF ModelValues
      <2>6. ModelFlags' BY <1>i, <2>1, Zenon DEF ModelFlags
      <2>7. ModelValues' BY <1>i, <2>1, <2>3, <2>5 DEF ModelValues
      <2>8. Model!RestIsRemembered' BY <1>i, <2>1 DEF Model!RestIsRemembered
      <2> QED BY <2>6, <2>7, <2>8 DEF ModelInv
    <1>12. CASE Model!Posts
      <2> DEFINE carried == Model!Carried(pressed)
      <2>1. /\ pressed' = Model!NotPressed /\ modelArmed' = (modelArmed \/ param' # param)
            /\ param' = IF carried # pressed.param THEN carried ELSE param
            /\ UNCHANGED <<offered, catalog, sel, modelMounted, kept, lastModel, fetch, reverted, changes>>
        BY <1>12 DEF Model!Posts
      <2>2. carried \in 1 .. MaxParam
        <3>1. pressed.param \in 1 .. MaxParam /\ pressed.max \in 1 .. MaxParam
          BY <1>i DEF ModelValues, Renders
        <3> QED BY <3>1 DEF Model!Carried, Model!Lesser
      <2>3. param' \in 1 .. MaxParam BY <1>i, <2>1, <2>2 DEF ModelValues
      <2>4. ModelFlags' BY <1>i, <2>1, Zenon DEF ModelFlags
      <2>5. ModelValues' BY <1>i, <1>b, <2>1, <2>3 DEF ModelValues
      <2> HIDE DEF carried
      <2>6. Model!RestIsRemembered' BY <1>i, <2>1 DEF Model!RestIsRemembered, Model!None
      <2> QED BY <2>4, <2>5, <2>6 DEF ModelInv
    <1>10. CASE Model!Leave
      <2>1. ModelFlags' BY <1>i, <1>10, Zenon DEF Model!Leave, ModelFlags
      <2>2. /\ UNCHANGED <<offered, catalog, sel, param, kept, lastModel, changes>> /\ modelMounted' = FALSE
            /\ pressed' = Model!NotPressed /\ fetch' = [f \in Fetches |-> Model!Idle]
        BY <1>10 DEF Model!Leave
      <2>3. ModelValues' BY <1>i, <1>a, <1>b, <2>2 DEF ModelValues
      <2>4. Model!RestIsRemembered' BY <2>2 DEF Model!RestIsRemembered
      <2> QED BY <2>1, <2>3, <2>4 DEF ModelInv
    <1>11. CASE Model!Unload
      <2>1. ModelFlags' BY <1>i, <1>11, Zenon DEF Model!Unload, ModelFlags
      <2>2. /\ Model!Persisted \/ UNCHANGED <<kept, lastModel>>
            /\ modelMounted' = FALSE /\ pressed' = Model!NotPressed
            /\ fetch' = [f \in Fetches |-> Model!Idle]
            /\ UNCHANGED <<offered, catalog, sel, param, changes>>
        BY <1>11 DEF Model!Unload
      <2>3. kept' \in [Models -> 0 .. MaxParam] /\ lastModel' \in Chosable
        BY <1>i, <2>2, Persists DEF ModelValues
      <2>4. ModelValues'
        BY <1>i, <1>a, <1>b, <2>2, <2>3 DEF ModelValues
      <2>5. Model!RestIsRemembered' BY <2>2 DEF Model!RestIsRemembered
      <2> QED BY <2>1, <2>4, <2>5 DEF ModelInv
    <1> QED BY <1>0, <1>1, <1>2, <1>3, <1>4, <1>5, <1>6, <1>7, <1>8, <1>9, <1>10, <1>11, <1>12
        DEF Model!ModelsNext

\* The action of SwitchKeepsParams.
Switches ==
    sel' # sel /\ sel # "none" /\ modelMounted /\ modelMounted' /\ ~reverted' => kept'[sel] = param

LEMMA SwitchStep == ASSUME ModelInv, Model!ModelsNext PROVE Switches
PROOF
    <1> SUFFICES ASSUME sel' # sel, sel # "none", modelMounted, modelMounted', ~reverted'
                 PROVE  kept'[sel] = param
      BY DEF Switches
    <1>i. ModelValues /\ ModelFlags /\ Model!RestIsRemembered BY DEF ModelInv
    <1>1. (\E f \in Fetches : Model!CatalogRead(f)) \/ (\E m \in Models : Model!PickModel(m))
      BY DEF Model!ModelsNext, Model!ServerChange, Model!Refresh, Model!Mount, Model!CatalogFails,
             Model!SetParam, Model!StickyTimer, Model!Generate, Model!Posts, Model!Leave,
             Model!Unload
    <1>2. ASSUME NEW f \in Fetches, Model!CatalogRead(f) PROVE kept'[sel] = param
      <2>1. Model!Chosen(f) BY <1>2 DEF Model!CatalogRead
      <2> QED BY <1>i, <2>1, ChosenWell
    <1>3. ASSUME NEW m \in Models, Model!PickModel(m) PROVE kept'[sel] = param
      <2>1. Model!Persisted BY <1>3 DEF Model!PickModel
      <2> QED BY <1>i, <2>1, Persists
    <1> QED BY <1>1, <1>2, <1>3

-----------------------------------------------------------------------------
(* The custom size                                                         *)

Edge == Size!Sides
SizeValues ==
    /\ size \in Size!Sizes \cup {Size!NoSize} /\ preview \in Size!Sizes
    /\ w \in Edge \cup {-1} /\ h \in Edge \cup {-1}
SizeFlags == custom \in BOOLEAN /\ open \in BOOLEAN /\ sizeTouched \in BOOLEAN

\* the fields show the size of the preview; what was set is valid
Shows  == w > 0 /\ h > 0 => preview = <<w, h>>
Taken  == size \in {Size!NoSize, Fixed} \/ Size!isValidSize(size)

SizeInv == SizeValues /\ SizeFlags /\ (open => Shows) /\ Taken

LEMMA Edges ==
    /\ Edge \subseteq Nat /\ Typed \subseteq Edge
    /\ 2560 \in Edge /\ 1440 \in Edge /\ 1024 \in Edge
    /\ \A item \in Catalog : item[1] \in Edge /\ item[2] \in Edge /\ item = <<item[1], item[2]>>
    /\ Fixed \in Size!Sizes /\ Size!DefaultPreview \in Size!Sizes /\ Catalog \subseteq Size!Sizes
    /\ Size!Sizes = Edge \X Edge
PROOF
    <1> DEFINE C == Catalog \cup {Fixed, Size!DefaultPreview}
    <1>1. \A c \in C : c[1] \in Nat /\ c[2] \in Nat /\ c = <<c[1], c[2]>>
      BY DEF Catalog, Fixed, Size!DefaultPreview
    <1>2. Edge = Typed \cup {c[i] : c \in C, i \in {1, 2}} BY DEF Edge, Size!Sides
    <1>3. \A c \in C : c[1] \in Edge /\ c[2] \in Edge
      <2> HIDE DEF C
      <2> QED BY <1>2
    <1>4. Edge \subseteq Nat
      <2> DEFINE sides == {c[i] : c \in C, i \in {1, 2}}
      <2> HIDE DEF C
      <2>1. sides \subseteq Nat BY <1>1
      <2>2. Typed \subseteq Nat BY ClientNumbers
      <2>3. Edge = Typed \cup sides BY <1>2
      <2> HIDE DEF sides
      <2> QED BY ONLY <2>1, <2>2, <2>3
    <1>5. Size!Sizes = Edge \X Edge BY DEF Size!Sizes, Edge
    <1>6. Fixed \in C /\ Size!DefaultPreview \in C /\ Catalog \subseteq C OBVIOUS
    <1>7. Fixed[1] = 1024 /\ Size!DefaultPreview[1] = 2560 /\ Size!DefaultPreview[2] = 1440
      BY DEF Fixed, Size!DefaultPreview
    <1>8. C \subseteq Edge \X Edge
      <2> HIDE DEF C
      <2> QED BY <1>1, <1>3
    <1> HIDE DEF C
    <1> QED BY <1>1, <1>2, <1>3, <1>4, <1>5, <1>6, <1>7, <1>8

\* the validators of the modal and of the backend agree
LEMMA ValidatorsAgree ==
    ASSUME NEW a \in Int, NEW b \in Int, Size!isValidSize(<<a, b>>)
    PROVE  Size!Accepted(<<a, b>>)
PROOF
    <1>0. <<a, b>>[1] = a /\ <<a, b>>[2] = b BY SMT
    <1>1. a * b \in Int BY SMT
    <1>2. /\ Size!Smaller(a, b) > 0 /\ a % 16 = 0 /\ b % 16 = 0 /\ Size!Greater(a, b) <= 3840
          /\ a * b >= 655360 /\ a * b <= 8294400 /\ Size!Greater(a, b) <= 3 * Size!Smaller(a, b)
      BY <1>0, SMT DEF Size!isValidSize
    <1>3. a > 0 /\ b > 0 BY ONLY <1>2, a \in Int, b \in Int, SMT DEF Size!Smaller
    <1> QED BY ONLY <1>0, <1>2, <1>3, SMT DEF Size!Accepted

LEMMA SizeParts == SizeInv => Size!SizeTypeOK /\ Size!SizeSafe
PROOF
    <1> SUFFICES ASSUME SizeInv PROVE Size!SizeTypeOK /\ Size!SizeSafe OBVIOUS
    <1>1. {custom, open, sizeTouched} \subseteq BOOLEAN BY Zenon DEF SizeInv, SizeFlags
    <1>2. /\ size \in Size!Sizes \cup {Size!NoSize} /\ preview \in Size!Sizes
          /\ {w, h} \subseteq Size!Sides \cup {-1}
      BY DEF SizeInv, SizeValues, Edge
    <1>3. Size!SizeTypeOK BY ONLY <1>1, <1>2, Zenon DEF Size!SizeTypeOK, Size!Blank
    <1>4. Size!ChosenIsAccepted
      <2> SUFFICES ASSUME size \notin {Size!NoSize, Fixed} PROVE Size!Accepted(size)
        BY DEF Size!ChosenIsAccepted
      <2>1. size \in Edge \X Edge /\ Size!isValidSize(size) BY <1>2, Edges DEF SizeInv, Taken
      <2>2. PICK a \in Edge, b \in Edge : size = <<a, b>> BY <2>1
      <2>3. a \in Int /\ b \in Int BY <2>2, Edges
      <2> QED BY <2>1, <2>2, <2>3, ValidatorsAgree
    <1>5. Size!PreviewIsTyped BY DEF SizeInv, Shows, Size!PreviewIsTyped
    <1> QED BY <1>3, <1>4, <1>5 DEF Size!SizeSafe

LEMMA SizeStarts == Size!SizeInit => SizeInv
PROOF
    <1> SUFFICES ASSUME Size!SizeInit PROVE SizeInv OBVIOUS
    <1>1. SizeFlags BY Zenon DEF Size!SizeInit, SizeFlags
    <1>2. SizeValues /\ Shows BY Edges DEF Size!SizeInit, SizeValues, Shows, Size!Blank
    <1>3. Taken BY DEF Size!SizeInit, Taken
    <1> QED BY <1>1, <1>2, <1>3 DEF SizeInv

\* the fields are filled from a size
LEMMA SeedsWell ==
    ASSUME NEW s \in Size!Sizes \cup {Size!NoSize}, Size!Seeded(s)
    PROVE  w' \in Edge \cup {-1} /\ h' \in Edge \cup {-1} /\ preview' \in Size!Sizes /\ Shows'
PROOF
    <1>1. CASE s # Size!NoSize
      <2>0. s \in Edge \X Edge BY ONLY <1>1, Edges, s \in Size!Sizes \cup {Size!NoSize}
      <2>1. PICK a \in Edge, b \in Edge : s = <<a, b>> BY ONLY <2>0
      <2>2. w' = a /\ h' = b /\ preview' = <<a, b>> BY <1>1, <2>1 DEF Size!Seeded
      <2> QED BY <2>1, <2>2, Edges DEF Shows
    <1>2. CASE s = Size!NoSize
      <2>1. w' = -1 /\ h' = -1 /\ preview' = Size!DefaultPreview BY <1>2 DEF Size!Seeded, Size!Blank
      <2> QED BY <2>1, Edges DEF Shows
    <1> QED BY <1>1, <1>2

LEMMA PreviewsWell ==
    ASSUME preview \in Size!Sizes, NEW a \in Edge \cup {-1}, NEW b \in Edge \cup {-1}, Size!Previewed(a, b)
    PROVE  preview' \in Size!Sizes /\ (a > 0 /\ b > 0 => preview' = <<a, b>>)
PROOF
    <1>1. CASE a > 0 /\ b > 0
      <2>1. a \in Edge /\ b \in Edge BY <1>1
      <2> QED BY <1>1, <2>1, Edges DEF Size!Previewed
    <1>2. CASE ~(a > 0 /\ b > 0) BY <1>2 DEF Size!Previewed
    <1> QED BY <1>1, <1>2

LEMMA SizeStep ==
    ASSUME SizeInv, Size!SizeNext \/ UNCHANGED sizeVars
    PROVE  SizeInv'
PROOF
    <1>i. SizeValues /\ SizeFlags /\ (open => Shows) /\ Taken BY DEF SizeInv
    <1>0. CASE UNCHANGED sizeVars
      <2>1. SizeFlags' BY <1>i, <1>0, Zenon DEF sizeVars, SizeFlags
      <2>2. SizeValues' /\ (open' => Shows') /\ Taken'
        BY <1>i, <1>0 DEF sizeVars, SizeValues, Shows, Taken
      <2> QED BY <2>1, <2>2 DEF SizeInv
    <1>1. CASE Size!Open
      <2>1. SizeFlags' BY <1>i, <1>1, Zenon DEF Size!Open, SizeFlags
      <2>2. Size!Seeded(size) /\ size' = size BY <1>1 DEF Size!Open
      <2>3. w' \in Edge \cup {-1} /\ h' \in Edge \cup {-1} /\ preview' \in Size!Sizes /\ Shows'
        BY <1>i, <2>2, SeedsWell DEF SizeValues
      <2> QED BY <1>i, <2>1, <2>2, <2>3 DEF SizeInv, SizeValues, Taken
    <1>2. CASE Size!Close
      <2>1. SizeFlags' BY <1>i, <1>2, Zenon DEF Size!Close, SizeFlags
      <2>2. UNCHANGED <<size, w, h, preview>> /\ ~open' BY <1>2 DEF Size!Close
      <2> QED BY <1>i, <2>1, <2>2 DEF SizeInv, SizeValues, Taken
    <1>3. CASE Size!applyPreview
      <2>1. SizeFlags' BY <1>i, <1>3, Zenon DEF Size!applyPreview, SizeFlags
      <2>2. CASE Size!isValidSize(preview)
        <3>1. size' = preview /\ ~open' /\ UNCHANGED <<w, h, preview>> BY <1>3, <2>2 DEF Size!applyPreview
        <3> QED BY <1>i, <2>1, <2>2, <3>1 DEF SizeInv, SizeValues, Taken
      <2>3. CASE ~Size!isValidSize(preview)
        <3>1. UNCHANGED <<size, open, w, h, preview>> BY <1>3, <2>3 DEF Size!applyPreview
        <3> QED BY <1>i, <2>1, <3>1 DEF SizeInv, SizeValues, Taken, Shows
      <2> QED BY <2>2, <2>3
    <1>4. CASE Size!Reconciled
      <2>1. /\ size' = IF size \in {Size!NoSize, Fixed} \/ (custom' /\ Size!isValidSize(size))
                       THEN size ELSE Size!NoSize
            /\ IF open /\ size' # size THEN Size!Seeded(size') ELSE UNCHANGED <<w, h, preview>>
            /\ open' = open
        BY <1>4 DEF Size!Reconciled
      <2>2. SizeFlags' BY <1>i, <1>4, Zenon DEF Size!Reconciled, SizeFlags
      <2>3. size' \in Size!Sizes \cup {Size!NoSize} /\ Taken' BY <1>i, <2>1 DEF SizeValues, Taken
      <2>4. CASE open /\ size' # size
        BY <2>1, <2>2, <2>3, <2>4, SeedsWell DEF SizeInv, SizeValues
      <2>5. CASE ~(open /\ size' # size)
        <3>1. UNCHANGED <<w, h, preview>> BY <2>1, <2>5
        <3> QED BY <1>i, <2>1, <2>2, <2>3, <3>1 DEF SizeInv, SizeValues, Shows
      <2> QED BY <2>4, <2>5
    <1>5. ASSUME NEW item \in Catalog, Size!pickFromCatalog(item) PROVE SizeInv'
      <2>1. SizeFlags' BY <1>i, <1>5, Zenon DEF Size!pickFromCatalog, SizeFlags
      <2>2. w' = item[1] /\ h' = item[2] /\ preview' = item /\ size' = size
        BY <1>5 DEF Size!pickFromCatalog
      <2>3. /\ item[1] \in Edge /\ item[2] \in Edge /\ item = <<item[1], item[2]>>
            /\ item \in Size!Sizes
        BY Edges
      <2> HIDE DEF Catalog
      <2>4. Shows' BY ONLY <2>2, <2>3 DEF Shows
      <2>5. SizeValues' BY ONLY <1>i, <2>2, <2>3 DEF SizeValues
      <2>6. Taken' BY ONLY <1>i, <2>2 DEF Taken
      <2> QED BY <2>1, <2>4, <2>5, <2>6 DEF SizeInv
    <1>6. ASSUME NEW v \in Typed \cup {-1}, Size!onWChange(v) PROVE SizeInv'
      <2>1. SizeFlags' BY <1>i, <1>6, Zenon DEF Size!onWChange, SizeFlags
      <2>2. w' = v /\ h' = h /\ size' = size /\ Size!Previewed(v, h) BY <1>6 DEF Size!onWChange
      <2>3. v \in Edge \cup {-1} BY Edges
      <2>4. preview' \in Size!Sizes /\ (v > 0 /\ h > 0 => preview' = <<v, h>>)
        BY <1>i, <2>2, <2>3, PreviewsWell DEF SizeValues
      <2> QED BY <1>i, <2>1, <2>2, <2>3, <2>4 DEF SizeInv, SizeValues, Shows, Taken
    <1>7. ASSUME NEW v \in Typed \cup {-1}, Size!onHChange(v) PROVE SizeInv'
      <2>1. SizeFlags' BY <1>i, <1>7, Zenon DEF Size!onHChange, SizeFlags
      <2>2. h' = v /\ w' = w /\ size' = size /\ Size!Previewed(w, v) BY <1>7 DEF Size!onHChange
      <2>3. v \in Edge \cup {-1} BY Edges
      <2>4. preview' \in Size!Sizes /\ (w > 0 /\ v > 0 => preview' = <<w, v>>)
        BY <1>i, <2>2, <2>3, PreviewsWell DEF SizeValues
      <2> QED BY <1>i, <2>1, <2>2, <2>3, <2>4 DEF SizeInv, SizeValues, Shows, Taken
    <1>8. ASSUME NEW s \in {Size!NoSize, Fixed}, Size!SetSize(s) PROVE SizeInv'
      <2>1. SizeFlags' BY <1>i, <1>8, Zenon DEF Size!SetSize, SizeFlags
      <2>2. size' = s /\ UNCHANGED <<open, w, h, preview>> BY <1>8 DEF Size!SetSize
      <2>3. s \in Size!Sizes \cup {Size!NoSize} BY Edges
      <2> QED BY <1>i, <2>1, <2>2, <2>3 DEF SizeInv, SizeValues, Shows, Taken
    <1> QED BY <1>0, <1>1, <1>2, <1>3, <1>4, <1>5, <1>6, <1>7, <1>8 DEF Size!SizeNext, Size!Blank

-----------------------------------------------------------------------------
(* The number of images                                                    *)

CountValues ==
    /\ max \in 0 .. MaxCount /\ value \in 1 .. MaxCount
    /\ amountText \in -1 .. MaxCount + 1
    /\ handed \in [n : 1 .. MaxCount, max : 0 .. MaxCount]
CountFlags == capped \in BOOLEAN /\ dragging \in BOOLEAN /\ lowered \in BOOLEAN

\* the number is within the bound, unless a reading of the model lowered it, and the text
\* shows it
InBound ==
    /\ handed.n <= Amount!EffectiveMax(handed.max)
    /\ ~lowered => /\ max >= 1 => value <= max
                   /\ amountText > 0 => amountText = Amount!Display(value, max)

CountInv == CountValues /\ CountFlags /\ InBound

LEMMA CountParts == CountInv => Amount!CountTypeOK /\ Amount!CountSafe
PROOF
    <1> SUFFICES ASSUME CountInv PROVE Amount!CountTypeOK /\ Amount!CountSafe OBVIOUS
    <1>1. {capped, dragging, lowered} \subseteq BOOLEAN BY Zenon DEF CountInv, CountFlags
    <1>2. /\ max \in 0 .. MaxCount /\ value \in 1 .. MaxCount
          /\ amountText \in 0 .. (MaxCount + 1) \cup {-1}
          /\ handed.n \in 1 .. MaxCount /\ handed.max \in 0 .. MaxCount
      BY ClientNumbers DEF CountInv, CountValues
    <1>3. Amount!CountTypeOK
      BY ONLY <1>1, <1>2, Zenon DEF Amount!CountTypeOK, Amount!Texts, Amount!Blank
    <1>4. Amount!CountSafe
      BY DEF CountInv, InBound, Amount!CountSafe, Amount!HandedWithinBound, Amount!TextIsCount
    <1> QED BY <1>3, <1>4

LEMMA CountStarts == Amount!CountInit => CountInv
PROOF
    <1> SUFFICES ASSUME Amount!CountInit PROVE CountInv OBVIOUS
    <1>1. CountFlags BY Zenon DEF Amount!CountInit, CountFlags
    <1>2. CountValues /\ InBound
      BY ClientNumbers DEF Amount!CountInit, CountValues, InBound, Amount!EffectiveMax, Amount!Display, Amount!clamp
    <1> QED BY <1>1, <1>2 DEF CountInv

\* what the page is handed, by the field or by the track
HandsOn(n, entered) ==
    /\ ~Amount!HardDisabled /\ UNCHANGED <<max, lowered>>
    /\ value' = Amount!clamp(n, Amount!EffectiveMax(max))
    /\ IF value' # value
       THEN handed' = [n |-> value', max |-> max] /\ Amount!Reseeded(entered)
       ELSE handed' = handed /\ amountText' = value'

LEMMA HandsOnWell ==
    ASSUME CountValues, InBound, NEW n \in Int, NEW entered \in -1 .. MaxCount + 1, HandsOn(n, entered),
           entered = amountText \/ entered = n
    PROVE  CountValues' /\ InBound'
PROOF
    <1> USE ClientNumbers
    <1>1. max > 1 /\ max \in 1 .. MaxCount /\ Amount!EffectiveMax(max) = max /\ max' = max /\ lowered' = lowered
      BY DEF HandsOn, Amount!HardDisabled, CountValues, Amount!EffectiveMax
    <1>2. value' \in 1 .. max /\ (n \in 1 .. max => value' = n)
      BY <1>1 DEF HandsOn, Amount!clamp
    <1>3. Amount!Display(value', max) = value' BY <1>1, <1>2 DEF Amount!Display, Amount!clamp
    <1>4. value \in 1 .. max => Amount!Display(value, max) = value
      BY <1>1 DEF Amount!Display, Amount!clamp
    <1>5. CASE value' # value
      <2>1. handed' = [n |-> value', max |-> max] /\ Amount!Reseeded(entered) BY <1>5 DEF HandsOn
      <2>2. amountText' = IF value' # Amount!Display(value, max) /\ entered # value' THEN value' ELSE entered
        BY <1>1, <1>3, <2>1 DEF Amount!Reseeded
      <2>3. amountText' \in -1 .. MaxCount + 1 BY <1>1, <1>2, <2>2
      <2>4. CountValues' BY <1>1, <1>2, <2>1, <2>3 DEF CountValues
      <2>5. ~lowered => amountText' = value'
        <3> SUFFICES ASSUME ~lowered PROVE amountText' = value' OBVIOUS
        <3>1. value \in 1 .. max BY <1>1 DEF InBound, CountValues
        <3> QED BY <1>4, <1>5, <2>2, <3>1
      <2>6. handed'.n <= Amount!EffectiveMax(handed'.max) BY <1>1, <1>2, <2>1
      <2> QED BY <1>1, <1>2, <1>3, <2>4, <2>5, <2>6 DEF InBound
    <1>6. CASE value' = value
      <2>1. handed' = handed /\ amountText' = value' BY <1>6 DEF HandsOn
      <2>2. CountValues' BY <1>1, <1>2, <2>1 DEF CountValues
      <2>3. handed'.n <= Amount!EffectiveMax(handed'.max) BY <2>1 DEF InBound, Amount!EffectiveMax
      <2> QED BY <1>1, <1>2, <1>3, <2>1, <2>2, <2>3 DEF InBound
    <1> QED BY <1>5, <1>6

LEMMA CountFlagsStep == CountFlags /\ Amount!CountNext => CountFlags'
PROOF
    <1> SUFFICES ASSUME CountFlags, Amount!CountNext PROVE CountFlags' OBVIOUS
    <1>1. ASSUME NEW n, NEW entered, Amount!commit(n, entered) PROVE CountFlags'
      <2>1. capped' \in BOOLEAN BY <1>1, SMT DEF Amount!commit
      <2>2. UNCHANGED <<dragging, lowered>> BY <1>1, Zenon DEF Amount!commit
      <2> QED BY <2>1, <2>2, Zenon DEF CountFlags
    <1>2. ASSUME NEW t, Amount!Type(t) PROVE CountFlags'
      <2>1. CASE t = Amount!Blank BY <1>2, <2>1, Zenon DEF CountFlags, Amount!Type
      <2>2. CASE t # Amount!Blank BY <1>1, <1>2, <2>2, Zenon DEF Amount!Type
      <2> QED BY <2>1, <2>2
    <1>3. CASE Amount!Blur BY <1>1, <1>3, Zenon DEF Amount!Blur
    <1>4. CASE Amount!onTrackUp \/ Amount!NoticeEnds
      BY <1>4, Zenon DEF CountFlags, Amount!onTrackUp, Amount!NoticeEnds
    <1>5. ASSUME NEW n, Amount!Step(n) \/ Amount!Preset(n) \/ Amount!onTrackMove(n) PROVE CountFlags'
      BY <1>1, <1>5, Zenon DEF Amount!Step, Amount!Preset, Amount!onTrackMove
    <1>6. ASSUME NEW n, Amount!onTrackDown(n) PROVE CountFlags'
      BY <1>6, Zenon DEF CountFlags, Amount!onTrackDown
    <1>7. ASSUME NEW m, Amount!ModelChanges(m) \/ Amount!BoundChanges(m) PROVE CountFlags'
      BY <1>7, Zenon DEF CountFlags, Amount!ModelChanges, Amount!BoundChanges
    <1> QED BY <1>2, <1>3, <1>4, <1>5, <1>6, <1>7 DEF Amount!CountNext

\* another bound
LEMMA BoundMoves ==
    ASSUME CountValues, InBound, NEW m \in 0 .. MaxCount, Amount!ModelChanges(m) \/ Amount!BoundChanges(m)
    PROVE  CountValues' /\ InBound'
PROOF
    <1> USE ClientNumbers
    <1>1. /\ max' = m /\ handed' = handed /\ Amount!Reseeded(amountText)
          /\ \/ value' = (IF m >= 1 /\ value > m THEN m ELSE value) /\ lowered' = lowered
             \/ value' = value /\ lowered' = (lowered \/ value > Amount!EffectiveMax(m))
      BY DEF Amount!ModelChanges, Amount!BoundChanges
    <1>2. value' \in 1 .. MaxCount BY <1>1 DEF CountValues
    <1>3. Amount!Display(value', max') \in 1 .. MaxCount
      BY <1>1, <1>2 DEF Amount!Display, Amount!clamp, Amount!EffectiveMax
    <1>4. amountText' = IF Amount!Display(value', max') # Amount!Display(value, max)
                            /\ amountText # Amount!Display(value', max')
                         THEN Amount!Display(value', max') ELSE amountText
      BY <1>1 DEF Amount!Reseeded
    <1>5. CountValues' BY <1>1, <1>2, <1>3, <1>4 DEF CountValues
    <1>6. ASSUME ~lowered' PROVE /\ max' >= 1 => value' <= max'
                                 /\ amountText' > 0 => amountText' = Amount!Display(value', max')
      <2>1. ~lowered BY <1>1, <1>6
      <2>2. ASSUME max' >= 1 PROVE value' <= max'
        <3>0. max' = m /\ m \in Nat /\ m >= 1 /\ value \in Nat BY <1>1, <2>2 DEF CountValues
        <3>1. CASE value' = (IF m >= 1 /\ value > m THEN m ELSE value)
          BY ONLY <3>0, <3>1
        <3>2. CASE value' = value /\ lowered' = (lowered \/ value > Amount!EffectiveMax(m))
          <4>1. ~(value > Amount!EffectiveMax(m)) BY <1>6, <3>2
          <4> QED BY <3>0, <3>2, <4>1 DEF Amount!EffectiveMax
        <3> QED BY <1>1, <3>1, <3>2
      <2>3. amountText > 0 => amountText = Amount!Display(value, max) BY <2>1 DEF InBound
      <2> QED BY <1>4, <2>2, <2>3
    <1>7. handed'.n <= Amount!EffectiveMax(handed'.max) BY <1>1 DEF InBound
    <1> QED BY <1>5, <1>6, <1>7 DEF InBound

LEMMA CountStep ==
    ASSUME CountInv, Amount!CountNext \/ UNCHANGED amountVars
    PROVE  CountInv'
PROOF
    <1> USE ClientNumbers
    <1>i. CountValues /\ CountFlags /\ InBound BY DEF CountInv
    <1>t. amountText \in -1 .. MaxCount + 1 /\ value \in 1 .. MaxCount /\ max \in 0 .. MaxCount
      BY <1>i DEF CountValues
    <1>0. CASE UNCHANGED amountVars
      <2>1. CountFlags' BY <1>i, <1>0, Zenon DEF amountVars, CountFlags
      <2>2. CountValues' /\ InBound' BY <1>i, <1>0 DEF amountVars, CountValues, InBound
      <2> QED BY <2>1, <2>2 DEF CountInv
    <1>q. SUFFICES ASSUME Amount!CountNext PROVE CountValues' /\ InBound'
      BY <1>i, <1>0, CountFlagsStep DEF CountInv
    <1>c. \A n, entered : Amount!commit(n, entered) => HandsOn(n, entered)
      BY DEF Amount!commit, HandsOn
    <1>1. ASSUME NEW t \in Amount!Texts \cup {Amount!Blank}, Amount!Type(t) PROVE CountValues' /\ InBound'
      <2>1. CASE t = Amount!Blank
        BY <1>i, <1>1, <2>1 DEF Amount!Type, CountValues, InBound, Amount!Blank
      <2>2. CASE t # Amount!Blank
        <3>1. t \in -1 .. MaxCount + 1 /\ t \in Int BY <2>2 DEF Amount!Texts, Amount!Blank
        <3>2. HandsOn(t, t) BY <1>1, <1>c, <2>2 DEF Amount!Type
        <3> QED BY <1>i, <3>1, <3>2, HandsOnWell
      <2> QED BY <2>1, <2>2
    <1>2. CASE Amount!Blur
      <2>1. HandsOn(1, amountText) BY <1>2, <1>c DEF Amount!Blur
      <2> QED BY <1>i, <1>t, <2>1, HandsOnWell
    <1>3. CASE Amount!onTrackUp \/ Amount!NoticeEnds
      BY <1>i, <1>3 DEF Amount!onTrackUp, Amount!NoticeEnds, CountValues, InBound
    <1>4. ASSUME NEW n \in Int, Amount!Step(n) \/ Amount!Preset(n) \/ Amount!onTrackMove(n)
          PROVE  CountValues' /\ InBound'
      <2>1. HandsOn(n, amountText) BY <1>4, <1>c DEF Amount!Step, Amount!Preset, Amount!onTrackMove
      <2> QED BY <1>i, <1>t, <2>1, HandsOnWell
    <1>5. ASSUME NEW n \in Int, Amount!onTrackDown(n) PROVE CountValues' /\ InBound'
      <2>1. HandsOn(n, amountText) BY <1>5 DEF Amount!onTrackDown, HandsOn
      <2> QED BY <1>i, <1>t, <2>1, HandsOnWell
    <1>6. ASSUME NEW m \in 0 .. MaxCount, Amount!ModelChanges(m) \/ Amount!BoundChanges(m)
          PROVE  CountValues' /\ InBound'
      BY <1>i, <1>6, BoundMoves
    <1>7. {Amount!Display(value, max) - 1, Amount!Display(value, max) + 1, 1, Amount!EffectiveMax(max)} \subseteq Int
      BY <1>t DEF Amount!Display, Amount!clamp, Amount!EffectiveMax
    <1>8. 1 .. MaxCount \subseteq Int OBVIOUS
    <1> QED BY <1>q, <1>1, <1>2, <1>3, <1>4, <1>5, <1>6, <1>7, <1>8 DEF Amount!CountNext

-----------------------------------------------------------------------------
(* The submission                                                          *)

SubmissionInv == PressInv /\ ModelInv /\ SizeInv /\ CountInv

LEMMA SubmissionStarts == Init => SubmissionInv
PROOF
    <1>1. Init => Generate!GenInit /\ Model!ModelsInit /\ Size!SizeInit /\ Amount!CountInit
      BY ONLY DEF Init
    <1> QED BY <1>1, PressStarts, ModelStarts, SizeStarts, CountStarts DEF SubmissionInv

\* A step of the client is a step of the part, or leaves its variables alone.
LEMMA PartsStep ==
    [Next]_clientVars =>
        /\ Generate!GenNext \/ UNCHANGED pressVars
        /\ Model!ModelsNext \/ UNCHANGED modelVars
        /\ Size!SizeNext \/ UNCHANGED sizeVars
        /\ Amount!CountNext \/ UNCHANGED amountVars
PROOF
    <1>1. UNCHANGED clientVars => UNCHANGED <<pressVars, modelVars, sizeVars, amountVars>>
      BY ONLY DEF clientVars
    <1>2. Next => Generate!GenNext \/ UNCHANGED pressVars BY ONLY DEF Next
    <1>3. Next => Model!ModelsNext \/ UNCHANGED modelVars BY ONLY DEF Next
    <1>4. Next => Size!SizeNext \/ UNCHANGED sizeVars BY ONLY DEF Next
    <1>5. Next => Amount!CountNext \/ UNCHANGED amountVars BY ONLY DEF Next
    <1> QED BY ONLY <1>1, <1>2, <1>3, <1>4, <1>5

LEMMA SubmissionStep == SubmissionInv /\ [Next]_clientVars => SubmissionInv'
PROOF
    <1> SUFFICES ASSUME SubmissionInv, [Next]_clientVars PROVE SubmissionInv' OBVIOUS
    <1>1. PressInv /\ ModelInv /\ SizeInv /\ CountInv BY DEF SubmissionInv
    <1>2. /\ Generate!GenNext \/ UNCHANGED pressVars
          /\ Model!ModelsNext \/ UNCHANGED modelVars
          /\ Size!SizeNext \/ UNCHANGED sizeVars
          /\ Amount!CountNext \/ UNCHANGED amountVars
      BY PartsStep
    <1>3. PressInv' BY ONLY <1>1, <1>2, PressStep
    <1>4. ModelInv' BY ONLY <1>1, <1>2, ModelStep
    <1>5. SizeInv' BY ONLY <1>1, <1>2, SizeStep
    <1>6. CountInv' BY ONLY <1>1, <1>2, CountStep
    <1> QED BY <1>3, <1>4, <1>5, <1>6 DEF SubmissionInv

\* What is submitted is what was asked for: a request whose answer is unknown
\* is repeated under its id, no captcha token is sent twice, the parameters in
\* force are those of the model chosen, a size set is one the backend accepts,
\* and the number in the field is the number submitted (CreatePage's submit and
\* captcha modal, its model effects, SizeCustomModal, OutputCountSlider).
THEOREM SubmissionsAreSafe == Spec => []SubmissionsSafe
PROOF
    <1>1. SubmissionInv => SubmissionsSafe
      <2>1. PressInv => Generate!GenerateSafe BY DEF PressInv
      <2> QED BY <2>1, ModelParts, SizeParts, CountParts DEF SubmissionInv, SubmissionsSafe
    <1> QED BY <1>1, SubmissionStarts, SubmissionStep, PTL DEF Spec

-----------------------------------------------------------------------------
(* The draft of the Create page                                            *)

\* what a reload would restore once the requests under way are served
RefsToCome == IF waiting = <<>> THEN savedRefs ELSE waiting[1].refs
ToRestore ==
    IF savedText = Draft!NoDraft THEN <<0, 0>>
    ELSE <<savedText, IF Draft!Files(RefsToCome) = savedCount THEN RefsToCome ELSE 0>>

Requests == [op : {"put", "clear", "get"}, refs : Nat, text : Int, count : Nat, mine : BOOLEAN]
Reads(q) == q.op = "get" /\ q.mine

\* Texts are numbered as they are typed, and no accepted one is on a page, in the storage
\* or on its way from one to the other.
DraftTexts ==
    /\ typed \in Nat /\ draftText \in 0 .. typed /\ sending \in 0 .. typed
    /\ savedText \in -1 .. typed /\ accepted \subseteq 1 .. typed
    /\ refs \in Nat /\ picked \in Nat /\ savedRefs \in Nat /\ savedCount \in Nat
    /\ waiting \in Seq(Requests) /\ draftFaults \in Nat
    /\ \A i \in 1 .. Len(waiting) : Reads(waiting[i]) => waiting[i].text \in 0 .. typed
DraftGone ==
    \A t \in accepted :
        /\ savedText # t /\ sending # t /\ (here => draftText # t)
        /\ \A i \in 1 .. Len(waiting) : Reads(waiting[i]) => waiting[i].text # t

\* Of a page that is gone nobody reads an answer.
DraftAlone ==
    /\ ~ignoreOnce
    /\ ~here => \A i \in 1 .. Len(waiting) : ~waiting[i].mine
    /\ here => (~enabled <=> restore = "no") /\ restore \in {"no", "reading", "over"}
    /\ here /\ ~enabled => ~draftTimer /\ \A i \in 1 .. Len(waiting) : ~Reads(waiting[i])

\* While nothing was overtaken: what the restore reads, and what is left to do after it.
Smooth == here /\ ~overtaken /\ draftFaults = 0
DraftRead ==
    Smooth =>
        /\ restore # "reading" => \A i \in 1 .. Len(waiting) : ~Reads(waiting[i])
        /\ restore = "reading" =>
              /\ draftTimer /\ savedText # Draft!NoDraft /\ waiting # <<>>
              /\ Reads(waiting[Len(waiting)])
              /\ waiting[Len(waiting)].text = savedText
              /\ waiting[Len(waiting)].count = savedCount
              /\ \A i \in 1 .. Len(waiting) - 1 : ~Reads(waiting[i])
DraftQuiet ==
    Smooth /\ restore = "over" =>
        /\ savedText # Draft!NoDraft =>
              \/ waiting = <<>>
              \/ Len(waiting) = 1 /\ waiting[1].op = "put" /\ waiting[1].mine
              \/ Len(waiting) = 1 /\ waiting[1].op = "clear" /\ ~waiting[1].mine
                                  /\ waiting[1].refs = 0
        /\ ~draftTimer => ToRestore = <<draftText, refs>>
        /\ ~hasWritten /\ savedText # Draft!NoDraft =>
              ToRestore = <<0, 0>> \/ (waiting # <<>> /\ waiting[1].op = "put")
DraftInv == DraftTexts /\ DraftGone /\ DraftAlone /\ DraftRead /\ DraftQuiet

LEMMA TextNumbers == MaxTexts \in Nat
  BY ClientAssumption

LEMMA RequestsWell ==
    /\ \A r \in Nat : Draft!Put(r) \in Requests /\ Draft!Put(r).refs = r
                      /\ Draft!Put(r).op = "put" /\ Draft!Put(r).mine /\ ~Reads(Draft!Put(r))
    /\ Draft!Clear \in Requests /\ ~Reads(Draft!Clear) /\ Draft!Clear.op = "clear"
    /\ [Draft!Clear EXCEPT !.mine = FALSE] \in Requests
    /\ ~Reads([Draft!Clear EXCEPT !.mine = FALSE]) /\ ~[Draft!Clear EXCEPT !.mine = FALSE].mine
    /\ [Draft!Clear EXCEPT !.mine = FALSE].op = "clear"
    /\ [Draft!Clear EXCEPT !.mine = FALSE].refs = 0
    /\ DraftTexts => Draft!Get \in Requests
    /\ Reads(Draft!Get) /\ Draft!Get.text = savedText /\ Draft!Get.count = savedCount
PROOF
    <1>1. DraftTexts => Draft!Get \in Requests
      BY DEF DraftTexts, Draft!Get, Requests
    <1>2. \A r \in Nat : Draft!Put(r) \in Requests BY DEF Draft!Put, Requests
    <1> QED BY <1>1, <1>2 DEF Draft!Put, Draft!Clear, Draft!Get, Requests, Reads

LEMMA QueueAppended ==
    ASSUME NEW s \in Seq(Requests), NEW q \in Requests
    PROVE  /\ Append(s, q) \in Seq(Requests) /\ Len(Append(s, q)) = Len(s) + 1
           /\ Append(s, q)[Len(s) + 1] = q /\ \A i \in 1 .. Len(s) : Append(s, q)[i] = s[i]
           /\ Append(s, q) # <<>>
  OBVIOUS

LEMMA QueueServed ==
    ASSUME NEW s \in Seq(Requests), s # <<>>
    PROVE  /\ Len(s) \in Nat /\ Len(s) >= 1 /\ Head(s) = s[1] /\ s[1] \in Requests
           /\ Tail(s) \in Seq(Requests) /\ Len(Tail(s)) = Len(s) - 1
           /\ \A i \in 1 .. Len(s) - 1 : Tail(s)[i] = s[i + 1]
           /\ Len(s) = 1 => Tail(s) = <<>>
  OBVIOUS

LEMMA QueueOrphaned ==
    ASSUME waiting \in Seq(Requests)
    PROVE  /\ Draft!Orphaned \in Seq(Requests)
           /\ \A i \in 1 .. Len(Draft!Orphaned) : ~Draft!Orphaned[i].mine /\ ~Reads(Draft!Orphaned[i])
PROOF
    <1>1. /\ DOMAIN waiting = 1 .. Len(waiting) /\ Len(waiting) \in Nat
          /\ \A i \in 1 .. Len(waiting) : waiting[i] \in Requests
      OBVIOUS
    <1>2. \A i \in 1 .. Len(waiting) :
             /\ [waiting[i] EXCEPT !.mine = FALSE] \in Requests
             /\ ~[waiting[i] EXCEPT !.mine = FALSE].mine
      BY <1>1 DEF Requests
    <1>3. Draft!Orphaned = [i \in 1 .. Len(waiting) |-> [waiting[i] EXCEPT !.mine = FALSE]]
      BY <1>1 DEF Draft!Orphaned
    <1>4. Draft!Orphaned \in Seq(Requests) /\ Len(Draft!Orphaned) = Len(waiting)
      BY <1>1, <1>2, <1>3
    <1> QED BY <1>2, <1>3, <1>4 DEF Reads

\* a write appended
LEMMA WriteAppended ==
    ASSUME DraftTexts, NEW q \in Requests, ~Reads(q), waiting' = Append(waiting, q)
    PROVE  /\ waiting' \in Seq(Requests)
           /\ \A i \in 1 .. Len(waiting') : Reads(waiting'[i]) =>
                 \E j \in 1 .. Len(waiting) : waiting'[i] = waiting[j]
PROOF
    <1>1. waiting \in Seq(Requests) BY DEF DraftTexts
    <1>2. /\ waiting' \in Seq(Requests) /\ Len(waiting') = Len(waiting) + 1
          /\ waiting'[Len(waiting) + 1] = q /\ \A i \in 1 .. Len(waiting) : waiting'[i] = waiting[i]
      BY <1>1, QueueAppended
    <1> QED BY <1>1, <1>2

\* Every read under way was under way before, unless the restore begins.
LEMMA QueueStep ==
    ASSUME DraftTexts, Draft!DraftNext \/ UNCHANGED draftVars
    PROVE  /\ waiting' \in Seq(Requests)
           /\ \A i \in 1 .. Len(waiting') : Reads(waiting'[i]) =>
                 \/ \E j \in 1 .. Len(waiting) : waiting'[i] = waiting[j]
                 \/ /\ waiting'[i].text = savedText /\ savedText # Draft!NoDraft
                    /\ enabled' /\ restore' = "reading"
                    /\ UNCHANGED <<savedText, accepted, typed>>
PROOF
    <1>1. waiting \in Seq(Requests) /\ refs \in Nat BY DEF DraftTexts
    <1> DEFINE Fine ==
            /\ waiting' \in Seq(Requests)
            /\ \A i \in 1 .. Len(waiting') : Reads(waiting'[i]) =>
                  \/ \E j \in 1 .. Len(waiting) : waiting'[i] = waiting[j]
                  \/ /\ waiting'[i].text = savedText /\ savedText # Draft!NoDraft
                     /\ enabled' /\ restore' = "reading"
                    /\ UNCHANGED <<savedText, accepted, typed>>
    <1>2. CASE waiting' = waiting BY <1>1, <1>2
    <1>3. ASSUME NEW q \in Requests, ~Reads(q), waiting' = Append(waiting, q) PROVE Fine
      BY <1>3, WriteAppended
    <1>4. CASE waiting # <<>> /\ waiting' = Tail(waiting)
      <2>1. /\ Len(waiting) \in Nat /\ waiting' \in Seq(Requests) /\ Len(waiting') = Len(waiting) - 1
            /\ \A i \in 1 .. Len(waiting) - 1 : waiting'[i] = waiting[i + 1]
        BY <1>1, <1>4, QueueServed
      <2>2. \A i \in 1 .. Len(waiting') : i + 1 \in 1 .. Len(waiting) BY <2>1
      <2> QED BY <2>1, <2>2
    <1>5. CASE waiting' = Draft!Orphaned BY <1>1, <1>5, QueueOrphaned
    <1>a. CASE UNCHANGED draftVars BY <1>a, <1>2 DEF draftVars
    <1>b. CASE Draft!Mount \/ Draft!Type \/ Draft!PickRefs \/ Draft!Erase
                 \/ Draft!Submit \/ Draft!SubmitFails
      BY <1>b, <1>2 DEF Draft!Mount, Draft!Type, Draft!PickRefs, Draft!Erase, Draft!Submit,
                        Draft!SubmitFails
    <1>c. CASE Draft!Navigate BY <1>c, <1>5 DEF Draft!Navigate, Draft!LeavePage
    <1>d. CASE Draft!Unload
      <2>1. waiting' = <<>> BY <1>d DEF Draft!Unload
      <2> QED BY <2>1
    <1>e. CASE Draft!Enable
      <2>1. CASE waiting' = Append(waiting, Draft!Get) /\ savedText # Draft!NoDraft /\ enabled'
                   /\ restore' = "reading" /\ UNCHANGED <<savedText, accepted, typed>>
        <3>1. Draft!Get \in Requests /\ Draft!Get.text = savedText BY RequestsWell
        <3>2. /\ waiting' \in Seq(Requests) /\ Len(waiting') = Len(waiting) + 1
              /\ waiting'[Len(waiting) + 1] = Draft!Get
              /\ \A i \in 1 .. Len(waiting) : waiting'[i] = waiting[i]
          BY <1>1, <2>1, <3>1, QueueAppended
        <3> QED BY <1>1, <2>1, <3>1, <3>2
      <2>2. CASE waiting' = Append(waiting, Draft!Clear) BY <2>2, <1>3, RequestsWell
      <2> QED BY <1>e, <1>2, <2>1, <2>2 DEF Draft!Enable, Draft!Ask
    <1>f. CASE Draft!Save
      BY <1>f, <1>1, <1>2, <1>3, RequestsWell DEF Draft!Save, Draft!Ask
    <1>g. CASE Draft!PutDone BY <1>g, <1>4 DEF Draft!PutDone
    <1>h. CASE Draft!ClearDone BY <1>h, <1>4 DEF Draft!ClearDone
    <1>i. CASE Draft!Got
      <2>1. CASE waiting' = Append(Tail(waiting), [Draft!Clear EXCEPT !.mine = FALSE])
        <3> DEFINE q == [Draft!Clear EXCEPT !.mine = FALSE]
        <3>0. waiting # <<>> BY <1>i DEF Draft!Got
        <3>1. q \in Requests /\ ~Reads(q) BY RequestsWell
        <3>2. /\ Len(waiting) \in Nat /\ Tail(waiting) \in Seq(Requests)
              /\ Len(Tail(waiting)) = Len(waiting) - 1
              /\ \A i \in 1 .. Len(waiting) - 1 : Tail(waiting)[i] = waiting[i + 1]
          BY <1>1, <3>0, QueueServed
        <3>3. /\ waiting' \in Seq(Requests) /\ Len(waiting') = Len(Tail(waiting)) + 1
              /\ waiting'[Len(Tail(waiting)) + 1] = q
              /\ \A i \in 1 .. Len(Tail(waiting)) : waiting'[i] = Tail(waiting)[i]
          BY <2>1, <3>1, <3>2, QueueAppended
        <3> HIDE DEF q
        <3>4. \A i \in 1 .. Len(waiting') : Reads(waiting'[i]) =>
                 i \in 1 .. Len(waiting) - 1 /\ i + 1 \in 1 .. Len(waiting)
          BY <3>1, <3>2, <3>3
        <3> QED BY <3>2, <3>3, <3>4
      <2> QED BY <1>i, <1>4, <2>1 DEF Draft!Got
    <1>j. CASE Draft!ClearButton
      BY <1>j, <1>3, RequestsWell DEF Draft!ClearButton, Draft!Dropped, Draft!Ask
    <1>k. CASE Draft!Submitted
      <2> DEFINE q == [Draft!Clear EXCEPT !.mine = FALSE]
      <2>1. waiting' = Append(Draft!Orphaned, q) BY <1>k DEF Draft!Submitted
      <2>2. /\ q \in Requests /\ ~Reads(q) /\ Draft!Orphaned \in Seq(Requests)
            /\ \A i \in 1 .. Len(Draft!Orphaned) : ~Reads(Draft!Orphaned[i])
        BY <1>1, RequestsWell, QueueOrphaned
      <2> HIDE DEF q
      <2>3. /\ waiting' \in Seq(Requests) /\ Len(waiting') = Len(Draft!Orphaned) + 1
            /\ waiting'[Len(Draft!Orphaned) + 1] = q
            /\ \A i \in 1 .. Len(Draft!Orphaned) : waiting'[i] = Draft!Orphaned[i]
        BY <2>1, <2>2, QueueAppended
      <2>4. \A i \in 1 .. Len(waiting') : ~Reads(waiting'[i]) BY <2>2, <2>3
      <2> QED BY <2>3, <2>4
    <1> QED BY <1>a, <1>b, <1>c, <1>d, <1>e, <1>f, <1>g, <1>h, <1>i, <1>j, <1>k DEF Draft!DraftNext

\* What an answer puts into the form comes from a read that is under way.
LEMMA GotWell ==
    ASSUME DraftTexts, Draft!Got
    PROVE  /\ waiting # <<>> /\ Len(waiting) >= 1 /\ Len(waiting) \in Nat
           /\ waiting[1] \in Requests /\ waiting[1].op = "get" /\ Head(waiting) = waiting[1]
           /\ \/ UNCHANGED <<draftText, refs>>
              \/ /\ Reads(waiting[1]) /\ draftText' = waiting[1].text
                 /\ refs' = Draft!Found /\ refs' \in {0, savedRefs}
           /\ waiting[1].mine \/ waiting' = Tail(waiting)
PROOF
    <1>1. waiting \in Seq(Requests) /\ waiting # <<>> BY DEF DraftTexts, Draft!Got
    <1>2. /\ Len(waiting) >= 1 /\ Len(waiting) \in Nat
          /\ waiting[1] \in Requests /\ Head(waiting) = waiting[1]
      BY <1>1, QueueServed
    <1>3. waiting[1].op = "get" BY <1>2 DEF Draft!Got
    <1>4. Draft!Found \in {0, savedRefs} BY DEF Draft!Found
    <1> QED BY <1>1, <1>2, <1>3, <1>4 DEF Draft!Got, Reads

LEMMA DraftTextsStep ==
    ASSUME DraftTexts, Draft!DraftNext \/ UNCHANGED draftVars
    PROVE  DraftTexts'
PROOF
    <1>1. /\ waiting' \in Seq(Requests)
          /\ \A i \in 1 .. Len(waiting') : Reads(waiting'[i]) =>
                 \/ \E j \in 1 .. Len(waiting) : waiting'[i] = waiting[j]
                 \/ /\ waiting'[i].text = savedText /\ savedText # Draft!NoDraft
                    /\ enabled' /\ restore' = "reading"
                    /\ UNCHANGED <<savedText, accepted, typed>>
      BY QueueStep
    <1> DEFINE Numbers ==
            /\ typed \in Nat /\ draftText \in 0 .. typed /\ sending \in 0 .. typed
            /\ savedText \in -1 .. typed /\ accepted \subseteq 1 .. typed
            /\ refs \in Nat /\ picked \in Nat /\ savedRefs \in Nat /\ savedCount \in Nat
            /\ draftFaults \in Nat
    <1>n. Numbers BY DEF DraftTexts
    <1>f. \A r \in Nat : Draft!Files(r) \in Nat BY DEF Draft!Files
    <1>2. Numbers' /\ typed' >= typed
      <2> USE DEF Draft!NoDraft
      <2>a. CASE UNCHANGED draftVars BY <2>a, <1>n DEF draftVars
      <2>b. CASE Draft!Mount BY <2>b, <1>n DEF Draft!Mount
      <2>c. CASE Draft!Navigate BY <2>c, <1>n DEF Draft!Navigate, Draft!LeavePage
      <2>d. CASE Draft!Unload
        <3>1. savedRefs' \in Nat
          <4> DEFINE all == IF ~draftTimer THEN waiting
                            ELSE IF ~Draft!FormIsEmpty THEN Append(waiting, Draft!Put(refs))
                            ELSE IF hasWritten THEN Append(waiting, Draft!Clear) ELSE waiting
          <4>1. all \in Seq(Requests)
            <5>1. waiting \in Seq(Requests) BY DEF DraftTexts
            <5>2. Append(waiting, Draft!Put(refs)) \in Seq(Requests)
              BY <1>n, <5>1, RequestsWell, QueueAppended
            <5>3. Append(waiting, Draft!Clear) \in Seq(Requests)
              BY <5>1, RequestsWell, QueueAppended
            <5> QED BY <5>1, <5>2, <5>3
          <4>2. savedRefs' = savedRefs \/ \E n \in 1 .. Len(all) : savedRefs' = all[n].refs
            BY <2>d DEF Draft!Unload
          <4> HIDE DEF all
          <4>3. ASSUME NEW n \in 1 .. Len(all) PROVE all[n].refs \in Nat
            <5>1. all[n] \in Requests BY <4>1
            <5> QED BY <5>1 DEF Requests
          <4> QED BY <1>n, <4>2, <4>3
        <3>2. /\ savedText' \in {savedText, draftText, -1}
              /\ savedCount' \in {savedCount, 0, Draft!Files(refs)}
              /\ sending' = 0 /\ UNCHANGED <<draftText, refs, typed, picked, accepted, draftFaults>>
          BY <2>d DEF Draft!Unload
        <3> HIDE DEF Draft!NoDraft
        <3> QED BY <1>n, <1>f, <3>1, <3>2
      <2>e. CASE Draft!Enable BY <2>e, <1>n DEF Draft!Enable
      <2>g. CASE Draft!Type BY <2>g, <1>n DEF Draft!Type
      <2>h. CASE Draft!PickRefs BY <2>h, <1>n DEF Draft!PickRefs
      <2>i. CASE Draft!Erase BY <2>i, <1>n DEF Draft!Erase
      <2>j. CASE Draft!Save
        <3>1. /\ savedText' \in {savedText, draftText, -1}
              /\ savedCount' \in {savedCount, 0, Draft!Files(refs)}
              /\ draftFaults' \in {draftFaults, draftFaults + 1}
              /\ UNCHANGED <<draftText, refs, typed, picked, savedRefs, sending, accepted>>
          BY <2>j DEF Draft!Save
        <3> QED BY <1>n, <1>f, <3>1
      <2>k. CASE Draft!PutDone
        <3>1. waiting \in Seq(Requests) /\ waiting # <<>> BY <2>k DEF Draft!PutDone, DraftTexts
        <3>2. Head(waiting) \in Requests BY <3>1, QueueServed
        <3>3. Head(waiting).refs \in Nat BY <3>2 DEF Requests
        <3> QED BY <2>k, <1>n, <3>3 DEF Draft!PutDone
      <2>l. CASE Draft!ClearDone BY <2>l, <1>n DEF Draft!ClearDone
      <2>m. CASE Draft!Got
        <3>1. \/ UNCHANGED <<draftText, refs>>
              \/ Reads(waiting[1]) /\ draftText' = waiting[1].text /\ refs' \in {0, savedRefs}
          BY <2>m, GotWell
        <3>2. Reads(waiting[1]) => waiting[1].text \in 0 .. typed
          BY <2>m, GotWell DEF DraftTexts
        <3>3. UNCHANGED <<typed, picked, savedText, savedCount, savedRefs, sending, accepted,
                          draftFaults>>
          BY <2>m DEF Draft!Got
        <3> QED BY <1>n, <3>1, <3>2, <3>3
      <2>o. CASE Draft!ClearButton BY <2>o, <1>n DEF Draft!ClearButton, Draft!Dropped
      <2>p. CASE Draft!Submit BY <2>p, <1>n DEF Draft!Submit
      <2>q. CASE Draft!Submitted BY <2>q, <1>n DEF Draft!Submitted
      <2>r. CASE Draft!SubmitFails BY <2>r, <1>n DEF Draft!SubmitFails
      <2> QED BY ONLY Draft!DraftNext \/ UNCHANGED draftVars, <2>a, <2>b, <2>c, <2>d, <2>e, <2>g,
                <2>h, <2>i, <2>j, <2>k, <2>l, <2>m, <2>o, <2>p, <2>q, <2>r DEF Draft!DraftNext
    <1>3. ASSUME NEW i \in 1 .. Len(waiting'), Reads(waiting'[i])
          PROVE  waiting'[i].text \in 0 .. typed'
      <2>1. \A j \in 1 .. Len(waiting) : Reads(waiting[j]) => waiting[j].text \in 0 .. typed
        BY DEF DraftTexts
      <2>2. typed \in Nat /\ typed' \in Nat /\ typed' >= typed BY <1>n, <1>2
      <2>3. savedText # Draft!NoDraft => savedText \in 0 .. typed BY <1>n DEF Draft!NoDraft
      <2>4. waiting'[i].text \in 0 .. typed BY <1>1, <1>3, <2>1, <2>3
      <2> QED BY <2>2, <2>4
    <1> QED BY <1>1, <1>2, <1>3 DEF DraftTexts

LEMMA DraftGoneStep ==
    ASSUME DraftTexts, DraftGone, Draft!DraftNext \/ UNCHANGED draftVars
    PROVE  DraftGone'
PROOF
    <1>n. /\ typed \in Nat /\ draftText \in 0 .. typed /\ sending \in 0 .. typed
          /\ savedText \in -1 .. typed /\ accepted \subseteq 1 .. typed
      BY DEF DraftTexts
    <1>s. SUFFICES ASSUME NEW t \in accepted'
                   PROVE  /\ savedText' # t /\ sending' # t /\ (here' => draftText' # t)
                          /\ \A i \in 1 .. Len(waiting') : Reads(waiting'[i]) => waiting'[i].text # t
      BY DEF DraftGone
    <1>1. CASE Draft!Submitted
      <2> DEFINE q == [Draft!Clear EXCEPT !.mine = FALSE]
      <2>1. waiting' = Append(Draft!Orphaned, q) BY <1>1 DEF Draft!Submitted
      <2>2. /\ q \in Requests /\ ~Reads(q) /\ Draft!Orphaned \in Seq(Requests)
            /\ \A i \in 1 .. Len(Draft!Orphaned) : ~Reads(Draft!Orphaned[i])
        BY RequestsWell, QueueOrphaned DEF DraftTexts
      <2> HIDE DEF q
      <2>3. /\ waiting' \in Seq(Requests) /\ Len(waiting') = Len(Draft!Orphaned) + 1
            /\ waiting'[Len(Draft!Orphaned) + 1] = q
            /\ \A i \in 1 .. Len(Draft!Orphaned) : waiting'[i] = Draft!Orphaned[i]
        BY <2>1, <2>2, QueueAppended
      <2>4. \A i \in 1 .. Len(waiting') : ~Reads(waiting'[i]) BY <2>2, <2>3
      <2>5. savedText' = -1 /\ sending' = 0 /\ ~here' /\ t \in accepted \cup {sending} /\ sending # 0
        BY <1>1 DEF Draft!Submitted, Draft!NoDraft
      <2>6. t # -1 /\ t # 0 BY <2>5, <1>n
      <2> QED BY <2>4, <2>5, <2>6
    <1>2. CASE ~Draft!Submitted
      <2>0. UNCHANGED accepted
        BY <1>2 DEF Draft!DraftNext, draftVars, Draft!Mount, Draft!Navigate, Draft!LeavePage,
                    Draft!Unload, Draft!Enable, Draft!Type, Draft!PickRefs, Draft!Erase, Draft!Save,
                    Draft!PutDone, Draft!ClearDone, Draft!Got, Draft!ClearButton, Draft!Submit,
                    Draft!SubmitFails
      <2>1. t \in 1 .. typed /\ savedText # t /\ sending # t /\ (here => draftText # t)
        BY <1>n, <2>0 DEF DraftGone
      <2>2. ASSUME NEW i \in 1 .. Len(waiting'), Reads(waiting'[i]) PROVE waiting'[i].text # t
        <3>1. \A j \in 1 .. Len(waiting) : Reads(waiting[j]) => waiting[j].text # t
          BY <2>0 DEF DraftGone
        <3>2. \/ \E j \in 1 .. Len(waiting) : waiting'[i] = waiting[j]
              \/ waiting'[i].text = savedText
          BY <2>2, QueueStep
        <3> QED BY <2>1, <2>2, <3>1, <3>2
      <2>3. savedText' # t /\ sending' # t /\ (here' => draftText' # t)
        <3> USE DEF Draft!NoDraft
        <3>a. CASE UNCHANGED draftVars BY <3>a, <2>1 DEF draftVars
        <3>b. CASE Draft!Mount BY <3>b, <2>1, <1>n DEF Draft!Mount
        <3>c. CASE Draft!Navigate BY <3>c, <2>1 DEF Draft!Navigate, Draft!LeavePage
        <3>d. CASE Draft!Unload
          <4>1. savedText' \in {savedText, draftText, -1} /\ sending' = 0 /\ ~here' /\ here
            BY <3>d DEF Draft!Unload
          <4> QED BY <4>1, <2>1, <1>n
        <3>e. CASE Draft!Enable BY <3>e, <2>1, <1>n DEF Draft!Enable
        <3>g. CASE Draft!Type BY <3>g, <2>1, <1>n DEF Draft!Type
        <3>h. CASE Draft!PickRefs BY <3>h, <2>1 DEF Draft!PickRefs
        <3>i. CASE Draft!Erase BY <3>i, <2>1, <1>n DEF Draft!Erase
        <3>j. CASE Draft!Save
          <4>1. savedText' \in {savedText, draftText, -1} /\ here
                /\ UNCHANGED <<here, draftText, sending>>
            BY <3>j DEF Draft!Save
          <4> QED BY <4>1, <2>1, <1>n
        <3>k. CASE Draft!PutDone BY <3>k, <2>1 DEF Draft!PutDone
        <3>l. CASE Draft!ClearDone BY <3>l, <2>1 DEF Draft!ClearDone
        <3>m. CASE Draft!Got
          <4>1. \/ UNCHANGED draftText
                \/ Reads(waiting[1]) /\ draftText' = waiting[1].text
            BY <3>m, GotWell
          <4>2. Reads(waiting[1]) => waiting[1].text # t
            BY <3>m, <2>0, GotWell DEF DraftGone
          <4>3. UNCHANGED <<savedText, sending, here>> BY <3>m DEF Draft!Got
          <4> QED BY <2>1, <4>1, <4>2, <4>3
        <3>o. CASE Draft!ClearButton BY <3>o, <2>1, <1>n DEF Draft!ClearButton, Draft!Dropped
        <3>p. CASE Draft!Submit BY <3>p, <2>1 DEF Draft!Submit
        <3>r. CASE Draft!SubmitFails BY <3>r, <2>1, <1>n DEF Draft!SubmitFails
        <3> QED BY ONLY Draft!DraftNext \/ UNCHANGED draftVars, <1>2, <3>a, <3>b, <3>c, <3>d, <3>e,
                  <3>g, <3>h, <3>i, <3>j, <3>k, <3>l, <3>m, <3>o, <3>p, <3>r DEF Draft!DraftNext
      <2> QED BY <2>2, <2>3
    <1> QED BY <1>1, <1>2

LEMMA DraftAloneStep ==
    ASSUME DraftTexts, DraftAlone, Draft!DraftNext \/ UNCHANGED draftVars
    PROVE  DraftAlone'
PROOF
    <1> USE DEF DraftAlone
    <1>w. waiting \in Seq(Requests) BY DEF DraftTexts
    <1>1. ~ignoreOnce'
      BY DEF Draft!DraftNext, draftVars, Draft!Mount, Draft!Navigate, Draft!LeavePage,
             Draft!Unload, Draft!Enable, Draft!Type, Draft!PickRefs, Draft!Erase, Draft!Save,
             Draft!PutDone, Draft!ClearDone, Draft!Got, Draft!ClearButton, Draft!Submit,
             Draft!Submitted, Draft!SubmitFails, Draft!Touched
    <1>g. ASSUME Draft!Got
          PROVE  /\ (restore' = "over" /\ (here => enabled)) \/ UNCHANGED restore
                 /\ ~draftTimer => ~draftTimer'
                 /\ UNCHANGED <<here, enabled>>
      <2>1. /\ Len(waiting) >= 1 /\ Len(waiting) \in Nat /\ Head(waiting) = waiting[1]
            /\ waiting[1].op = "get"
        BY <1>g, GotWell
      <2>2. Head(waiting).mine => Reads(waiting[1]) BY <2>1 DEF Reads
      <2>3. Head(waiting).mine => (here => enabled) BY <2>1, <2>2
      <2> QED BY <1>g, <2>3 DEF Draft!Got
    <1>2. here' => (~enabled' <=> restore' = "no") /\ restore' \in {"no", "reading", "over"}
      BY <1>g
      DEF Draft!DraftNext, draftVars, Draft!Mount, Draft!Navigate, Draft!LeavePage,
          Draft!Unload, Draft!Enable, Draft!Type, Draft!PickRefs, Draft!Erase, Draft!Save,
          Draft!PutDone, Draft!ClearDone, Draft!ClearButton, Draft!Submit, Draft!Submitted,
          Draft!SubmitFails
    <1>3. here' /\ ~enabled' => ~draftTimer'
      BY <1>g
      DEF Draft!DraftNext, draftVars, Draft!Mount, Draft!Navigate, Draft!LeavePage,
          Draft!Unload, Draft!Enable, Draft!Type, Draft!PickRefs, Draft!Erase, Draft!Save,
          Draft!PutDone, Draft!ClearDone, Draft!ClearButton, Draft!Submit, Draft!Submitted,
          Draft!SubmitFails, Draft!Touched
    \* who leaves, stays away or stays, and the requests of a page that is gone
    <1>a. CASE Draft!Navigate \/ Draft!Unload \/ Draft!Submitted
      <2>1. ~here' BY <1>a DEF Draft!Navigate, Draft!LeavePage, Draft!Unload, Draft!Submitted
      <2>2. ASSUME waiting' = Draft!Orphaned \/ waiting' = <<>>
            PROVE  \A i \in 1 .. Len(waiting') : ~waiting'[i].mine
        BY <1>w, <2>2, QueueOrphaned
      <2>3. ASSUME waiting' = Append(Draft!Orphaned, [Draft!Clear EXCEPT !.mine = FALSE])
            PROVE  \A i \in 1 .. Len(waiting') : ~waiting'[i].mine
        <3> DEFINE q == [Draft!Clear EXCEPT !.mine = FALSE]
        <3>1. /\ q \in Requests /\ ~q.mine /\ Draft!Orphaned \in Seq(Requests)
              /\ \A i \in 1 .. Len(Draft!Orphaned) : ~Draft!Orphaned[i].mine
          BY <1>w, RequestsWell, QueueOrphaned
        <3>2. waiting' = Append(Draft!Orphaned, q) BY <2>3
        <3> HIDE DEF q
        <3>3. /\ waiting' \in Seq(Requests) /\ Len(waiting') = Len(Draft!Orphaned) + 1
              /\ waiting'[Len(Draft!Orphaned) + 1] = q
              /\ \A i \in 1 .. Len(Draft!Orphaned) : waiting'[i] = Draft!Orphaned[i]
          BY <3>1, <3>2, QueueAppended
        <3> QED BY <3>1, <3>3
      <2> QED BY <1>a, <1>1, <2>1, <2>2, <2>3
              DEF Draft!Navigate, Draft!LeavePage, Draft!Unload, Draft!Submitted
    <1>b. CASE ~(Draft!Navigate \/ Draft!Unload \/ Draft!Submitted)
      <2>1. ASSUME ~here', NEW i \in 1 .. Len(waiting') PROVE ~waiting'[i].mine
        <3>n. \/ Draft!PutDone \/ Draft!ClearDone \/ Draft!Got
              \/ UNCHANGED <<here, waiting>>
              \/ Draft!Mount \/ Draft!Enable \/ Draft!Save \/ Draft!ClearButton
          BY <1>b
          DEF Draft!DraftNext, draftVars, Draft!Type, Draft!PickRefs, Draft!Erase,
              Draft!Submit, Draft!SubmitFails
        <3>m. here' = here \/ here'
          BY ONLY <3>n
          DEF Draft!Mount, Draft!Enable, Draft!Save, Draft!PutDone, Draft!ClearDone, Draft!Got,
              Draft!ClearButton
        <3>0. \/ ~here /\ (Draft!PutDone \/ Draft!ClearDone \/ Draft!Got)
              \/ ~here /\ UNCHANGED waiting
          BY ONLY <2>1, <3>n, <3>m
          DEF Draft!Mount, Draft!Enable, Draft!Save, Draft!ClearButton
        <3>1. /\ ~here
              /\ \/ waiting' = waiting
                 \/ waiting # <<>> /\ waiting' = Tail(waiting)
                 \/ Draft!Got
          BY ONLY <3>0 DEF Draft!PutDone, Draft!ClearDone
        <3>2. \A j \in 1 .. Len(waiting) : ~waiting[j].mine BY <3>1
        <3>3. Draft!Got => waiting # <<>> /\ waiting' = Tail(waiting)
          <4>1. Draft!Got => waiting # <<>> /\ (waiting[1].mine \/ waiting' = Tail(waiting))
                              /\ 1 \in 1 .. Len(waiting)
            BY GotWell
          <4> QED BY <4>1, <3>2
        <3>4. CASE waiting' = waiting BY <3>2, <3>4, <2>1
        <3>5. CASE waiting # <<>> /\ waiting' = Tail(waiting)
          <4>1. /\ Len(waiting) \in Nat /\ Len(waiting') = Len(waiting) - 1
                /\ \A j \in 1 .. Len(waiting) - 1 : waiting'[j] = waiting[j + 1]
            BY <1>w, <3>5, QueueServed
          <4>2. i \in 1 .. Len(waiting) - 1 /\ i + 1 \in 1 .. Len(waiting) BY <2>1, <4>1
          <4> QED BY <3>2, <4>1, <4>2
        <3> QED BY <3>1, <3>3, <3>4, <3>5
      <2>2. ASSUME here', ~enabled', NEW i \in 1 .. Len(waiting') PROVE ~Reads(waiting'[i])
        <3>1. \A j \in 1 .. Len(waiting) : ~Reads(waiting[j])
          <4>1. CASE here /\ ~enabled BY <4>1
          <4>2. CASE ~here BY <4>2 DEF Reads
          <4>3. CASE here /\ enabled
            BY <1>b, <2>2, <4>3
            DEF Draft!DraftNext, draftVars, Draft!Mount, Draft!Enable, Draft!Type,
                Draft!PickRefs, Draft!Erase, Draft!Save, Draft!PutDone, Draft!ClearDone, Draft!Got,
                Draft!ClearButton, Draft!Submit, Draft!SubmitFails
          <4> QED BY <4>1, <4>2, <4>3
        <3>2. Reads(waiting'[i]) => \E j \in 1 .. Len(waiting) : waiting'[i] = waiting[j]
          BY <2>2, QueueStep
        <3> QED BY <3>1, <3>2
      <2> QED BY <1>1, <1>2, <1>3, <2>1, <2>2
    <1> QED BY <1>a, <1>b

\* Only the arrival on the page makes it smooth.
LEMMA SmoothBefore ==
    ASSUME DraftTexts, Draft!DraftNext \/ UNCHANGED draftVars, Smooth', ~Draft!Mount
    PROVE  Smooth
PROOF
    <1> USE DEF Smooth, Draft!DraftNext, draftVars, Draft!Navigate, Draft!LeavePage,
                Draft!Unload, Draft!Enable, Draft!Type, Draft!PickRefs, Draft!Erase, Draft!Save,
                Draft!PutDone, Draft!ClearDone, Draft!Got, Draft!ClearButton, Draft!Submit,
                Draft!Submitted, Draft!SubmitFails
    <1>1. here OBVIOUS
    <1>2. draftFaults' = draftFaults \/ draftFaults' = draftFaults + 1 OBVIOUS
    <1>3. draftFaults \in Nat /\ draftFaults' = 0 BY DEF DraftTexts
    <1>4. draftFaults = 0 BY ONLY <1>2, <1>3
    <1>5. ~overtaken OBVIOUS
    <1> QED BY <1>1, <1>4, <1>5

\* Under a restore that reads, the read it waits for is the last request.
LEMMA DraftReadStep ==
    ASSUME DraftTexts, DraftAlone, DraftRead, Draft!DraftNext \/ UNCHANGED draftVars
    PROVE  DraftRead'
PROOF
    <1>w. waiting \in Seq(Requests) /\ Len(waiting) \in Nat /\ refs \in Nat BY DEF DraftTexts
    <1>s. SUFFICES ASSUME Smooth' PROVE DraftRead' BY DEF DraftRead
    <1>m. CASE Draft!Mount
      <2>1. restore' = "no" /\ \A i \in 1 .. Len(waiting') : ~Reads(waiting'[i])
        BY <1>m DEF Draft!Mount, DraftAlone, Reads
      <2> QED BY <2>1 DEF DraftRead
    <1>n. CASE ~Draft!Mount
      <2>1. Smooth BY <1>s, <1>n, SmoothBefore
      <2> DEFINE Alone(s) == \A i \in 1 .. Len(s) : ~Reads(s[i])
      <2>2. /\ restore # "reading" => Alone(waiting)
            /\ restore = "reading" =>
                 /\ draftTimer /\ savedText # Draft!NoDraft /\ waiting # <<>>
                 /\ Reads(waiting[Len(waiting)])
                 /\ waiting[Len(waiting)].text = savedText
                 /\ waiting[Len(waiting)].count = savedCount
                 /\ \A i \in 1 .. Len(waiting) - 1 : ~Reads(waiting[i])
        BY <2>1 DEF DraftRead
      <2>0. CASE UNCHANGED <<restore, waiting, savedText, savedCount, draftTimer>>
        BY <2>0, <2>2 DEF DraftRead
      <2>a. CASE restore # "reading" /\ restore' # "reading"
        <3>1. Draft!Enable => Alone(waiting')
          <4>1. ASSUME Draft!Enable PROVE waiting' = waiting \/ waiting' = Append(waiting, Draft!Clear)
            BY <4>1, <2>a DEF Draft!Enable, Draft!Ask
          <4>2. ASSUME waiting' = Append(waiting, Draft!Clear) PROVE Alone(waiting')
            <5>1. Draft!Clear \in Requests /\ ~Reads(Draft!Clear) BY RequestsWell
            <5>2. /\ waiting' \in Seq(Requests) /\ Len(waiting') = Len(waiting) + 1
                  /\ waiting'[Len(waiting) + 1] = Draft!Clear
                  /\ \A i \in 1 .. Len(waiting) : waiting'[i] = waiting[i]
              BY <1>w, <4>2, <5>1, QueueAppended
            <5> QED BY <2>2, <2>a, <5>1, <5>2
          <4> QED BY <4>1, <4>2, <2>2, <2>a
        <3>2. ~Draft!Enable => Alone(waiting')
          <4> SUFFICES ASSUME ~Draft!Enable, NEW i \in 1 .. Len(waiting'), Reads(waiting'[i])
                       PROVE  FALSE
            OBVIOUS
          <4>1. \E j \in 1 .. Len(waiting) : waiting'[i] = waiting[j] BY <2>a, QueueStep
          <4> QED BY <4>1, <2>2, <2>a
        <3> QED BY <2>a, <3>1, <3>2 DEF DraftRead
      <2>b. CASE restore # "reading" /\ restore' = "reading"
        <3>1. /\ waiting' = Append(waiting, Draft!Get) /\ draftTimer' /\ savedText # Draft!NoDraft
              /\ UNCHANGED <<savedText, savedCount>>
          BY <1>n, <2>b
          DEF Draft!DraftNext, draftVars, Draft!Navigate, Draft!LeavePage,
              Draft!Unload, Draft!Enable, Draft!Ask, Draft!Type, Draft!PickRefs, Draft!Erase,
              Draft!Save, Draft!PutDone, Draft!ClearDone, Draft!Got, Draft!ClearButton,
              Draft!Submit, Draft!Submitted, Draft!SubmitFails
        <3>2. /\ Draft!Get \in Requests /\ Reads(Draft!Get) /\ Draft!Get.text = savedText
              /\ Draft!Get.count = savedCount
          BY RequestsWell
        <3>3. /\ waiting' \in Seq(Requests) /\ Len(waiting') = Len(waiting) + 1
              /\ waiting'[Len(waiting) + 1] = Draft!Get /\ waiting' # <<>>
              /\ \A i \in 1 .. Len(waiting) : waiting'[i] = waiting[i]
          BY <1>w, <3>1, <3>2, QueueAppended
        <3>4. \A i \in 1 .. Len(waiting') - 1 : ~Reads(waiting'[i])
          BY <1>w, <2>2, <2>b, <3>3
        <3> QED BY <2>b, <3>1, <3>2, <3>3, <3>4 DEF DraftRead
      <2>c. CASE restore = "reading"
        <3>0. enabled /\ ~ignoreOnce /\ here BY <2>1, <2>c DEF DraftAlone, Smooth
        <3>1. CASE Draft!Navigate \/ Draft!Unload \/ Draft!Submitted \/ Draft!Enable
                     \/ Draft!Save \/ Draft!ClearButton
          BY <1>s, <2>2, <2>c, <3>0, <3>1
          DEF Smooth, Draft!Navigate, Draft!LeavePage, Draft!Unload, Draft!Submitted, Draft!Enable,
              Draft!Save, Draft!ClearButton
        <3>2. CASE UNCHANGED draftVars \/ Draft!Type \/ Draft!PickRefs \/ Draft!Erase
                     \/ Draft!Submit \/ Draft!SubmitFails
          <4>1. /\ UNCHANGED <<restore, waiting, savedText, savedCount>>
                /\ draftTimer' = TRUE \/ UNCHANGED draftTimer
            BY <3>0, <3>2
            DEF draftVars, Draft!Type, Draft!PickRefs, Draft!Erase, Draft!Submit,
                Draft!SubmitFails, Draft!Touched
          <4> QED BY <2>2, <2>c, <4>1 DEF DraftRead
        \* one request less, and not the one that is waited for
        <3>t. ASSUME waiting' = Tail(waiting), Len(waiting) > 1,
                     UNCHANGED <<restore, savedText, savedCount, draftTimer>>
              PROVE  DraftRead'
          <4>1. /\ waiting # <<>> /\ waiting' \in Seq(Requests) /\ Len(waiting') = Len(waiting) - 1
                /\ \A i \in 1 .. Len(waiting) - 1 : waiting'[i] = waiting[i + 1]
            BY <1>w, <2>2, <2>c, <3>t, QueueServed
          <4>2. waiting' # <<>> /\ waiting'[Len(waiting')] = waiting[Len(waiting)]
            <5>1. Len(waiting') \in 1 .. Len(waiting) - 1 /\ Len(waiting') + 1 = Len(waiting)
              BY ONLY <1>w, <3>t, <4>1
            <5>2. waiting'[Len(waiting')] = waiting[Len(waiting') + 1] BY ONLY <4>1, <5>1
            <5>3. waiting' # <<>> BY ONLY <4>1, <5>1
            <5> QED BY ONLY <5>1, <5>2, <5>3
          <4>3. ASSUME NEW i \in 1 .. Len(waiting') - 1 PROVE ~Reads(waiting'[i])
            <5>1. i + 1 \in 1 .. Len(waiting) - 1 /\ i \in 1 .. Len(waiting) - 1 BY <1>w, <4>1
            <5> QED BY <2>2, <2>c, <4>1, <5>1
          <4> QED BY <2>2, <2>c, <3>t, <4>2, <4>3 DEF DraftRead
        <3>l. /\ Len(waiting) >= 1 /\ Head(waiting) = waiting[1]
              /\ Len(waiting) = 1 => Reads(waiting[1]) /\ Tail(waiting) = <<>>
              /\ Len(waiting) > 1 => ~Reads(waiting[1])
          <4>1. Len(waiting) > 1 => 1 \in 1 .. Len(waiting) - 1 BY <1>w
          <4> QED BY <1>w, <2>2, <2>c, <4>1, QueueServed
        <3>x. Len(waiting) = 1 \/ Len(waiting) > 1
          <4>1. Len(waiting) \in Nat /\ Len(waiting) >= 1 BY <1>w, <3>l
          <4>2. \A n \in Nat : n >= 1 => n = 1 \/ n > 1 OBVIOUS
          <4> QED BY ONLY <4>1, <4>2, Zenon
        <3>3. CASE Draft!PutDone \/ Draft!ClearDone
          <4>1. Head(waiting).op # "get" /\ waiting' = Tail(waiting)
                /\ UNCHANGED <<restore, savedText, savedCount, draftTimer>>
            BY <3>3 DEF Draft!PutDone, Draft!ClearDone
          <4>2. Len(waiting) # 1 BY ONLY <3>l, <4>1 DEF Reads
          <4>3. Len(waiting) > 1 BY ONLY <3>x, <4>2
          <4> QED BY <3>t, <4>1, <4>3
        <3>4. CASE Draft!Got
          <4>1. CASE Len(waiting) = 1
            <5> DEFINE q == [Draft!Clear EXCEPT !.mine = FALSE]
            <5>1. /\ restore' = "over"
                  /\ waiting' = <<>> \/ waiting' = Append(<<>>, q)
              BY <3>4, <3>l, <4>1 DEF Draft!Got, Reads
            <5>2. q \in Requests /\ ~Reads(q) BY RequestsWell
            <5> HIDE DEF q
            <5>3. \A i \in 1 .. Len(waiting') : ~Reads(waiting'[i]) BY <5>1, <5>2
            <5> QED BY <5>1, <5>3 DEF DraftRead
          <4>2. CASE Len(waiting) > 1
            <5>1. ~Head(waiting).mine BY <3>4, <3>l, <4>2 DEF Draft!Got, Reads
            <5>2. waiting' = Tail(waiting) /\ UNCHANGED <<restore, savedText, savedCount, draftTimer>>
              BY <3>4, <5>1 DEF Draft!Got
            <5> QED BY <3>t, <4>2, <5>2
          <4>3. Len(waiting) = 1 \/ Len(waiting) > 1 BY <3>x
          <4> QED BY <4>1, <4>2, <4>3
        <3> QED BY <1>n, <3>1, <3>2, <3>3, <3>4 DEF Draft!DraftNext
      <2> QED BY <2>a, <2>b, <2>c
    <1> QED BY <1>m, <1>n

\* the last answer of a restore leaves storage and form alike
LEMMA RestoredWell ==
    ASSUME DraftTexts, DraftAlone, DraftRead, Smooth, Draft!Got, restore = "reading", restore' = "over"
    PROVE  DraftQuiet'
PROOF
    <1> DEFINE q == [Draft!Clear EXCEPT !.mine = FALSE]
    <1>1. waiting \in Seq(Requests) /\ Len(waiting) \in Nat BY DEF DraftTexts
    <1>2. /\ draftTimer /\ savedText # Draft!NoDraft /\ waiting # <<>>
          /\ Reads(waiting[Len(waiting)])
          /\ waiting[Len(waiting)].text = savedText
          /\ waiting[Len(waiting)].count = savedCount
          /\ \A i \in 1 .. Len(waiting) - 1 : ~Reads(waiting[i])
      BY DEF DraftRead
    <1>4. Head(waiting).mine /\ Head(waiting).op = "get" BY DEF Draft!Got
    <1>5. Head(waiting) = waiting[1] BY <1>1, <1>2, QueueServed
    <1>6. Len(waiting) = 1
      <2>1. Reads(waiting[1]) BY <1>4, <1>5 DEF Reads
      <2>2. ~(1 \in 1 .. Len(waiting) - 1) BY <1>2, <2>1
      <2>3. Len(waiting) >= 1 BY <1>1, <1>2, QueueServed
      <2>4. \A n \in Nat : n >= 1 /\ ~(1 \in 1 .. n - 1) => n = 1 OBVIOUS
      <2> QED BY ONLY <1>1, <2>2, <2>3, <2>4, Zenon
    <1>7. Head(waiting).text = savedText /\ Head(waiting).count = savedCount BY <1>2, <1>5, <1>6
    <1>8. Tail(waiting) = <<>> BY <1>1, <1>2, <1>6, QueueServed
    <1>9. /\ UNCHANGED <<savedText, savedCount, savedRefs>>
          /\ waiting' = (IF Draft!Files(savedRefs) # savedCount THEN Append(<<>>, q) ELSE <<>>)
          /\ IF ~(savedText = 0 /\ Draft!Found = 0)
             THEN draftText' = savedText /\ refs' = Draft!Found /\ hasWritten' /\ ~draftTimer'
             ELSE UNCHANGED draftTimer
      BY <1>4, <1>7, <1>8 DEF Draft!Got
    <1>10. Draft!Found = (IF Draft!Files(savedRefs) = savedCount THEN savedRefs ELSE 0)
      BY <1>7 DEF Draft!Found
    <1>11. q \in Requests /\ q.op = "clear" /\ ~q.mine /\ q.refs = 0 BY RequestsWell
    <1> HIDE DEF q
    <1>12. CASE Draft!Files(savedRefs) = savedCount
      <2>1. waiting' = <<>> /\ RefsToCome' = savedRefs /\ Draft!Found = savedRefs
        BY <1>9, <1>10, <1>12 DEF RefsToCome
      <2>2. ToRestore' = <<savedText, Draft!Found>>
        BY <1>2, <1>9, <1>12, <2>1 DEF ToRestore
      <2> QED BY <1>2, <1>9, <2>1, <2>2 DEF DraftQuiet
    <1>13. CASE Draft!Files(savedRefs) # savedCount
      <2>1. waiting' = Append(<<>>, q) /\ Draft!Found = 0 BY <1>9, <1>10, <1>13
      <2>2. waiting' = <<q>> BY <2>1
      <2>3. Len(waiting') = 1 /\ waiting'[1] = q /\ waiting' # <<>> BY <2>2
      <2>4. RefsToCome' = 0 BY <1>11, <2>3 DEF RefsToCome
      <2>5. ToRestore' = <<savedText, 0>>
        BY <1>2, <1>9, <2>4 DEF ToRestore
      <2> QED BY <1>2, <1>9, <1>11, <2>1, <2>3, <2>5 DEF DraftQuiet
    <1> QED BY <1>12, <1>13

LEMMA DraftQuietStep ==
    ASSUME DraftTexts, DraftAlone, DraftRead, DraftQuiet, Draft!DraftNext \/ UNCHANGED draftVars
    PROVE  DraftQuiet'
PROOF
    <1>w. waiting \in Seq(Requests) /\ refs \in Nat /\ draftText \in Nat BY DEF DraftTexts
    <1>s. SUFFICES ASSUME Smooth', restore' = "over" PROVE DraftQuiet' BY DEF DraftQuiet
    <1>n. ~Draft!Mount BY <1>s DEF Draft!Mount
    <1>1. Smooth BY <1>s, <1>n, SmoothBefore
    <1>2. restore \in {"no", "reading", "over"} /\ (~enabled <=> restore = "no") /\ ~ignoreOnce
      BY <1>1 DEF DraftAlone, Smooth
    <1>h. ~Draft!Navigate /\ ~Draft!Unload /\ ~Draft!Submitted
      BY <1>s DEF Smooth, Draft!Navigate, Draft!LeavePage, Draft!Unload, Draft!Submitted
    <1>e. CASE Draft!Enable
      <2>1. savedText' = Draft!NoDraft /\ draftTimer' BY <1>e, <1>s DEF Draft!Enable
      <2> QED BY <2>1 DEF DraftQuiet
    <1>o. CASE Draft!ClearButton
      <2>1. UNCHANGED <<enabled, restore>> /\ savedText' = Draft!NoDraft
        BY <1>o DEF Draft!ClearButton, Draft!Dropped
      <2>2. enabled BY <1>2, <1>s, <2>1
      <2>3. draftTimer' BY <1>o, <1>2, <2>2 DEF Draft!ClearButton
      <2> QED BY <2>1, <2>3 DEF DraftQuiet
    <1>g. CASE Draft!Got
      <2>1. /\ Len(waiting) >= 1 /\ Len(waiting) \in Nat /\ Head(waiting) = waiting[1]
            /\ waiting[1].op = "get" /\ waiting # <<>>
        BY <1>g, GotWell
      <2>2. CASE restore = "reading" BY <1>1, <1>g, <1>s, <2>2, RestoredWell
      <2>3. CASE restore # "reading"
        <3>1. ~Head(waiting).mine BY <1>1, <2>1, <2>3 DEF DraftRead, Reads
        <3>2. UNCHANGED <<restore, savedText, draftText, refs, hasWritten, draftTimer>>
          BY <1>g, <3>1 DEF Draft!Got
        <3>3. restore = "over" BY <1>s, <3>2
        <3>4. savedText = Draft!NoDraft BY <1>1, <2>1, <3>3 DEF DraftQuiet
        <3> QED BY <1>1, <3>2, <3>3, <3>4 DEF DraftQuiet, ToRestore
      <2> QED BY <2>2, <2>3
    <1>r. CASE ~Draft!Enable /\ ~Draft!ClearButton /\ ~Draft!Got
      <2>1. UNCHANGED <<restore, enabled>>
        BY <1>n, <1>h, <1>r
        DEF Draft!DraftNext, draftVars, Draft!Type, Draft!PickRefs, Draft!Erase, Draft!Save,
            Draft!PutDone, Draft!ClearDone, Draft!Submit, Draft!SubmitFails
      <2>2. restore = "over" /\ enabled BY <1>2, <1>s, <2>1
      <2>q. /\ savedText # Draft!NoDraft =>
                 \/ waiting = <<>>
                 \/ Len(waiting) = 1 /\ waiting[1].op = "put" /\ waiting[1].mine
                 \/ Len(waiting) = 1 /\ waiting[1].op = "clear" /\ ~waiting[1].mine
                                     /\ waiting[1].refs = 0
            /\ ~draftTimer => ToRestore = <<draftText, refs>>
            /\ ~hasWritten /\ savedText # Draft!NoDraft =>
                 ToRestore = <<0, 0>> \/ (waiting # <<>> /\ waiting[1].op = "put")
        BY <1>1, <2>2 DEF DraftQuiet
      <2>a. CASE UNCHANGED draftVars \/ Draft!Submit \/ Draft!SubmitFails
        <3>1. UNCHANGED <<savedText, savedCount, savedRefs, waiting, draftTimer, draftText, refs,
                          hasWritten>>
          BY <2>a DEF draftVars, Draft!Submit, Draft!SubmitFails
        <3> QED BY <2>q, <3>1 DEF DraftQuiet, ToRestore, RefsToCome
      <2>b. CASE Draft!Type \/ Draft!PickRefs \/ Draft!Erase
        <3>1. draftTimer' /\ UNCHANGED <<savedText, savedCount, savedRefs, waiting, hasWritten>>
          BY <1>2, <2>2, <2>b DEF Draft!Type, Draft!PickRefs, Draft!Erase, Draft!Touched
        <3> QED BY <2>q, <3>1 DEF DraftQuiet, ToRestore, RefsToCome
      <2>c. CASE Draft!Save
        <3>1. waiting = <<>> BY <2>c, <1>s DEF Draft!Save, Smooth
        <3>2. CASE ~Draft!FormIsEmpty
          <4>1. waiting' = Append(<<>>, Draft!Put(refs))
            BY <2>c, <3>1, <3>2 DEF Draft!Save, Draft!Ask
          <4>2. Draft!Put(refs) \in Requests /\ Draft!Put(refs).refs = refs
                /\ Draft!Put(refs).op = "put" /\ Draft!Put(refs).mine
            BY <1>w, RequestsWell
          <4>3. Len(waiting') = 1 /\ waiting'[1] = Draft!Put(refs) /\ waiting' # <<>>
            <5>1. waiting' = <<Draft!Put(refs)>> BY <4>1
            <5> QED BY <5>1
          <4>4. draftFaults' # draftFaults + 1
            <5>1. draftFaults = 0 /\ draftFaults' = 0 BY <1>s, <1>1 DEF Smooth
            <5> QED BY <5>1
          <4>5. /\ savedText' = draftText /\ savedCount' = Draft!Files(refs)
                /\ UNCHANGED <<draftText, refs>>
            BY <2>c, <3>2, <4>4 DEF Draft!Save
          <4>6. savedText' # Draft!NoDraft BY <1>w, <4>5 DEF Draft!NoDraft
          <4>7. RefsToCome' = refs BY <4>2, <4>3 DEF RefsToCome
          <4>8. ToRestore' = <<draftText', refs'>> BY <4>5, <4>6, <4>7 DEF ToRestore
          <4> QED BY <4>2, <4>3, <4>8 DEF DraftQuiet
        <3>3. CASE Draft!FormIsEmpty /\ hasWritten
          <4>1. /\ savedText' = Draft!NoDraft /\ UNCHANGED <<draftText, refs>>
                /\ draftText = 0 /\ refs = 0
            BY <2>c, <3>3 DEF Draft!Save, Draft!FormIsEmpty
          <4> QED BY <4>1 DEF DraftQuiet, ToRestore
        <3>4. CASE Draft!FormIsEmpty /\ ~hasWritten
          <4>1. /\ UNCHANGED <<savedText, savedCount, savedRefs, waiting, draftText, refs, hasWritten>>
                /\ draftText = 0 /\ refs = 0
            BY <2>c, <3>4 DEF Draft!Save, Draft!FormIsEmpty
          <4>2. ToRestore = <<0, 0>> BY <2>q, <3>1, <3>4 DEF ToRestore
          <4>3. ToRestore' = <<0, 0>> BY <4>1, <4>2 DEF ToRestore, RefsToCome
          <4> QED BY <3>1, <4>1, <4>3 DEF DraftQuiet
        <3> QED BY <3>2, <3>3, <3>4
      <2>d. CASE Draft!PutDone \/ Draft!ClearDone
        <3>1. /\ waiting # <<>> /\ waiting' = Tail(waiting) /\ Head(waiting).op \in {"put", "clear"}
              /\ UNCHANGED <<savedText, savedCount, draftText, refs, draftTimer>>
          BY <2>d DEF Draft!PutDone, Draft!ClearDone
        <3>2. CASE savedText = Draft!NoDraft
          BY <2>q, <3>1, <3>2 DEF DraftQuiet, ToRestore
        <3>3. CASE savedText # Draft!NoDraft
          <4>1. Len(waiting) = 1 /\ Head(waiting) = waiting[1]
            BY <1>w, <2>q, <3>1, <3>3, QueueServed
          <4>2. waiting' = <<>> BY <1>w, <3>1, <4>1, QueueServed
          <4>3. CASE Draft!PutDone
            <5>1. draftFaults' # draftFaults + 1
              <6>1. draftFaults = 0 /\ draftFaults' = 0 BY <1>s, <1>1 DEF Smooth
              <6> QED BY <6>1
            <5>2. savedRefs' = waiting[1].refs /\ waiting[1].op = "put"
              BY <4>1, <4>3, <5>1 DEF Draft!PutDone
            <5>3. waiting[1].mine BY <2>q, <3>1, <3>3, <5>2
            <5>4. hasWritten' BY <4>1, <4>3, <5>3 DEF Draft!PutDone
            <5>5. ToRestore' = ToRestore BY <3>1, <4>2, <5>2 DEF ToRestore, RefsToCome
            <5> QED BY <2>q, <3>1, <4>2, <5>4, <5>5 DEF DraftQuiet
          <4>4. CASE Draft!ClearDone
            <5>1. savedRefs' = 0 /\ waiting[1].op = "clear" BY <4>1, <4>4 DEF Draft!ClearDone
            <5>2. ~waiting[1].mine /\ waiting[1].refs = 0 BY <2>q, <3>1, <3>3, <5>1
            <5>3. hasWritten' <=> hasWritten BY <4>1, <4>4, <5>2 DEF Draft!ClearDone
            <5>4. ToRestore' = ToRestore BY <3>1, <4>2, <5>1, <5>2 DEF ToRestore, RefsToCome
            <5>5. ~hasWritten => ToRestore = <<0, 0>> BY <2>q, <3>3, <5>1
            <5> QED BY <2>q, <3>1, <4>2, <5>3, <5>4, <5>5 DEF DraftQuiet
          <4> QED BY <2>d, <4>3, <4>4
        <3> QED BY <3>2, <3>3
      <2> QED BY ONLY Draft!DraftNext \/ UNCHANGED draftVars, <1>n, <1>h, <1>r, <2>a, <2>b, <2>c,
                <2>d DEF Draft!DraftNext
    <1> QED BY <1>e, <1>o, <1>g, <1>r

LEMMA DraftStart == Draft!DraftInit => DraftInv
  BY DEF Draft!DraftInit, DraftInv, DraftTexts, DraftGone, DraftAlone, DraftRead, DraftQuiet, Smooth,
         Draft!NoDraft

LEMMA DraftStep ==
    ASSUME DraftInv, Draft!DraftNext \/ UNCHANGED draftVars
    PROVE  DraftInv'
  BY DraftTextsStep, DraftGoneStep, DraftAloneStep, DraftReadStep, DraftQuietStep DEF DraftInv

LEMMA DraftIsSafe == DraftInv => Draft!DraftSafe
PROOF
    <1> SUFFICES ASSUME DraftInv PROVE Draft!DraftSafe OBVIOUS
    <1>1. Draft!QuietDraftIsExact
      <2> SUFFICES ASSUME here, restore = "over", ~draftTimer, waiting = <<>>, ~overtaken,
                          draftFaults = 0
                   PROVE  Draft!Restorable = <<draftText, refs>>
        BY DEF Draft!QuietDraftIsExact
      <2>1. ToRestore = <<draftText, refs>> BY DEF DraftInv, DraftQuiet, Smooth
      <2>2. RefsToCome = savedRefs BY DEF RefsToCome
      <2> QED BY <2>1, <2>2 DEF ToRestore, Draft!Restorable
    <1>2. Draft!SubmittedIsGone BY DEF DraftInv, DraftGone, Draft!SubmittedIsGone
    <1> QED BY <1>1, <1>2 DEF Draft!DraftSafe

-----------------------------------------------------------------------------
(* The mask editor                                                         *)

LEMMA MaskNumbers ==
    /\ Mask!NSources \in Nat \ {0} /\ MaxMaskJobs \in Nat /\ MaxMaskEdits \in Nat
    /\ Sources = 1 .. Mask!NSources
PROOF
    <1>1. PICK n \in Nat \ {0} : Sources = 1 .. n
      <2>1. Cardinality(Sources) \in Nat BY ClientAssumption, FS_CardinalityType
      <2>2. Cardinality(Sources) # 0 BY ClientAssumption, FS_EmptySet
      <2> QED BY ClientAssumption, <2>1, <2>2
    <1>2. n \in Sources /\ \A m \in Sources : m <= n BY <1>1
    <1>3. Mask!NSources = n
      <2>1. \A k \in Sources : (\A m \in Sources : m <= k) => k = n BY <1>1
      <2> QED BY <1>2, <2>1 DEF Mask!NSources
    <1>4. MaxMaskJobs \in Nat /\ MaxMaskEdits \in Nat BY ClientAssumption
    <1> QED BY <1>1, <1>3, <1>4

\* what the numbers of images and works are good for
LEMMA MaskImages ==
    /\ 0 \notin Mask!Images /\ 0 \in Mask!Works /\ Mask!Images \subseteq Mask!Works
    /\ 1 \in Mask!Images
    /\ \A n \in Nat : n < MaxMaskJobs => Mask!NSources + (n + 1) \in Mask!Images
    /\ \A n \in Nat : n < MaxMaskEdits => Mask!NSources + MaxMaskJobs + n + 1 \in Mask!Works
  BY MaskNumbers DEF Mask!Images, Mask!Works

MaskPages == {"idle", "submitting", "running", "finalizing", "done", "error"}

MaskValues ==
    /\ maskRoute \in Mask!Images \cup {0} /\ maskJob \in Mask!Images \cup {0}
    /\ maskSrc \in Mask!Images \cup {0} /\ maskResult \in Mask!Images \cup {0}
    /\ maskLoads \subseteq [to : Mask!Images, soft : BOOLEAN, read : BOOLEAN]
    /\ maskText \in Mask!Works /\ maskPaint \in Mask!Works /\ maskLastBlob \in Mask!Works
    /\ maskBase \in Mask!Bases /\ maskBaseTimer \in Mask!Bases
    /\ maskReading \in Mask!Keys \cup {Mask!NotReading}
    /\ maskSteps \in Seq(Mask!Works) /\ Len(maskSteps) <= MaxSteps
    /\ maskCursor \in 0..Len(maskSteps)
    /\ maskWriting \in Mask!Writes
    /\ maskStatus \in MaskPages /\ maskSub \in {"none", "sent", "running", "finalizing"}
    /\ maskMine \in Mask!Keys /\ maskPromoted \subseteq Mask!Images
    /\ maskStored \in [Mask!Keys -> Mask!Records]

MaskCounts ==
    /\ maskMade \in Nat /\ maskMade <= MaxMaskJobs /\ maskEdits \in Nat /\ maskEdits <= MaxMaskEdits
    /\ maskSub \in {"sent", "running"} => maskMade < MaxMaskJobs

\* A page without a picture has no draft, no baseline and no job; a closed
\* page has no picture.
MaskBlank ==
    /\ maskRoute = 0 => maskSrc = 0 /\ maskLoads = {} /\ ~maskLeaving
    /\ maskSrc # 0 => maskRestored
    /\ maskBaseTimer.known => ~maskBase.known
    /\ maskSrc = 0 /\ maskRoute # 0 => maskWriting.rec.paint = 0
    /\ maskSrc = 0 =>
          /\ maskPaint = 0 /\ ~maskTouched /\ ~maskRestored /\ ~maskBase.known
          /\ ~maskBaseTimer.known /\ maskLastBlob = 0 /\ ~maskArmed
          /\ maskReading = Mask!NotReading /\ maskStatus = "idle"
          /\ maskRoute # 0 => maskSub = "none" /\ (~maskLeaving => maskWriting = Mask!Nothing)

\* One load at a time, and where it leads.
MaskLoadsRight ==
    ~maskRaced =>
        /\ \A l \in maskLoads : /\ \A k \in maskLoads : k = l
                                /\ l.read => maskJob = l.to
                                /\ ~l.soft => maskRoute = l.to
        /\ maskRoute # 0 /\ maskLoads = {} /\ ~maskFailed =>
              maskJob = maskRoute /\ maskSrc = maskRoute /\ maskLoaded = maskRoute

\* The draft is read before anything has changed.
MaskReadRight ==
    maskRoute # 0 /\ maskReading # Mask!NotReading /\ ~maskRaced =>
        /\ maskLoads = {} /\ maskReading = Mask!Key /\ maskPaint = 0 /\ maskLastBlob = 0 /\ ~maskTouched
        /\ maskWriting.rec.paint = 0
        /\ maskBase.known => maskText = maskBase.text /\ maskOut = maskBase.out
        /\ ~maskBase.known => maskBaseTimer = [known |-> TRUE, text |-> maskText, out |-> maskOut]
        /\ ~maskLeaving =>
              /\ maskWriting = Mask!Nothing
              /\ maskArmed \/ maskStatus \in {"submitting", "running"} \/ maskBase.known

\* The last PNG is the mask's unless the mask has changed since, and the one
\* being made is that of the mask on screen.
MaskBlobRight ==
    /\ ~maskRaced /\ maskPaint # 0 /\ ~maskBlobDirty /\ maskLastBlob # 0 => maskLastBlob = maskPaint
    /\ /\ ~maskRaced /\ maskRoute # 0 /\ maskPaint # 0
       /\ maskWriting # Mask!Nothing /\ maskWriting.fresh
       => maskWriting.rec.paint = maskPaint

\* What differs from the baseline is stored, or about to be.
MaskKept ==
    Mask!Dirty /\ ~Mask!IsEmpty(Mask!Content) =>
        IF maskWriting = Mask!Nothing THEN maskStored[Mask!Key] = Mask!Content
        ELSE maskWriting.key = Mask!Key /\ maskWriting.rec = Mask!Content

MaskAtRest ==
    /\ maskRoute # 0 /\ ~maskRaced /\ maskWhole /\ maskReading = Mask!NotReading /\ maskLoads = {}
    /\ \/ maskLeaving
       \/ /\ ~maskFailed /\ maskRestored /\ ~maskArmed /\ ~maskUnheard
          /\ maskStatus \notin {"submitting", "running"}

MaskResting == MaskAtRest => MaskKept

MaskInv ==
    /\ MaskValues /\ maskOut \in BOOLEAN /\ MaskCounts
    /\ MaskBlank /\ MaskLoadsRight /\ MaskReadRight /\ MaskBlobRight
    /\ MaskResting

LEMMA MaskStarts == Mask!MaskInit => MaskInv
PROOF
    <1> SUFFICES ASSUME Mask!MaskInit PROVE MaskInv OBVIOUS
    <1>1. Mask!Nothing \in Mask!Writes /\ Mask!Nothing.key \in Mask!Keys /\ Mask!Nothing.rec.paint = 0
          /\ Mask!NoBase \in Mask!Bases /\ Mask!NoRecord \in Mask!Records
      BY MaskImages DEF Mask!Nothing, Mask!NoRecord, Mask!Writes, Mask!Keys, Mask!Records, Mask!NoBase, Mask!Bases
    <1>2. MaskValues /\ maskOut \in BOOLEAN
      <2>1. <<>> \in Seq(Mask!Works) /\ Len(<<>>) = 0 /\ MaxSteps \in Nat BY ClientAssumption
      <2>2. /\ maskSteps \in Seq(Mask!Works) /\ Len(maskSteps) <= MaxSteps
            /\ maskCursor \in 0..Len(maskSteps)
        BY <2>1 DEF Mask!MaskInit
      <2>3. maskWriting \in Mask!Writes BY <1>1 DEF Mask!MaskInit
      <2> QED BY <1>1, <2>2, <2>3, MaskImages DEF Mask!MaskInit, MaskValues, Mask!Nowhere, MaskPages
    <1>3. MaskCounts BY MaskNumbers DEF Mask!MaskInit, MaskCounts
    <1>4. MaskBlank BY <1>1 DEF Mask!MaskInit, MaskBlank, Mask!Nowhere, Mask!NoBase
    <1>5. maskRoute = 0 /\ maskLoads = {} /\ maskPaint = 0 BY DEF Mask!MaskInit, Mask!Nowhere
    <1> QED BY <1>2, <1>3, <1>4, <1>5
            DEF MaskInv, MaskLoadsRight, MaskReadRight, MaskBlobRight, MaskResting, MaskAtRest

MaskJumps == \E i \in DOMAIN maskSteps : Mask!JumpTo(i)
MaskLands == \E png, put \in BOOLEAN : Mask!Landed(png, put)

LEMMA MaskLimit == MaxSteps \in Nat \ {0}
  BY ClientAssumption

\* The history of the mask.
MaskHistory ==
    /\ maskSteps \in Seq(Mask!Works) /\ Len(maskSteps) <= MaxSteps
    /\ maskCursor \in 0..Len(maskSteps)

LEMMA MaskBlankHistory ==
    ASSUME MaskHistory, NEW made \in {<<>>, maskSteps}, Mask!Blank(made)
    PROVE  MaskHistory' /\ maskPaint' = 0
PROOF
    <1>1. CASE made = <<>>
      <2>1. maskSteps' = <<0>> /\ maskCursor' = 1 BY <1>1 DEF Mask!Blank
      <2>2. 0 \in Mask!Works BY MaskImages
      <2>3. <<0>> \in Seq(Mask!Works) /\ Len(<<0>>) = 1 BY <2>2
      <2> QED BY <2>1, <2>3, MaskLimit DEF MaskHistory, Mask!Blank
    <1>2. CASE made # <<>> BY <1>2 DEF MaskHistory, Mask!Blank
    <1> QED BY <1>1, <1>2

LEMMA MaskPushed ==
    ASSUME MaskHistory, NEW p \in Mask!Works
    PROVE  /\ Mask!Pushed(p) \in Seq(Mask!Works) /\ Len(Mask!Pushed(p)) <= MaxSteps
           /\ Len(Mask!Pushed(p)) \in Nat
PROOF
    <1> DEFINE cut  == SubSeq(maskSteps, 1, maskCursor)
               made == Append(cut, p)
    <1>1. Len(maskSteps) \in Nat /\ maskCursor \in Nat /\ maskCursor <= Len(maskSteps)
      BY DEF MaskHistory
    <1>2. cut \in Seq(Mask!Works) /\ Len(cut) = maskCursor BY <1>1 DEF MaskHistory
    <1> HIDE DEF cut
    <1>3. made \in Seq(Mask!Works) /\ Len(made) = maskCursor + 1 BY <1>2
    <1>4. Mask!Pushed(p) = IF Len(made) > MaxSteps THEN Tail(made) ELSE made
      BY DEF Mask!Pushed, cut
    <1> HIDE DEF made
    <1>5. CASE Len(made) > MaxSteps
      <2>1. Tail(made) \in Seq(Mask!Works) /\ Len(Tail(made)) = maskCursor BY <1>1, <1>3
      <2> QED BY <1>1, <1>4, <1>5, <2>1, MaskLimit DEF MaskHistory
    <1>6. CASE ~(Len(made) > MaxSteps) BY <1>1, <1>3, <1>4, <1>6, MaskLimit
    <1> QED BY <1>5, <1>6

LEMMA MaskHistoryStep ==
    ASSUME MaskHistory, maskPaint \in Mask!Works, MaskCounts, Mask!MaskNext,
           \A l \in maskLoads : l.to \in Mask!Images,
           \A k \in Mask!Keys : maskStored[k] \in Mask!Records,
           maskReading \in Mask!Keys \cup {Mask!NotReading}
    PROVE  MaskHistory' /\ maskPaint' \in Mask!Works
PROOF
    <1>z. 0 \in Mask!Works BY MaskImages
    <1>0. CASE UNCHANGED <<maskPaint, maskSteps, maskCursor>> BY <1>0 DEF MaskHistory
    <1>1. ASSUME NEW s \in Mask!Images, Mask!Open(s) \/ Mask!Pick(s) \/ Mask!PickVersion(s)
          PROVE  MaskHistory' /\ maskPaint' \in Mask!Works
      BY <1>0, <1>1 DEF Mask!Open, Mask!Pick, Mask!PickVersion, Mask!stageVars
    <1>2. ASSUME NEW l \in maskLoads, Mask!JobRead(l) \/ \E b \in BOOLEAN : Mask!LoadFails(l, b)
          PROVE  MaskHistory' /\ maskPaint' \in Mask!Works
      BY <1>0, <1>2 DEF Mask!JobRead, Mask!LoadFails, Mask!stageVars
    <1>3. ASSUME NEW l \in maskLoads, Mask!PictureRead(l)
          PROVE  MaskHistory' /\ maskPaint' \in Mask!Works
      <2>1. CASE maskStatus' = "done" BY <1>0, <1>3, <2>1 DEF Mask!PictureRead, Mask!stageVars
      <2>2. CASE maskStatus' # "done"
        <3>1. Mask!Blank(<<>>) \/ Mask!Blank(maskSteps) BY <1>3, <2>2 DEF Mask!PictureRead
        <3> QED BY <1>z, <3>1, MaskBlankHistory
      <2> QED BY <2>1, <2>2
    <1>4. CASE (\E v \in {0, Mask!NewValue} : Mask!Type(v)) \/ Mask!ToggleMode
      BY <1>0, <1>4 DEF Mask!Type, Mask!ToggleMode, Mask!stageVars
    <1>5. CASE Mask!Stroke
      <2>1. Mask!NewValue \in Mask!Works
        BY <1>5, MaskImages DEF MaskCounts, Mask!Stroke, Mask!Edited, Mask!NewValue
      <2>2. /\ maskSteps' = Mask!Pushed(Mask!NewValue) /\ maskCursor' = Len(maskSteps')
            /\ maskPaint' = Mask!NewValue
        BY <1>5 DEF Mask!Stroke, Mask!Marked
      <2>3. /\ Mask!Pushed(Mask!NewValue) \in Seq(Mask!Works)
            /\ Len(Mask!Pushed(Mask!NewValue)) <= MaxSteps
            /\ Len(Mask!Pushed(Mask!NewValue)) \in Nat
        BY ONLY <2>1, MaskHistory, MaskPushed
      <2> QED BY ONLY <2>1, <2>2, <2>3 DEF MaskHistory
    <1>6. ASSUME NEW i \in DOMAIN maskSteps, Mask!JumpTo(i)
          PROVE  MaskHistory' /\ maskPaint' \in Mask!Works
      <2>1. maskSteps' = maskSteps /\ maskCursor' = i /\ maskPaint' = maskSteps[i]
        BY <1>6 DEF Mask!JumpTo, Mask!Marked
      <2>2. i \in 1 .. Len(maskSteps) /\ maskSteps[i] \in Mask!Works BY DEF MaskHistory
      <2> QED BY <2>1, <2>2 DEF MaskHistory
    <1>7. CASE \/ Mask!BaseTimerFires \/ Mask!SaveFires \/ Mask!Back
               \/ MaskLands
      BY <1>0, <1>7 DEF MaskLands, Mask!BaseTimerFires, Mask!SaveFires, Mask!Back, Mask!Landed, Mask!stageVars
    <1>8. CASE Mask!Restored
      <2>1. maskReading \in Mask!Keys BY <1>8 DEF Mask!Restored
      <2> DEFINE p == maskStored[maskReading].paint
      <2>2. p \in Mask!Works BY <2>1 DEF Mask!Records
      <2>3. \/ UNCHANGED <<maskPaint, maskSteps, maskCursor>>
            \/ maskPaint' = p /\ maskSteps' = <<p>> /\ maskCursor' = 1
        BY <1>8 DEF Mask!Restored, Mask!stageVars
      <2> HIDE DEF p
      <2>4. <<p>> \in Seq(Mask!Works) /\ Len(<<p>>) = 1 BY <2>2
      <2>5. CASE maskPaint' = p /\ maskSteps' = <<p>> /\ maskCursor' = 1
        <3>1. MaxSteps >= 1 BY MaskLimit
        <3>2. 1 \in 0 .. Len(maskSteps') BY <2>4, <2>5
        <3> QED BY <2>2, <2>4, <2>5, <3>1, <3>2 DEF MaskHistory
      <2> QED BY <1>0, <2>3, <2>5
    <1>9. CASE Mask!Closed
      <2>1. maskPaint' = 0 /\ maskSteps' = <<>> /\ maskCursor' = 0 BY <1>9 DEF Mask!Closed
      <2>2. <<>> \in Seq(Mask!Works) /\ Len(<<>>) = 0 OBVIOUS
      <2> QED BY <1>z, <2>1, <2>2, MaskLimit DEF MaskHistory
    <1>10. Mask!Left \/ Mask!LeaveLocked \/ Mask!Unmount \/ (\E b \in BOOLEAN : Mask!TabGone(b))
             => Mask!Closed
      BY DEF Mask!Left, Mask!LeaveLocked, Mask!Unmount, Mask!TabGone
    <1>11. CASE Mask!Submit \/ Mask!Accepted \/ Mask!SubmissionFails \/ Mask!Succeeded \/ Mask!Shown
      BY <1>0, <1>11 DEF Mask!Submit, Mask!Accepted, Mask!SubmissionFails, Mask!Succeeded, Mask!Shown,
             Mask!pagePart, Mask!stageVars
    <1>12. CASE Mask!Discard
      <2>1. Mask!Blank(maskSteps) \/ UNCHANGED <<maskPaint, maskSteps, maskCursor>>
        BY <1>12 DEF Mask!Discard, Mask!stageVars
      <2> QED BY <1>0, <1>z, <2>1, MaskBlankHistory
    <1>13. CASE Mask!Promote
      <2>1. Mask!Blank(<<>>) \/ (maskSteps' = <<>> /\ maskCursor' = 0 /\ UNCHANGED maskPaint)
        BY <1>13 DEF Mask!Promote
      <2>2. CASE Mask!Blank(<<>>) BY <1>z, <2>2, MaskBlankHistory
      <2>3. CASE maskSteps' = <<>> /\ maskCursor' = 0 /\ UNCHANGED maskPaint
        <3>1. <<>> \in Seq(Mask!Works) /\ Len(<<>>) = 0 OBVIOUS
        <3> QED BY <2>3, <3>1, MaskLimit DEF MaskHistory
      <2> QED BY <2>1, <2>2, <2>3
    <1> QED BY ONLY Mask!MaskNext, <1>1, <1>2, <1>3, <1>4, <1>5, <1>6, <1>7, <1>8, <1>9, <1>10,
               <1>11, <1>12, <1>13
            DEF Mask!MaskNext, MaskJumps, MaskLands

\* The values of a step but for the history and the mask.
MaskRestValues ==
    /\ maskRoute \in Mask!Images \cup {0} /\ maskJob \in Mask!Images \cup {0}
    /\ maskSrc \in Mask!Images \cup {0} /\ maskResult \in Mask!Images \cup {0}
    /\ maskLoads \subseteq [to : Mask!Images, soft : BOOLEAN, read : BOOLEAN]
    /\ maskText \in Mask!Works /\ maskLastBlob \in Mask!Works
    /\ maskBase \in Mask!Bases /\ maskBaseTimer \in Mask!Bases
    /\ maskReading \in Mask!Keys \cup {Mask!NotReading}
    /\ maskWriting \in Mask!Writes
    /\ maskStatus \in MaskPages /\ maskSub \in {"none", "sent", "running", "finalizing"}
    /\ maskMine \in Mask!Keys /\ maskPromoted \subseteq Mask!Images
    /\ maskStored \in [Mask!Keys -> Mask!Records]

\* A load for the address joins those under way.
LEMMA MaskUrl ==
    ASSUME NEW u \in Mask!Images, NEW j,
           NEW under \in SUBSET [to : Mask!Images, soft : BOOLEAN, read : BOOLEAN],
           Mask!UrlEffect(u, j, under)
    PROVE  maskLoads' \subseteq [to : Mask!Images, soft : BOOLEAN, read : BOOLEAN]
PROOF
    <1>1. Mask!Loading(u, FALSE) \in [to : Mask!Images, soft : BOOLEAN, read : BOOLEAN]
      BY DEF Mask!Loading
    <1>2. maskLoads' \subseteq under \cup {Mask!Loading(u, FALSE)} BY DEF Mask!UrlEffect
    <1> QED BY <1>1, <1>2

LEMMA MaskRestValuesStep ==
    ASSUME MaskRestValues, maskPaint \in Mask!Works, maskOut \in BOOLEAN, MaskCounts, MaskBlank,
           Mask!MaskNext
    PROVE  MaskRestValues' /\ maskOut' \in BOOLEAN
PROOF
    <1> USE MaskImages DEF Mask!Nowhere
    <1>n. /\ Mask!Nothing \in Mask!Writes
          /\ Mask!NoBase \in Mask!Bases /\ Mask!NoRecord \in Mask!Records
      BY DEF Mask!Nothing, Mask!NoRecord, Mask!Writes, Mask!Keys, Mask!Records, Mask!NoBase, Mask!Bases
    <1>l. \A s \in Mask!Images, b \in BOOLEAN :
             Mask!Loading(s, b) \in [to : Mask!Images, soft : BOOLEAN, read : BOOLEAN]
      BY DEF Mask!Loading
    <1>1. ASSUME NEW s \in Mask!Images, Mask!Open(s) PROVE MaskRestValues' /\ maskOut' \in BOOLEAN
      BY <1>1 DEF MaskRestValues, Mask!Open, Mask!Loading, Mask!draftVars, Mask!jobVars
    <1>2. ASSUME NEW s \in Mask!Images, Mask!Pick(s) PROVE MaskRestValues' /\ maskOut' \in BOOLEAN
      BY <1>l, <1>2 DEF MaskRestValues, Mask!Pick, Mask!draftVars, Mask!jobVars
    <1>3. ASSUME NEW s \in Mask!Images, Mask!PickVersion(s) PROVE MaskRestValues' /\ maskOut' \in BOOLEAN
      <2>1. maskLoads' \subseteq [to : Mask!Images, soft : BOOLEAN, read : BOOLEAN]
        BY <1>3, MaskUrl DEF MaskRestValues, Mask!PickVersion
      <2> QED BY <1>3, <2>1 DEF MaskRestValues, Mask!PickVersion, Mask!jobVars
    <1>4. ASSUME NEW l \in maskLoads, Mask!JobRead(l) PROVE MaskRestValues' /\ maskOut' \in BOOLEAN
      <2>0. maskRoute \in Mask!Images /\ l \in [to : Mask!Images, soft : BOOLEAN, read : BOOLEAN]
        BY DEF MaskRestValues, MaskBlank
      <2>1. (maskLoads \ {l}) \cup {[l EXCEPT !.read = TRUE]}
               \in SUBSET [to : Mask!Images, soft : BOOLEAN, read : BOOLEAN]
        BY <2>0 DEF MaskRestValues
      <2>2. maskLoads' \subseteq [to : Mask!Images, soft : BOOLEAN, read : BOOLEAN]
        BY <1>4, <2>0, <2>1, MaskUrl DEF Mask!JobRead
      <2> QED BY <1>4, <2>0, <2>2 DEF MaskRestValues, Mask!JobRead, Mask!jobVars, Mask!Own
    <1>5. ASSUME NEW l \in maskLoads, Mask!PictureRead(l) PROVE MaskRestValues' /\ maskOut' \in BOOLEAN
      <2>0. l \in [to : Mask!Images, soft : BOOLEAN, read : BOOLEAN] BY DEF MaskRestValues
      <2>1. /\ maskRoute' \in Mask!Images \cup {0} /\ maskSrc' \in Mask!Images \cup {0}
            /\ maskResult' \in Mask!Images \cup {0} /\ maskStatus' \in MaskPages
            /\ maskLoads' \subseteq maskLoads
            /\ maskBase' \in Mask!Bases
            /\ UNCHANGED <<maskOut, maskJob, maskText, maskWriting, maskLastBlob, maskStored,
                           maskSub, maskMine, maskPromoted>>
        BY <1>n, <1>5, <2>0 DEF MaskRestValues, Mask!PictureRead, MaskPages
      <2>2. maskBaseTimer' \in Mask!Bases BY <1>5 DEF MaskRestValues, Mask!PictureRead, Mask!Bases
      <2>3. maskReading' \in Mask!Keys \cup {Mask!NotReading}
        BY <1>5, <2>0 DEF MaskRestValues, MaskBlank, Mask!PictureRead, Mask!Restore, Mask!Keys
      <2> QED BY <2>1, <2>2, <2>3 DEF MaskRestValues
    <1>6. ASSUME NEW l \in maskLoads, NEW b \in BOOLEAN, Mask!LoadFails(l, b)
          PROVE MaskRestValues' /\ maskOut' \in BOOLEAN
      <2>0. /\ l \in [to : Mask!Images, soft : BOOLEAN, read : BOOLEAN]
            /\ maskLoads \ {l} \in SUBSET [to : Mask!Images, soft : BOOLEAN, read : BOOLEAN]
        BY DEF MaskRestValues
      <2>1. /\ maskLoads' \subseteq [to : Mask!Images, soft : BOOLEAN, read : BOOLEAN]
            /\ maskRoute' \in {maskRoute, l.to}
        BY <1>6, <2>0, MaskUrl DEF Mask!LoadFails
      <2>2. maskStored' \in [Mask!Keys -> Mask!Records]
        BY <1>n, <1>6 DEF MaskRestValues, Mask!LoadFails, Mask!Delete
      <2>3. UNCHANGED <<maskOut, maskJob, maskSrc, maskResult, maskText,
                        maskLastBlob, maskBase, maskBaseTimer, maskReading, maskWriting,
                        maskStatus, maskSub, maskMine, maskPromoted>>
        BY <1>6 DEF Mask!LoadFails, Mask!jobVars
      <2> QED BY <2>0, <2>1, <2>2, <2>3 DEF MaskRestValues
    <1>7. ASSUME NEW v \in {0, Mask!NewValue}, Mask!Type(v)
          PROVE  MaskRestValues' /\ maskOut' \in BOOLEAN
      BY <1>7 DEF MaskRestValues, MaskCounts, Mask!Type, Mask!Edited, Mask!NewValue, Mask!Touches,
                  Mask!jobVars
    <1>8. CASE Mask!ToggleMode
      BY <1>8 DEF MaskRestValues, Mask!ToggleMode, Mask!Edited, Mask!Touches, Mask!jobVars
    <1>9. CASE Mask!Stroke
      BY <1>9 DEF MaskRestValues, Mask!Stroke, Mask!Marked, Mask!Edited, Mask!Touches, Mask!jobVars
    <1>10. ASSUME NEW i \in DOMAIN maskSteps, Mask!JumpTo(i)
           PROVE  MaskRestValues' /\ maskOut' \in BOOLEAN
      BY <1>10 DEF MaskRestValues, Mask!JumpTo, Mask!Marked, Mask!Touches, Mask!jobVars
    <1>11. CASE Mask!BaseTimerFires
      BY <1>n, <1>11 DEF MaskRestValues, Mask!BaseTimerFires, Mask!sourceVars, Mask!jobVars
    <1>12. CASE Mask!Restored
      <2>1. maskStored[maskReading] \in Mask!Records \/ maskReading = Mask!NotReading
        BY DEF MaskRestValues
      <2> QED BY <1>12, <2>1 DEF MaskRestValues, Mask!Restored, Mask!sourceVars, Mask!jobVars, Mask!Records
    <1>k. maskRoute # 0 => Mask!Key \in Mask!Keys BY DEF MaskRestValues, Mask!Key, Mask!Keys
    <1>s. ASSUME Mask!Serialise, maskRoute # 0
          PROVE  /\ maskLastBlob' \in Mask!Works /\ maskStored' \in [Mask!Keys -> Mask!Records]
                 /\ maskWriting' \in Mask!Writes
      <2>0. Mask!Key \in Mask!Keys BY <1>k, <1>s
      <2>1. maskLastBlob' \in Mask!Works BY <1>s DEF MaskRestValues, Mask!Serialise
      <2>2. maskStored' \in [Mask!Keys -> Mask!Records]
        BY <1>n, <1>s, <2>0 DEF MaskRestValues, Mask!Serialise, Mask!Delete
      <2>3. CASE maskWriting' = maskWriting BY <2>1, <2>2, <2>3 DEF MaskRestValues
      <2>4. CASE maskWriting' # maskWriting
        <3> DEFINE fresh == maskBlobDirty \/ maskLastBlob = 0
                   mask  == IF fresh \/ maskPaint = 0 THEN maskPaint ELSE maskLastBlob
        <3>1. fresh \in BOOLEAN /\ mask \in Mask!Works BY DEF MaskRestValues
        <3>2. maskWriting' = [key |-> Mask!Key, fresh |-> fresh, older |-> maskLastBlob,
                              rec |-> [text |-> maskText, paint |-> mask]]
          BY <1>s, <2>4 DEF Mask!Serialise
        <3> HIDE DEF fresh, mask
        <3>3. [text |-> maskText, paint |-> mask] \in Mask!Records
          BY <3>1 DEF MaskRestValues, Mask!Records
        <3>4. maskLastBlob \in Mask!Works BY DEF MaskRestValues
        <3>5. maskWriting' \in Mask!Writes BY <2>0, <3>1, <3>2, <3>3, <3>4 DEF Mask!Writes
        <3> QED BY <2>1, <2>2, <3>5
      <2> QED BY <2>1, <2>2, <2>3, <2>4
    <1>13. CASE Mask!SaveFires
      BY <1>s, <1>13 DEF MaskRestValues, Mask!SaveFires, Mask!sourceVars, Mask!jobVars
    <1>14. ASSUME NEW png \in BOOLEAN, NEW put \in BOOLEAN, Mask!Landed(png, put)
           PROVE  MaskRestValues' /\ maskOut' \in BOOLEAN
      <2> DEFINE mask == IF maskWriting.rec.paint # 0 /\ maskWriting.fresh /\ ~png
                         THEN maskWriting.older ELSE maskWriting.rec.paint
                 done == [text |-> maskWriting.rec.text, paint |-> mask]
      <2>1. /\ maskWriting.key \in Mask!Keys /\ maskWriting.rec \in Mask!Records
            /\ maskWriting.older \in Mask!Works
        BY DEF MaskRestValues, Mask!Writes
      <2>2. mask \in Mask!Works /\ done \in Mask!Records BY <2>1 DEF Mask!Records
      <2>3. /\ maskStored' \in {maskStored, [maskStored EXCEPT ![maskWriting.key] = done]}
            /\ maskLastBlob' \in {maskLastBlob, mask}
            /\ maskWriting' = Mask!Nothing
        BY <1>14 DEF Mask!Landed
      <2> HIDE DEF mask, done
      <2>4. maskStored' \in [Mask!Keys -> Mask!Records]
        BY <2>1, <2>2, <2>3 DEF MaskRestValues
      <2>5. maskLastBlob' \in Mask!Works BY <2>2, <2>3 DEF MaskRestValues
      <2> QED BY <1>n, <1>14, <2>3, <2>4, <2>5 DEF MaskRestValues, Mask!Landed, Mask!sourceVars, Mask!jobVars
    <1>15. CASE Mask!Back
      BY <1>s, <1>15 DEF MaskRestValues, Mask!Back, Mask!sourceVars, Mask!jobVars
    <1>16. CASE Mask!Left BY <1>n, <1>16 DEF MaskRestValues, Mask!Left, Mask!Closed, MaskPages
    <1>17. CASE Mask!LeaveLocked
      BY <1>n, <1>k, <1>17 DEF MaskRestValues, Mask!LeaveLocked, Mask!Delete, Mask!Closed, MaskPages
    <1>18. CASE Mask!Unmount BY <1>n, <1>18 DEF MaskRestValues, Mask!Unmount, Mask!Closed, MaskPages
    <1>19. ASSUME NEW b \in BOOLEAN, Mask!TabGone(b) PROVE MaskRestValues' /\ maskOut' \in BOOLEAN
      <2>1. maskStored' \in [Mask!Keys -> Mask!Records]
        <3>1. [text |-> maskText, paint |-> IF maskPaint = 0 THEN 0 ELSE maskLastBlob] \in Mask!Records
          BY DEF MaskRestValues, Mask!Records
        <3> QED BY <1>n, <1>k, <1>19, <3>1 DEF MaskRestValues, Mask!TabGone, Mask!Delete
      <2> QED BY <1>n, <1>19, <2>1 DEF MaskRestValues, Mask!TabGone, Mask!Closed, MaskPages
    <1>20. CASE Mask!Submit
      BY <1>k, <1>20 DEF MaskRestValues, Mask!Submit, Mask!Becomes, Mask!Saves, Mask!pagePart, Mask!sourceVars, Mask!stageVars, MaskPages
    <1>21. CASE Mask!Accepted
      BY <1>21 DEF MaskRestValues, Mask!Accepted, Mask!Becomes, Mask!pagePart, Mask!sourceVars, Mask!stageVars, MaskPages
    <1>22. CASE Mask!SubmissionFails
      BY <1>22 DEF MaskRestValues, Mask!SubmissionFails, Mask!Becomes, Mask!pagePart, Mask!sourceVars, Mask!stageVars, MaskPages
    <1>23. CASE Mask!Succeeded
      <2>1. maskResult' \in Mask!Images \cup {0} BY <1>23 DEF MaskRestValues, MaskCounts, Mask!Succeeded
      <2> QED BY <1>n, <1>23, <2>1
              DEF MaskRestValues, Mask!Succeeded, Mask!Delete, Mask!Becomes, Mask!pagePart, Mask!sourceVars, Mask!stageVars, MaskPages
    <1>24. CASE Mask!Shown
      BY <1>24 DEF MaskRestValues, Mask!Shown, Mask!Becomes, Mask!pagePart, Mask!sourceVars, Mask!stageVars, MaskPages
    <1>25. CASE Mask!Discard
      BY <1>25 DEF MaskRestValues, Mask!Discard, Mask!sourceVars, MaskPages
    <1>26. CASE Mask!Promote
      <2>1. maskBaseTimer' \in Mask!Bases BY <1>26 DEF MaskRestValues, Mask!Promote, Mask!Bases
      <2> QED BY <1>n, <1>26, <2>1 DEF MaskRestValues, Mask!Promote, MaskPages
    <1> QED BY ONLY Mask!MaskNext, <1>1, <1>2, <1>3, <1>4, <1>5, <1>6, <1>7, <1>8, <1>9, <1>10, <1>11,
               <1>12, <1>13, <1>14, <1>15, <1>16, <1>17, <1>18, <1>19, <1>20, <1>21, <1>22, <1>23,
               <1>24, <1>25, <1>26 DEF Mask!MaskNext

LEMMA MaskValuesStep ==
    ASSUME MaskValues, maskOut \in BOOLEAN, MaskCounts, MaskBlank, Mask!MaskNext
    PROVE  MaskValues' /\ maskOut' \in BOOLEAN
PROOF
    <1>1. MaskRestValues /\ MaskHistory /\ maskPaint \in Mask!Works
      BY DEF MaskValues, MaskRestValues, MaskHistory
    <1>2. MaskRestValues' /\ maskOut' \in BOOLEAN BY <1>1, MaskRestValuesStep
    <1>3. MaskHistory' /\ maskPaint' \in Mask!Works
      <2>1. \A l \in maskLoads : l.to \in Mask!Images BY DEF MaskValues
      <2>2. \A k \in Mask!Keys : maskStored[k] \in Mask!Records BY DEF MaskValues
      <2>3. maskReading \in Mask!Keys \cup {Mask!NotReading} BY DEF MaskValues
      <2> QED BY ONLY <1>1, <2>1, <2>2, <2>3, MaskHistoryStep, MaskCounts, Mask!MaskNext
    <1> QED BY <1>2, <1>3 DEF MaskValues, MaskRestValues, MaskHistory

LEMMA MaskCountsStep == ASSUME MaskCounts, Mask!MaskNext PROVE MaskCounts'
PROOF
    <1> USE MaskNumbers DEF MaskCounts
    <1>1. ASSUME NEW s \in Mask!Images, Mask!Open(s) \/ Mask!Pick(s) \/ Mask!PickVersion(s)
          PROVE  MaskCounts'
      BY <1>1 DEF Mask!Open, Mask!Pick, Mask!PickVersion, Mask!jobVars
    <1>2. ASSUME NEW l \in maskLoads,
                 Mask!JobRead(l) \/ Mask!PictureRead(l) \/ \E b \in BOOLEAN : Mask!LoadFails(l, b)
          PROVE  MaskCounts'
      BY <1>2 DEF Mask!JobRead, Mask!PictureRead, Mask!LoadFails, Mask!jobVars
    <1>3. ASSUME NEW v \in {0, Mask!NewValue}, Mask!Type(v) PROVE MaskCounts'
      BY <1>3 DEF Mask!Type, Mask!Edited, Mask!Touches, Mask!jobVars
    <1>4. CASE Mask!ToggleMode \/ Mask!Stroke
      BY <1>4 DEF Mask!ToggleMode, Mask!Stroke, Mask!Edited, Mask!Touches, Mask!jobVars
    <1>5. CASE MaskJumps BY <1>5 DEF MaskJumps, Mask!JumpTo, Mask!Touches, Mask!jobVars
    <1>6. CASE Mask!BaseTimerFires \/ Mask!Restored \/ Mask!SaveFires \/ MaskLands \/ Mask!Back
      BY <1>6 DEF MaskLands, Mask!BaseTimerFires, Mask!Restored, Mask!SaveFires, Mask!Landed, Mask!Back,
                  Mask!jobVars
    <1>7. CASE Mask!Left \/ Mask!LeaveLocked \/ Mask!Unmount \/ Mask!Discard \/ Mask!Promote
      BY <1>7 DEF Mask!Left, Mask!LeaveLocked, Mask!Unmount, Mask!Discard, Mask!Promote
    <1>8. ASSUME NEW b \in BOOLEAN, Mask!TabGone(b) PROVE MaskCounts'
      BY <1>8 DEF Mask!TabGone
    <1>9. CASE Mask!Submit \/ Mask!Accepted \/ Mask!SubmissionFails \/ Mask!Succeeded \/ Mask!Shown
      BY <1>9 DEF Mask!Submit, Mask!Accepted, Mask!SubmissionFails, Mask!Succeeded, Mask!Shown,
                  Mask!pagePart, Mask!sourceVars, Mask!stageVars
    <1> QED BY ONLY Mask!MaskNext, <1>1, <1>2, <1>3, <1>4, <1>5, <1>6, <1>7, <1>8, <1>9
            DEF Mask!MaskNext, MaskJumps, MaskLands

\* With no mask on the canvas none is written.
LEMMA MaskSerialisesNone ==
    ASSUME Mask!Serialise, maskPaint = 0, maskWriting.rec.paint = 0
    PROVE  maskWriting'.rec.paint = 0
PROOF
    <1>1. CASE ~Mask!Dirty \/ Mask!IsEmpty(Mask!Content) BY <1>1 DEF Mask!Serialise
    <1>2. CASE Mask!Dirty /\ ~Mask!IsEmpty(Mask!Content) BY <1>2 DEF Mask!Serialise
    <1> QED BY <1>1, <1>2

\* What a write under way leaves behind.
LEMMA MaskLanding ==
    ASSUME NEW png, NEW put, Mask!Landed(png, put)
    PROVE  /\ maskRoute # 0 /\ maskWriting.fresh /\ png =>
                 maskLastBlob' = maskWriting.rec.paint /\ ~maskBlobDirty'
           /\ ~(maskRoute # 0 /\ maskWriting.fresh /\ png) =>
                 maskLastBlob' \in {0, maskLastBlob} /\ (maskBlobDirty => maskBlobDirty')
PROOF
    <1> DEFINE mask == IF maskWriting.rec.paint # 0 /\ maskWriting.fresh /\ ~png
                       THEN maskWriting.older ELSE maskWriting.rec.paint
    <1>1. /\ maskLastBlob' = IF maskRoute # 0
                                /\ ((maskWriting.fresh /\ png) \/ maskWriting.rec.paint = 0)
                             THEN mask ELSE maskLastBlob
          /\ maskBlobDirty' = (maskBlobDirty /\ ~(maskRoute # 0 /\ (maskWriting.fresh /\ png)))
      BY DEF Mask!Landed, Mask!Nowhere
    <1>2. CASE maskRoute # 0 /\ maskWriting.fresh /\ png BY <1>1, <1>2
    <1>3. CASE ~(maskRoute # 0 /\ maskWriting.fresh /\ png)
      <2>1. maskWriting.rec.paint = 0 => mask = 0 OBVIOUS
      <2> HIDE DEF mask
      <2> QED BY <1>1, <1>3, <2>1
    <1> QED BY <1>2, <1>3

LEMMA MaskBlankStep ==
    ASSUME MaskValues, MaskBlank, Mask!MaskNext
    PROVE  MaskBlank'
PROOF
    <1> USE DEF MaskBlank, Mask!Nowhere
    <1>1. ASSUME NEW s \in Mask!Images, Mask!Open(s) PROVE MaskBlank'
      <2>1. Mask!Nothing.rec.paint = 0 BY DEF Mask!Nothing, Mask!NoRecord
      <2> QED BY <1>1, <2>1, MaskImages DEF Mask!Open, Mask!draftVars, Mask!stageVars, Mask!jobVars
    <1>2. ASSUME NEW s \in Mask!Images, Mask!Pick(s) PROVE MaskBlank'
      BY <1>2 DEF Mask!Pick, Mask!draftVars, Mask!stageVars, Mask!jobVars
    <1>3. ASSUME NEW s \in Mask!Images, Mask!PickVersion(s) PROVE MaskBlank'
      BY <1>3, MaskImages DEF Mask!PickVersion, Mask!Saves, Mask!Effect, Mask!stageVars, Mask!jobVars
    <1>4. ASSUME NEW l \in maskLoads, Mask!JobRead(l) PROVE MaskBlank'
      BY <1>4 DEF Mask!JobRead, Mask!Rearm, Mask!Saves, Mask!Effect, Mask!Enabled, Mask!stageVars, Mask!jobVars
    <1>5. ASSUME NEW l \in maskLoads, Mask!PictureRead(l) PROVE MaskBlank'
      <2>1. l.to \in Mask!Images BY DEF MaskValues
      <2> QED BY <1>5, <2>1, MaskImages DEF Mask!PictureRead, Mask!Restore, Mask!NoBase
    <1>6. ASSUME NEW l \in maskLoads, NEW b \in BOOLEAN, Mask!LoadFails(l, b) PROVE MaskBlank'
      <2>1. l.to \in Mask!Images /\ maskRoute # 0 BY DEF MaskValues
      <2>2. maskRoute' \in {maskRoute, l.to} /\ maskRoute' # 0
        BY <1>6, <2>1, MaskImages DEF Mask!LoadFails
      <2>3. maskSrc = 0 => ~maskArmed'
        BY <1>6 DEF Mask!LoadFails, Mask!Saves, Mask!Effect, Mask!Enabled
      <2> QED BY <1>6, <2>1, <2>2, <2>3 DEF Mask!LoadFails, Mask!stageVars, Mask!jobVars
    <1>7. ASSUME NEW v \in {0, Mask!NewValue}, Mask!Type(v) PROVE MaskBlank'
      BY <1>7 DEF Mask!Type, Mask!Rearm, Mask!Saves, Mask!Effect, Mask!Enabled, Mask!Edited,
                  Mask!Touches, Mask!stageVars, Mask!jobVars
    <1>8. CASE Mask!ToggleMode
      BY <1>8 DEF Mask!ToggleMode, Mask!Rearm, Mask!Saves, Mask!Effect, Mask!Enabled, Mask!Edited,
                  Mask!Touches, Mask!stageVars, Mask!jobVars
    <1>9. CASE Mask!Stroke
      BY <1>9 DEF Mask!Stroke, Mask!OnStage, Mask!Enabled, Mask!Edited, Mask!Touches, Mask!stageVars, Mask!jobVars
    <1>10. CASE MaskJumps
      BY <1>10 DEF MaskJumps, Mask!JumpTo, Mask!OnStage, Mask!Enabled, Mask!Touches, Mask!stageVars, Mask!jobVars
    <1>11. CASE Mask!BaseTimerFires
      BY <1>11 DEF Mask!BaseTimerFires, Mask!sourceVars, Mask!stageVars, Mask!jobVars, Mask!NoBase
    <1>12. CASE Mask!Restored BY <1>12 DEF Mask!Restored, Mask!sourceVars, Mask!stageVars, Mask!jobVars
    <1>13. CASE Mask!SaveFires
      BY <1>13 DEF Mask!SaveFires, Mask!Serialise, Mask!sourceVars, Mask!stageVars, Mask!jobVars
    <1>14. ASSUME NEW png \in BOOLEAN, NEW put \in BOOLEAN, Mask!Landed(png, put) PROVE MaskBlank'
      <2>1. maskWriting'.rec.paint = 0 /\ maskWriting' = Mask!Nothing
        BY <1>14 DEF Mask!Landed, Mask!Nothing, Mask!NoRecord
      <2>2. maskSrc = 0 => maskLastBlob' = 0
        BY <1>14 DEF Mask!Landed
      <2> QED BY <1>14, <2>1, <2>2 DEF Mask!Landed, Mask!sourceVars, Mask!stageVars, Mask!jobVars
    <1>15. CASE Mask!Back
      <2>1. maskSrc = 0 /\ maskWriting.rec.paint = 0 => maskWriting'.rec.paint = 0
        BY <1>15, MaskSerialisesNone DEF Mask!Back
      <2> QED BY <1>15, <2>1 DEF Mask!Back, Mask!Serialise, Mask!sourceVars, Mask!stageVars, Mask!jobVars
    <1>16. CASE Mask!Closed BY <1>16 DEF Mask!Closed, Mask!NoBase
    <1>17. Mask!Left \/ Mask!LeaveLocked \/ Mask!Unmount \/ (\E b \in BOOLEAN : Mask!TabGone(b))
             => Mask!Closed
      BY DEF Mask!Left, Mask!LeaveLocked, Mask!Unmount, Mask!TabGone
    <1>18. CASE Mask!Submit BY <1>18 DEF Mask!Submit, Mask!Enabled, Mask!pagePart, Mask!sourceVars, Mask!stageVars, Mask!Becomes
    <1>19. CASE Mask!Accepted \/ Mask!SubmissionFails \/ Mask!Shown
      BY <1>19 DEF Mask!Accepted, Mask!SubmissionFails, Mask!Shown, Mask!pagePart, Mask!sourceVars, Mask!stageVars, Mask!Becomes
    <1>20. CASE Mask!Succeeded BY <1>20 DEF Mask!Succeeded, Mask!pagePart, Mask!sourceVars, Mask!stageVars, Mask!Becomes
    <1>21. CASE Mask!Discard BY <1>21 DEF Mask!Discard, Mask!sourceVars
    <1>22. CASE Mask!Promote
      BY <1>22, MaskImages DEF MaskValues, Mask!Promote, Mask!NoBase
    <1> QED BY ONLY Mask!MaskNext, <1>1, <1>2, <1>3, <1>4, <1>5, <1>6, <1>7, <1>8, <1>9, <1>10, <1>11,
               <1>12, <1>13, <1>14, <1>15, <1>16, <1>17, <1>18, <1>19, <1>20, <1>21, <1>22
            DEF Mask!MaskNext, MaskJumps, MaskLands

LEMMA MaskLoadsStep ==
    ASSUME MaskValues, MaskBlank, MaskLoadsRight, Mask!MaskNext
    PROVE  MaskLoadsRight'
PROOF
    <1> USE DEF MaskLoadsRight, Mask!Nowhere
    <1>0. CASE /\ UNCHANGED <<maskRoute, maskJob, maskSrc, maskLoads, maskLoaded, maskFailed>>
               /\ maskRaced => maskRaced'
      BY <1>0
    <1>1. ASSUME NEW s \in Mask!Images, Mask!Open(s) PROVE MaskLoadsRight'
      <2>1. maskLoads' = {Mask!Loading(s, FALSE)} /\ maskRoute' = s BY <1>1 DEF Mask!Open
      <2>2. /\ Mask!Loading(s, FALSE).to = s
            /\ Mask!Loading(s, FALSE).soft = FALSE /\ Mask!Loading(s, FALSE).read = FALSE
        BY DEF Mask!Loading
      <2> QED BY <2>1, <2>2
    <1>2. ASSUME NEW s \in Mask!Images, Mask!Pick(s) PROVE MaskLoadsRight'
      <2>1. /\ maskLoads' = maskLoads \cup {Mask!Loading(s, TRUE)} /\ maskRoute # 0
            /\ UNCHANGED <<maskRoute, maskJob, maskSrc, maskLoaded, maskFailed>>
        BY <1>2 DEF Mask!Pick
      <2>2. ~maskRaced' => ~maskRaced /\ maskLoads = {} BY <1>2 DEF Mask!Pick
      <2>3. /\ Mask!Loading(s, TRUE).to = s
            /\ Mask!Loading(s, TRUE).soft = TRUE /\ Mask!Loading(s, TRUE).read = FALSE
        BY DEF Mask!Loading
      <2> QED BY <2>1, <2>2, <2>3
    <1>3. ASSUME NEW s \in Mask!Images, Mask!PickVersion(s) PROVE MaskLoadsRight'
      <2>1. /\ maskRoute' = s /\ maskRoute # 0 /\ s # maskRoute
            /\ maskLoads' = IF maskLoaded # s /\ maskJob # s
                            THEN maskLoads \cup {Mask!Loading(s, FALSE)} ELSE maskLoads
            /\ UNCHANGED <<maskJob, maskSrc, maskFailed>>
        BY <1>3 DEF Mask!PickVersion, Mask!UrlEffect
      <2>2. ~maskRaced' => ~maskRaced /\ maskLoads = {} BY <1>3 DEF Mask!PickVersion
      <2>3. /\ Mask!Loading(s, FALSE).to = s
            /\ Mask!Loading(s, FALSE).soft = FALSE /\ Mask!Loading(s, FALSE).read = FALSE
        BY DEF Mask!Loading
      <2> QED BY <2>1, <2>2, <2>3
    <1>4. ASSUME NEW l \in maskLoads, Mask!JobRead(l) PROVE MaskLoadsRight'
      <2> SUFFICES ASSUME ~maskRaced' PROVE MaskLoadsRight' OBVIOUS
      <2> DEFINE answered == [l EXCEPT !.read = TRUE]
      <2>0. /\ ~maskRaced /\ maskLoads = {l} /\ ~l.read /\ maskJob' = l.to /\ maskRoute' = maskRoute
            /\ \A k \in maskLoads' : k.to = l.to
        BY <1>4 DEF Mask!JobRead
      <2>1. answered.to = l.to /\ answered.soft = l.soft /\ answered.read BY DEF MaskValues
      <2> HIDE DEF answered
      <2>2. \/ maskLoads' = {answered}
            \/ /\ maskLoads' = {answered, Mask!Loading(maskRoute, FALSE)} /\ l.to # maskRoute
        BY <1>4, <2>0 DEF Mask!JobRead, Mask!UrlEffect, answered
      <2>3. Mask!Loading(maskRoute, FALSE).to = maskRoute BY DEF Mask!Loading
      <2>4. maskLoads' = {answered} BY <2>0, <2>2, <2>3
      <2> QED BY <2>0, <2>1, <2>4
    <1>5. ASSUME NEW l \in maskLoads, Mask!PictureRead(l) PROVE MaskLoadsRight'
      BY <1>5 DEF Mask!PictureRead
    <1>6. ASSUME NEW l \in maskLoads, NEW b \in BOOLEAN, Mask!LoadFails(l, b) PROVE MaskLoadsRight'
      <2> SUFFICES ASSUME ~maskRaced' PROVE MaskLoadsRight' OBVIOUS
      <2>1. ~maskRaced /\ maskLoads = {l} /\ maskFailed' BY <1>6 DEF Mask!LoadFails
      <2>2. /\ Mask!Loading(l.to, FALSE).to = l.to
            /\ Mask!Loading(l.to, FALSE).soft = FALSE /\ Mask!Loading(l.to, FALSE).read = FALSE
        BY DEF Mask!Loading
      <2>3. \/ maskLoads' = {}
            \/ maskLoads' = {Mask!Loading(l.to, FALSE)} /\ maskRoute' = l.to
        BY <1>6, <2>1 DEF Mask!LoadFails, Mask!UrlEffect
      <2> QED BY <2>1, <2>2, <2>3
    <1>7. CASE Mask!Closed BY <1>7 DEF Mask!Closed
    <1>8. CASE Mask!Promote BY <1>8 DEF Mask!Promote, Mask!Early
    <1>9. Mask!Left \/ Mask!LeaveLocked \/ Mask!Unmount \/ (\E b \in BOOLEAN : Mask!TabGone(b))
             => Mask!Closed
      BY DEF Mask!Left, Mask!LeaveLocked, Mask!Unmount, Mask!TabGone
    <1>10. ASSUME Mask!Touches PROVE MaskLoadsRight' BY <1>0, <1>10 DEF Mask!Touches
    <1>11. (\E v \in {0, Mask!NewValue} : Mask!Type(v)) \/ Mask!ToggleMode \/ Mask!Stroke \/ MaskJumps
             => Mask!Touches
      BY DEF MaskJumps, Mask!Type, Mask!ToggleMode, Mask!Stroke, Mask!JumpTo, Mask!Edited
    <1>12. CASE Mask!BaseTimerFires \/ Mask!SaveFires \/ MaskLands \/ Mask!Back \/ Mask!Discard
      BY <1>0, <1>12 DEF MaskLands, Mask!BaseTimerFires, Mask!SaveFires, Mask!Landed, Mask!Back, Mask!Discard,
             Mask!sourceVars
    <1>13. CASE Mask!Submit \/ Mask!Accepted \/ Mask!SubmissionFails \/ Mask!Shown
      BY <1>0, <1>13 DEF Mask!Submit, Mask!Accepted, Mask!SubmissionFails, Mask!Shown, Mask!pagePart, Mask!sourceVars, Mask!stageVars
    <1>14. CASE Mask!Restored BY <1>0, <1>14 DEF Mask!Restored, Mask!sourceVars
    <1>15. CASE Mask!Succeeded BY <1>0, <1>15 DEF Mask!Succeeded, Mask!pagePart, Mask!sourceVars, Mask!stageVars
    <1> QED BY ONLY Mask!MaskNext, <1>1, <1>2, <1>3, <1>4, <1>5, <1>6, <1>7, <1>8, <1>9, <1>10,
               <1>11, <1>12, <1>13, <1>14, <1>15
            DEF Mask!MaskNext, MaskJumps, MaskLands

\* An edit before the restore is recorded, and nothing takes the record back.
LEMMA MaskTouched ==
    ASSUME (\E v \in {0, Mask!NewValue} : Mask!Type(v)) \/ Mask!ToggleMode \/ Mask!Stroke \/ MaskJumps
    PROVE  /\ maskReading' = maskReading
           /\ ~maskRaced' => ~maskRaced /\ maskReading = Mask!NotReading
PROOF
    <1>1. Mask!Touches
      BY DEF MaskJumps, Mask!Type, Mask!ToggleMode, Mask!Stroke, Mask!JumpTo, Mask!Edited
    <1> QED BY <1>1 DEF Mask!Touches, Mask!Early

LEMMA MaskReadStep ==
    ASSUME MaskValues, MaskBlank, MaskLoadsRight, MaskReadRight, Mask!MaskNext
    PROVE  MaskReadRight'
PROOF
    <1> USE DEF MaskReadRight, Mask!Nowhere
    <1>1. ASSUME NEW s \in Mask!Images, Mask!Open(s) PROVE MaskReadRight'
      BY <1>1 DEF MaskBlank, Mask!Open, Mask!draftVars
    <1>2. ASSUME NEW s \in Mask!Images, Mask!Pick(s) PROVE MaskReadRight'
      BY <1>2 DEF Mask!Pick, Mask!draftVars
    <1>3. ASSUME NEW s \in Mask!Images, Mask!PickVersion(s) PROVE MaskReadRight'
      BY <1>3 DEF Mask!PickVersion
    <1>4. ASSUME NEW l \in maskLoads, Mask!JobRead(l) PROVE MaskReadRight'
      BY <1>4 DEF Mask!JobRead
    <1>5. ASSUME NEW l \in maskLoads, Mask!PictureRead(l) PROVE MaskReadRight'
      <2> SUFFICES ASSUME maskReading' # Mask!NotReading, ~maskRaced' PROVE MaskReadRight' OBVIOUS
      <2>1. ~maskRaced /\ ~maskLeaving BY <1>5 DEF Mask!PictureRead
      <2>2. CASE maskRestored BY <1>5, <2>1, <2>2 DEF MaskBlank, Mask!PictureRead, Mask!Restore
      <2>3. CASE ~maskRestored
        <3>1. maskSrc = 0 BY <2>3 DEF MaskBlank
        <3>2. maskRoute # 0 BY DEF MaskBlank
        <3>3. maskStatus' = "idle" /\ maskPaint' = 0
          BY <1>5, <3>1 DEF MaskBlank, Mask!PictureRead, Mask!Blank
        <3>4. maskArmed' BY <1>5, <3>3 DEF Mask!PictureRead, Mask!Effect
        <3>5. maskLoads' = {} BY <1>5, <2>1 DEF MaskLoadsRight, Mask!PictureRead
        <3>6. maskReading' = Mask!Key' BY <1>5, <2>3 DEF Mask!PictureRead, Mask!Restore, Mask!Key
        <3>7. ~maskBase'.known BY <1>5, <3>1 DEF MaskBlank, Mask!PictureRead, Mask!NoBase
        <3>8. maskBaseTimer' = [known |-> TRUE, text |-> maskText', out |-> maskOut']
          BY <1>5, <3>7 DEF Mask!PictureRead
        <3>9. /\ maskLastBlob' = 0 /\ ~maskTouched' /\ maskWriting' = Mask!Nothing
              /\ maskWriting'.rec.paint = 0
          BY <1>5, <2>1, <3>1, <3>2 DEF MaskBlank, Mask!PictureRead, Mask!Nothing, Mask!NoRecord
        <3> QED BY <3>3, <3>4, <3>5, <3>6, <3>7, <3>8, <3>9
      <2> QED BY <2>2, <2>3
    <1>6. ASSUME NEW l \in maskLoads, NEW b \in BOOLEAN, Mask!LoadFails(l, b) PROVE MaskReadRight'
      BY <1>6 DEF MaskBlank, Mask!LoadFails
    <1>7. ASSUME \/ \E v \in {0, Mask!NewValue} : Mask!Type(v)
                 \/ Mask!ToggleMode \/ Mask!Stroke \/ MaskJumps
          PROVE  MaskReadRight'
      BY <1>7, MaskTouched
    <1>8. CASE Mask!BaseTimerFires
      BY <1>8 DEF MaskBlank, Mask!BaseTimerFires, Mask!sourceVars, Mask!stageVars, Mask!jobVars, Mask!Key
    <1>9. CASE Mask!Restored BY <1>9 DEF Mask!Restored
    <1>10. CASE Mask!SaveFires
      <2>1. /\ Mask!Serialise /\ ~maskBaseTimer.known /\ maskWriting = Mask!Nothing
            /\ UNCHANGED <<maskRoute, maskOut, maskLoads, maskText, maskPaint, maskBase,
                           maskBaseTimer, maskTouched, maskReading, maskLeaving, maskStatus,
                           maskRaced>>
        BY <1>10 DEF Mask!SaveFires, Mask!sourceVars, Mask!stageVars, Mask!jobVars
      <2> SUFFICES ASSUME maskRoute # 0, maskReading # Mask!NotReading, ~maskRaced
                   PROVE  MaskReadRight'
        BY <2>1
      <2>2. maskBase.known BY <2>1
      <2>3. ~Mask!Dirty BY <2>2 DEF Mask!Dirty
      <2>4. UNCHANGED <<maskWriting, maskLastBlob>> BY <2>1, <2>3 DEF Mask!Serialise
      <2> QED BY <2>1, <2>2, <2>4 DEF Mask!Key
    <1>11. ASSUME NEW png \in BOOLEAN, NEW put \in BOOLEAN, Mask!Landed(png, put) PROVE MaskReadRight'
      <2>1. maskWriting'.rec.paint = 0 /\ maskWriting' = Mask!Nothing
        BY <1>11 DEF Mask!Landed, Mask!Nothing, Mask!NoRecord
      <2>2. maskWriting.rec.paint = 0 /\ maskLastBlob = 0 => maskLastBlob' = 0
        BY <1>11 DEF Mask!Landed
      <2> QED BY <1>11, <2>1, <2>2 DEF Mask!Landed, Mask!sourceVars, Mask!stageVars, Mask!jobVars, Mask!Key
    <1>12. CASE Mask!Back
      <2>1. /\ Mask!Serialise /\ maskLeaving'
            /\ UNCHANGED <<maskRoute, maskOut, maskLoads, maskText, maskPaint, maskBase,
                           maskBaseTimer, maskTouched, maskReading, maskRaced>>
        BY <1>12 DEF Mask!Back, Mask!sourceVars, Mask!stageVars
      <2>2. maskPaint = 0 /\ maskLastBlob = 0 /\ maskWriting.rec.paint = 0 =>
               maskLastBlob' = 0 /\ maskWriting'.rec.paint = 0
        BY <2>1, MaskSerialisesNone DEF Mask!Serialise
      <2> QED BY <2>1, <2>2 DEF Mask!Key
    <1>13. CASE Mask!Closed BY <1>13 DEF Mask!Closed
    <1>14. Mask!Left \/ Mask!LeaveLocked \/ Mask!Unmount \/ (\E b \in BOOLEAN : Mask!TabGone(b))
             => Mask!Closed
      BY DEF Mask!Left, Mask!LeaveLocked, Mask!Unmount, Mask!TabGone
    <1>15. CASE Mask!Submit
      BY <1>15 DEF Mask!Submit, Mask!Becomes, Mask!pagePart, Mask!sourceVars, Mask!stageVars, Mask!Key
    <1>16. CASE Mask!Accepted
      BY <1>16 DEF Mask!Accepted, Mask!Becomes, Mask!pagePart, Mask!sourceVars, Mask!stageVars, Mask!Key
    <1>e. maskRoute # 0 /\ maskReading # Mask!NotReading => Mask!Enabled BY DEF MaskBlank, Mask!Enabled
    <1>17. CASE Mask!SubmissionFails
      BY <1>e, <1>17 DEF Mask!SubmissionFails, Mask!Becomes, Mask!Saves, Mask!Effect, Mask!pagePart, Mask!sourceVars, Mask!stageVars, Mask!Key
    <1>18. CASE Mask!Succeeded
      BY <1>e, <1>18 DEF Mask!Succeeded, Mask!Becomes, Mask!Saves, Mask!Effect, Mask!pagePart, Mask!sourceVars, Mask!stageVars, Mask!Key
    <1>19. CASE Mask!Shown
      BY <1>e, <1>19 DEF Mask!Shown, Mask!Becomes, Mask!Saves, Mask!Effect, Mask!pagePart, Mask!sourceVars, Mask!stageVars, Mask!Key
    <1>20. CASE Mask!Discard
      BY <1>e, <1>20 DEF Mask!Discard, Mask!Saves, Mask!Effect, Mask!Blank, Mask!sourceVars,
                  Mask!stageVars, Mask!Key
    <1>21. CASE Mask!Promote BY <1>21 DEF Mask!Promote, Mask!Early
    <1> QED BY ONLY Mask!MaskNext, <1>1, <1>2, <1>3, <1>4, <1>5, <1>6, <1>7, <1>8, <1>9, <1>10, <1>11,
               <1>12, <1>13, <1>14, <1>15, <1>16, <1>17, <1>18, <1>19, <1>20, <1>21
            DEF Mask!MaskNext, MaskJumps, MaskLands

LEMMA MaskBlobStep ==
    ASSUME MaskBlank, MaskReadRight, MaskBlobRight, Mask!MaskNext
    PROVE  MaskBlobRight'
PROOF
    <1> USE DEF MaskBlobRight
    <1>0. CASE /\ UNCHANGED <<maskPaint, maskBlobDirty, maskLastBlob, maskWriting>>
               /\ maskRoute' # 0 => maskRoute # 0
               /\ maskRaced => maskRaced'
      BY <1>0
    <1>1. ASSUME NEW s \in Mask!Images, Mask!Open(s) PROVE MaskBlobRight'
      BY <1>1 DEF Mask!Open, Mask!draftVars, Mask!stageVars
    <1>2. ASSUME NEW s \in Mask!Images, Mask!Pick(s) PROVE MaskBlobRight'
      BY <1>0, <1>2 DEF Mask!Pick, Mask!draftVars, Mask!stageVars
    <1>3. ASSUME NEW s \in Mask!Images, Mask!PickVersion(s) PROVE MaskBlobRight'
      BY <1>0, <1>3 DEF Mask!PickVersion, Mask!stageVars, Mask!Nowhere
    <1>4. ASSUME NEW l \in maskLoads, Mask!JobRead(l) PROVE MaskBlobRight'
      BY <1>0, <1>4 DEF Mask!JobRead, Mask!stageVars
    <1>r. \A l \in maskLoads : maskRoute # 0 BY DEF MaskBlank, Mask!Nowhere
    <1>5. ASSUME NEW l \in maskLoads, Mask!PictureRead(l) PROVE MaskBlobRight'
      <2>1. /\ UNCHANGED <<maskBlobDirty, maskLastBlob, maskWriting>> /\ maskRoute # 0
            /\ ~maskRaced' => ~maskRaced
            /\ maskPaint' \in {0, maskPaint}
        BY <1>r, <1>5 DEF Mask!PictureRead, Mask!Blank, Mask!stageVars
      <2> QED BY <2>1
    <1>6. ASSUME NEW l \in maskLoads, NEW b \in BOOLEAN, Mask!LoadFails(l, b) PROVE MaskBlobRight'
      BY <1>0, <1>r, <1>6 DEF Mask!LoadFails, Mask!stageVars
    <1>7. ASSUME NEW v \in {0, Mask!NewValue}, Mask!Type(v) PROVE MaskBlobRight'
      BY <1>0, <1>7 DEF Mask!Type, Mask!Edited, Mask!Touches, Mask!stageVars
    <1>8. CASE Mask!ToggleMode
      BY <1>0, <1>8 DEF Mask!ToggleMode, Mask!Edited, Mask!Touches, Mask!stageVars
    <1>9. CASE Mask!Stroke \/ MaskJumps
      <2>1. /\ maskBlobDirty' = TRUE /\ UNCHANGED <<maskRoute, maskWriting>>
            /\ ~maskRaced' => ~maskRaced /\ (maskPaint' = maskPaint \/ maskWriting = Mask!Nothing)
        BY <1>9 DEF MaskJumps, Mask!Stroke, Mask!JumpTo, Mask!Marked, Mask!Edited, Mask!Touches
      <2> QED BY <2>1
    <1>10. CASE Mask!BaseTimerFires
      BY <1>0, <1>10 DEF Mask!BaseTimerFires, Mask!stageVars, Mask!sourceVars
    <1>11. CASE Mask!Restored
      <2>1. /\ maskRoute # 0 /\ maskReading # Mask!NotReading
            /\ UNCHANGED <<maskRoute, maskBlobDirty, maskLastBlob, maskWriting>>
            /\ (~maskRaced' => ~maskRaced /\ ~maskLeaving)
        BY <1>11 DEF Mask!Restored, Mask!Nowhere, Mask!sourceVars
      <2> QED BY <2>1 DEF MaskReadRight
    <1>12. CASE Mask!Serialise /\ UNCHANGED <<maskRoute, maskPaint, maskBlobDirty, maskRaced>>
               /\ maskWriting = Mask!Nothing
      <2>1. maskLastBlob' \in {0, maskLastBlob} BY <1>12 DEF Mask!Serialise
      <2>2. \/ maskWriting' = Mask!Nothing
            \/ maskWriting'.fresh => maskWriting'.rec.paint = maskPaint
        <3>1. CASE ~Mask!Dirty \/ Mask!IsEmpty(Mask!Content) BY <1>12, <3>1 DEF Mask!Serialise
        <3>2. CASE Mask!Dirty /\ ~Mask!IsEmpty(Mask!Content)
          <4> DEFINE fresh == maskBlobDirty \/ maskLastBlob = 0
          <4>1. /\ maskWriting'.fresh = fresh
                /\ maskWriting'.rec.paint = IF fresh \/ maskPaint = 0 THEN maskPaint ELSE maskLastBlob
            BY <1>12, <3>2 DEF Mask!Serialise
          <4> HIDE DEF fresh
          <4> QED BY <4>1
        <3> QED BY <3>1, <3>2
      <2> QED BY <1>12, <2>1, <2>2
    <1>13. Mask!SaveFires \/ Mask!Back
             => /\ Mask!Serialise /\ UNCHANGED <<maskRoute, maskPaint, maskBlobDirty, maskRaced>>
                /\ maskWriting = Mask!Nothing
      BY DEF Mask!SaveFires, Mask!Back, Mask!sourceVars, Mask!stageVars
    <1>14. ASSUME NEW png \in BOOLEAN, NEW put \in BOOLEAN, Mask!Landed(png, put) PROVE MaskBlobRight'
      <2>1. /\ UNCHANGED <<maskRoute, maskPaint, maskRaced>>
            /\ maskWriting # Mask!Nothing /\ maskWriting' = Mask!Nothing
        BY <1>14 DEF Mask!Landed, Mask!sourceVars, Mask!stageVars
      <2>2. CASE maskRoute # 0 /\ maskWriting.fresh /\ png
        BY <1>14, <2>1, <2>2, MaskLanding
      <2>3. CASE ~(maskRoute # 0 /\ maskWriting.fresh /\ png)
        BY <1>14, <2>1, <2>3, MaskLanding
      <2> QED BY <2>2, <2>3
    <1>15. CASE Mask!Closed BY <1>15 DEF Mask!Closed
    <1>16. Mask!Left \/ Mask!LeaveLocked \/ Mask!Unmount \/ (\E b \in BOOLEAN : Mask!TabGone(b))
             => Mask!Closed
      BY DEF Mask!Left, Mask!LeaveLocked, Mask!Unmount, Mask!TabGone
    <1>17. CASE Mask!Submit \/ Mask!Accepted \/ Mask!SubmissionFails \/ Mask!Shown
      BY <1>0, <1>17 DEF Mask!Submit, Mask!Accepted, Mask!SubmissionFails, Mask!Shown, Mask!pagePart, Mask!sourceVars, Mask!stageVars
    <1>18. CASE Mask!Succeeded
      BY <1>18 DEF Mask!Succeeded, Mask!pagePart, Mask!sourceVars, Mask!stageVars
    <1>19. CASE Mask!Discard
      <2>1. /\ UNCHANGED <<maskRoute, maskBlobDirty, maskLastBlob, maskWriting, maskRaced>>
            /\ maskPaint' \in {0, maskPaint}
        BY <1>19 DEF Mask!Discard, Mask!Blank, Mask!sourceVars, Mask!stageVars
      <2> QED BY <2>1
    <1>20. CASE Mask!Promote
      <2>1. /\ UNCHANGED <<maskBlobDirty, maskLastBlob, maskWriting>> /\ maskRoute # 0
            /\ ~maskRaced' => ~maskRaced
            /\ maskPaint' \in {0, maskPaint}
        BY <1>20 DEF Mask!Promote, Mask!Blank, Mask!Nowhere
      <2> QED BY <2>1
    <1> QED BY ONLY Mask!MaskNext, <1>1, <1>2, <1>3, <1>4, <1>5, <1>6, <1>7, <1>8, <1>9, <1>10, <1>11,
               <1>12, <1>13, <1>14, <1>15, <1>16, <1>17, <1>18, <1>19, <1>20
            DEF Mask!MaskNext, MaskJumps, MaskLands


\* A save takes up what is on screen.
LEMMA MaskSerialised ==
    ASSUME Mask!Serialise, maskWriting = Mask!Nothing, ~maskRaced, MaskBlobRight,
           UNCHANGED <<maskRoute, maskOut, maskText, maskPaint, maskBase, maskTouched>>
    PROVE  MaskKept'
PROOF
    <1>1. (Mask!Dirty' <=> Mask!Dirty) /\ Mask!Content' = Mask!Content /\ Mask!Key' = Mask!Key
      BY DEF Mask!Dirty, Mask!Content, Mask!Key
    <1>2. CASE ~Mask!Dirty \/ Mask!IsEmpty(Mask!Content) BY <1>1, <1>2 DEF MaskKept, Mask!IsEmpty
    <1>3. CASE Mask!Dirty /\ ~Mask!IsEmpty(Mask!Content)
      <2> DEFINE mask == IF maskBlobDirty \/ maskLastBlob = 0 \/ maskPaint = 0
                         THEN maskPaint ELSE maskLastBlob
      <2>1. /\ maskWriting'.key = Mask!Key
            /\ maskWriting'.rec = [text |-> maskText, paint |-> mask]
        BY <1>3 DEF Mask!Serialise
      <2>2. mask = maskPaint BY DEF MaskBlobRight
      <2>3. maskWriting'.key = Mask!Key' /\ maskWriting'.rec = Mask!Content'
        <3>1. Mask!Content' = [text |-> maskText, paint |-> maskPaint] BY DEF Mask!Content
        <3> QED BY <1>1, <2>1, <2>2, <3>1
      <2>4. maskWriting'.rec # Mask!NoRecord
        <3>1. Mask!Content' # Mask!NoRecord BY <1>1, <1>3 DEF Mask!IsEmpty
        <3> QED BY <2>3, <3>1
      <2>5. maskWriting' # Mask!Nothing BY <2>4 DEF Mask!Nothing
      <2> QED BY <2>3, <2>5 DEF MaskKept
    <1> QED BY <1>2, <1>3

LEMMA MaskRestStep ==
    ASSUME MaskValues, maskOut \in BOOLEAN, MaskBlank, MaskReadRight, MaskBlobRight, MaskResting,
           Mask!MaskNext
    PROVE  MaskResting'
PROOF
    <1> USE DEF Mask!Nowhere
    <1> SUFFICES ASSUME MaskAtRest' PROVE MaskKept' BY DEF MaskResting
    <1>0. CASE MaskAtRest /\ UNCHANGED <<maskRoute, maskOut, maskText, maskPaint, maskBase, maskTouched,
                                        maskWriting, maskStored>>
      BY <1>0 DEF MaskResting, MaskKept, Mask!Dirty, Mask!Content, Mask!Key
    <1>1. ASSUME NEW s \in Mask!Images, Mask!Open(s) \/ Mask!Pick(s) \/ Mask!PickVersion(s) PROVE FALSE
      <2>1. CASE Mask!Open(s) \/ Mask!Pick(s) BY <2>1 DEF MaskAtRest, Mask!Open, Mask!Pick
      <2>2. CASE Mask!PickVersion(s)
        <3>1. Mask!Enabled BY <2>2 DEF MaskBlank, Mask!PickVersion, Mask!Enabled
        <3> QED BY <2>2, <3>1 DEF MaskAtRest, Mask!PickVersion, Mask!Saves, Mask!Effect, Mask!jobVars
      <2> QED BY <1>1, <2>1, <2>2
    <1>2. ASSUME NEW l \in maskLoads, Mask!JobRead(l) PROVE FALSE
      BY <1>2 DEF MaskAtRest, Mask!JobRead, Mask!UrlEffect
    <1>3. ASSUME NEW l \in maskLoads, Mask!PictureRead(l) PROVE FALSE
      BY <1>3 DEF MaskAtRest, Mask!PictureRead, Mask!Effect
    <1>4. ASSUME NEW l \in maskLoads, NEW b \in BOOLEAN, Mask!LoadFails(l, b) PROVE FALSE
      BY <1>4 DEF MaskAtRest, Mask!LoadFails
    <1>5. ASSUME NEW v \in {0, Mask!NewValue}, Mask!Type(v) PROVE FALSE
      BY <1>5 DEF MaskBlank, MaskAtRest, Mask!Type, Mask!Editable, Mask!Locked, Mask!Rearm, Mask!Saves,
                  Mask!Effect, Mask!Enabled, Mask!Edited, Mask!Touches, Mask!jobVars
    <1>6. CASE Mask!ToggleMode
      BY <1>6 DEF MaskBlank, MaskAtRest, Mask!ToggleMode, Mask!Editable, Mask!Locked, Mask!Rearm,
                  Mask!Saves, Mask!Effect, Mask!Enabled, Mask!Edited, Mask!Touches, Mask!jobVars
    <1>7. CASE Mask!Stroke
      <2>1. /\ ~Mask!Locked /\ ~maskLeaving /\ Mask!Enabled /\ UNCHANGED <<maskLeaving, maskStatus>>
            /\ Mask!Rearm \/ Mask!Unheard
        BY <1>7 DEF Mask!Stroke, Mask!Editable, Mask!OnStage, Mask!Edited, Mask!Touches, Mask!jobVars
      <2>2. Mask!Rearm => maskArmed'
        BY <2>1 DEF Mask!Locked, Mask!Rearm, Mask!Saves, Mask!Effect
      <2>3. ASSUME Mask!Unheard PROVE maskArmed' \/ maskUnheard'
        <3>1. maskUnheard' = (maskUnheard \/ ~maskArmed) /\ maskArmed' = maskArmed
          BY <2>3 DEF Mask!Unheard
        <3>2. CASE maskArmed BY <3>1, <3>2
        <3>3. CASE ~maskArmed BY <3>1, <3>3
        <3> QED BY <3>2, <3>3
      <2> QED BY <2>1, <2>2, <2>3 DEF MaskAtRest
    <1>8. CASE MaskJumps
      <2>1. ~maskLeaving /\ UNCHANGED maskLeaving /\ Mask!Unheard
        BY <1>8 DEF MaskJumps, Mask!JumpTo, Mask!Touches
      <2> QED BY <2>1 DEF MaskAtRest, Mask!Unheard
    <1>9. CASE Mask!BaseTimerFires
      <2>1. /\ MaskAtRest /\ Mask!Dirty
            /\ UNCHANGED <<maskRoute, maskOut, maskText, maskPaint, maskWriting, maskStored>>
        BY <1>9 DEF MaskBlank, MaskAtRest, Mask!BaseTimerFires, Mask!sourceVars, Mask!stageVars,
                    Mask!jobVars, Mask!Dirty
      <2> QED BY <2>1 DEF MaskResting, MaskKept, Mask!Content, Mask!Key
    <1>10. CASE Mask!Restored
      <2>1. /\ maskReading # Mask!NotReading /\ maskRoute # 0 /\ maskRoute' = maskRoute
            /\ ~maskRaced /\ ~maskLeaving
            /\ UNCHANGED <<maskOut, maskBase, maskTouched, maskWriting, maskStored, maskStatus>>
        BY <1>10 DEF MaskAtRest, Mask!Restored, Mask!sourceVars, Mask!jobVars
      <2>2. maskReading = Mask!Key /\ maskPaint = 0 /\ ~maskTouched /\ maskWriting = Mask!Nothing
        BY <2>1 DEF MaskReadRight
      <2>3. CASE Mask!IsEmpty(maskStored[maskReading])
        <3>1. UNCHANGED <<maskText, maskPaint, maskArmed>>
          BY <1>10, <2>3 DEF Mask!Restored, Mask!stageVars
        <3>2. maskBase.known
          BY <1>10, <2>1, <3>1 DEF MaskReadRight, MaskAtRest, Mask!Restored
        <3>3. maskText = maskBase.text /\ maskOut = maskBase.out BY <2>1, <3>2 DEF MaskReadRight
        <3>4. ~Mask!Dirty' BY <2>1, <2>2, <3>1, <3>2, <3>3 DEF Mask!Dirty
        <3> QED BY <3>4 DEF MaskKept
      <2>4. CASE ~Mask!IsEmpty(maskStored[maskReading])
        <3>1. maskStored[Mask!Key] \in Mask!Records
          BY <2>1, <2>2 DEF MaskValues, Mask!Key, Mask!Keys, Mask!NotReading
        <3>2. /\ maskText' = maskStored[Mask!Key].text /\ maskPaint' = maskStored[Mask!Key].paint
          BY <1>10, <2>2, <2>4 DEF Mask!Restored, Mask!stageVars
        <3>3. Mask!Content' = maskStored[Mask!Key]
          BY <3>1, <3>2 DEF Mask!Content, Mask!Records
        <3>4. Mask!Key' = Mask!Key BY <2>1 DEF Mask!Key
        <3> QED BY <2>1, <2>2, <3>3, <3>4 DEF MaskKept
      <2> QED BY <2>3, <2>4
    <1>11. CASE Mask!SaveFires
      <2>1. /\ Mask!Serialise /\ maskWriting = Mask!Nothing /\ maskRaced' = maskRaced
            /\ UNCHANGED <<maskRoute, maskOut, maskText, maskPaint, maskBase, maskTouched>>
        BY <1>11 DEF Mask!SaveFires, Mask!sourceVars, Mask!stageVars
      <2> QED BY <2>1, MaskSerialised DEF MaskAtRest
    <1>12. CASE Mask!Back
      <2>1. /\ Mask!Serialise /\ maskWriting = Mask!Nothing /\ maskRaced' = maskRaced
            /\ UNCHANGED <<maskRoute, maskOut, maskText, maskPaint, maskBase, maskTouched>>
        BY <1>12 DEF Mask!Back, Mask!sourceVars, Mask!stageVars
      <2> QED BY <2>1, MaskSerialised DEF MaskAtRest
    <1>13. ASSUME NEW png \in BOOLEAN, NEW put \in BOOLEAN, Mask!Landed(png, put) PROVE MaskKept'
      <2> DEFINE mask == IF maskWriting.rec.paint # 0 /\ maskWriting.fresh /\ ~png
                         THEN maskWriting.older ELSE maskWriting.rec.paint
                 done == [text |-> maskWriting.rec.text, paint |-> mask]
      <2>1. /\ maskWriting # Mask!Nothing /\ maskWriting' = Mask!Nothing
            /\ maskStored' = IF put THEN [maskStored EXCEPT ![maskWriting.key] = done] ELSE maskStored
            /\ maskRoute # 0 => (maskWhole' <=> maskWhole /\ put /\ mask = maskWriting.rec.paint)
            /\ UNCHANGED <<maskRoute, maskOut, maskText, maskPaint, maskBase, maskTouched>>
        BY <1>13 DEF Mask!Landed, Mask!sourceVars, Mask!stageVars
      <2>2. /\ maskRoute # 0 /\ MaskAtRest /\ put /\ mask = maskWriting.rec.paint
        BY <1>13, <2>1 DEF MaskAtRest, Mask!Landed, Mask!sourceVars, Mask!jobVars
      <2>3. (Mask!Dirty' <=> Mask!Dirty) /\ Mask!Content' = Mask!Content /\ Mask!Key' = Mask!Key
        BY <2>1 DEF Mask!Dirty, Mask!Content, Mask!Key
      <2> SUFFICES ASSUME Mask!Dirty', ~Mask!IsEmpty(Mask!Content')
                   PROVE  maskStored'[Mask!Key'] = Mask!Content'
        BY <2>1 DEF MaskKept, Mask!IsEmpty
      <2>4. maskWriting.key = Mask!Key /\ maskWriting.rec = Mask!Content
        BY <2>1, <2>2, <2>3 DEF MaskResting, MaskKept
      <2>5. Mask!Key \in DOMAIN maskStored BY <2>2 DEF MaskValues, MaskAtRest, Mask!Key, Mask!Keys
      <2>6. done = Mask!Content BY <2>2, <2>4 DEF Mask!Content
      <2> HIDE DEF done
      <2> QED BY <2>1, <2>2, <2>3, <2>4, <2>5, <2>6
    <1>14. CASE Mask!Closed BY <1>14 DEF Mask!Closed, MaskAtRest
    <1>15. Mask!Left \/ Mask!LeaveLocked \/ Mask!Unmount \/ (\E b \in BOOLEAN : Mask!TabGone(b))
             => Mask!Closed
      BY DEF Mask!Left, Mask!LeaveLocked, Mask!Unmount, Mask!TabGone
    <1>16. CASE Mask!Submit BY <1>16 DEF Mask!Submit, Mask!Becomes, Mask!pagePart, Mask!sourceVars, Mask!stageVars, MaskAtRest
    <1>17. CASE Mask!Accepted \/ Mask!SubmissionFails \/ Mask!Shown
      <2>1. UNCHANGED <<maskRoute, maskSrc, maskLoads, maskReading, maskRestored, maskLeaving, maskRaced,
                        maskWhole,
                        maskOut, maskText, maskPaint, maskBase, maskTouched, maskWriting, maskStored>>
        BY <1>17 DEF Mask!Accepted, Mask!SubmissionFails, Mask!Shown, Mask!pagePart, Mask!sourceVars,
             Mask!stageVars
      <2>2. maskLeaving
        BY <1>17, <2>1 DEF MaskBlank, MaskAtRest, Mask!Accepted, Mask!SubmissionFails, Mask!Shown,
             Mask!Becomes, Mask!Saves, Mask!Effect, Mask!Enabled
      <2>3. MaskAtRest BY <2>1, <2>2 DEF MaskAtRest
      <2> QED BY <1>0, <2>1, <2>3
    <1>18. CASE Mask!Succeeded
      BY <1>18 DEF MaskBlank, MaskAtRest, Mask!Succeeded, Mask!pagePart, Mask!sourceVars, Mask!stageVars, Mask!Becomes, Mask!Saves,
                   Mask!Effect, Mask!Enabled
    <1>19. CASE Mask!Discard
      BY <1>19 DEF MaskBlank, MaskAtRest, Mask!Discard, Mask!sourceVars, Mask!Saves, Mask!Effect,
                   Mask!Enabled
    <1>20. CASE Mask!Promote
      BY <1>20 DEF MaskAtRest, Mask!Promote, Mask!Effect
    <1> QED BY ONLY Mask!MaskNext, <1>1, <1>2, <1>3, <1>4, <1>5, <1>6, <1>7, <1>8, <1>9, <1>10, <1>11,
               <1>12, <1>13, <1>14, <1>15, <1>16, <1>17, <1>18, <1>19, <1>20
            DEF Mask!MaskNext, MaskJumps, MaskLands

LEMMA MaskStep == MaskInv /\ (Mask!MaskNext \/ UNCHANGED maskVars) => MaskInv'
PROOF
    <1> SUFFICES ASSUME MaskInv, Mask!MaskNext \/ UNCHANGED maskVars PROVE MaskInv' OBVIOUS
    <1>1. /\ MaskValues /\ maskOut \in BOOLEAN /\ MaskCounts /\ MaskBlank /\ MaskLoadsRight
          /\ MaskReadRight /\ MaskBlobRight /\ MaskResting
      BY DEF MaskInv
    <1>2. CASE Mask!MaskNext
      BY ONLY <1>1, <1>2, MaskValuesStep, MaskCountsStep, MaskBlankStep, MaskLoadsStep, MaskReadStep,
              MaskBlobStep, MaskRestStep
         DEF MaskInv
    <1>3. CASE UNCHANGED maskVars
      <2>1. MaskValues' /\ maskOut' \in BOOLEAN /\ MaskCounts'
        BY <1>1, <1>3 DEF maskVars, MaskValues, MaskCounts
      <2>2. MaskBlank' /\ MaskLoadsRight' /\ MaskBlobRight'
        BY <1>1, <1>3 DEF maskVars, MaskBlank, MaskLoadsRight, MaskBlobRight
      <2>3. MaskReadRight' BY <1>1, <1>3 DEF maskVars, MaskReadRight, Mask!Key
      <2>4. MaskResting'
        BY <1>1, <1>3 DEF maskVars, MaskResting, MaskAtRest, MaskKept, Mask!Dirty, Mask!Content, Mask!Key
      <2> QED BY <2>1, <2>2, <2>3, <2>4 DEF MaskInv
    <1> QED BY <1>2, <1>3

LEMMA MaskSafe == MaskInv => Mask!MaskDraftSafe
PROOF
    <1> SUFFICES ASSUME MaskInv PROVE Mask!MaskDraftSafe OBVIOUS
    <1> USE DEF MaskInv, Mask!Nowhere
    <1>1. Mask!PictureIsOfItsJob BY DEF Mask!PictureIsOfItsJob, MaskLoadsRight
    <1>2. Mask!QuietDraftIsExact
      BY DEF Mask!QuietDraftIsExact, Mask!Settled, Mask!Saved, MaskResting, MaskAtRest, MaskKept
    <1> QED BY <1>1, <1>2 DEF Mask!MaskDraftSafe

\* The action of BackKeepsTheDraft.
BackKeeps ==
    maskRoute' # maskRoute /\ Mask!Left /\ Mask!Enabled /\ maskLoads = {}
    /\ maskReading = Mask!NotReading /\ maskSub = "none" /\ ~maskRaced /\ maskWhole => Mask!Saved

LEMMA BackStep == MaskInv => BackKeeps
PROOF
    <1> SUFFICES ASSUME MaskInv, Mask!Left, Mask!Enabled, maskLoads = {}, maskReading = Mask!NotReading,
                        ~maskRaced, maskWhole
                 PROVE  Mask!Saved
      BY DEF BackKeeps
    <1>1. maskLeaving /\ maskWriting = Mask!Nothing BY DEF Mask!Left
    <1>2. maskRoute # 0 BY DEF MaskInv, MaskBlank, Mask!Enabled, Mask!Nowhere
    <1>3. MaskAtRest BY <1>1, <1>2 DEF MaskAtRest
    <1> QED BY <1>1, <1>3 DEF MaskInv, MaskResting, MaskKept, Mask!Saved

-----------------------------------------------------------------------------
(* The mask layer                                                          *)

LEMMA CanvasNumbers == MaxCanvasMarks \in Nat
  BY ClientAssumption

\* The stack holds contents that were painted, and what its steps and an open stroke were
\* made from.
CanvasInv ==
    /\ canvasSteps \in Seq(Nat) /\ Len(canvasSteps) >= 1 /\ canvasCursor \in 1 .. Len(canvasSteps)
    /\ canvasMarks \in 0 .. MaxCanvasMarks /\ pixels \in 0 .. canvasMarks
    /\ \A i \in 1 .. Len(canvasSteps) : canvasSteps[i] <= canvasMarks
    /\ from \in [0 .. MaxCanvasMarks -> Nat] /\ keys \in {"none", "old", "live"}
    /\ view = "stage" /\ ~torn /\ stroke # "brush" => canvasSteps[canvasCursor] = pixels
    /\ view = "stage" /\ ~torn /\ stroke = "brush"
         => pixels # 0 /\ from[pixels] = canvasSteps[canvasCursor]
    /\ Canvas!StepsChain

LEMMA NextIndex ==
    ASSUME NEW top \in Nat, NEW c \in 1 .. top, NEW i \in 1 .. c, i # c
    PROVE  /\ i + 1 \in 1 .. c /\ i + 1 \in 1 .. top /\ i + 1 \in 2 .. top
           /\ (i + 1) - 1 = i
  OBVIOUS

\* a push ends the stack with what is pushed, and parts no two steps
LEMMA PushedWell ==
    ASSUME canvasSteps \in Seq(Nat), canvasCursor \in 1 .. Len(canvasSteps), NEW s \in Nat
    PROVE  /\ Canvas!Pushed(s) \in Seq(Nat) /\ Len(Canvas!Pushed(s)) >= 1
           /\ Canvas!Pushed(s)[Len(Canvas!Pushed(s))] = s
           /\ \A i \in 1 .. Len(Canvas!Pushed(s)) :
                 \/ Canvas!Pushed(s)[i] = s
                 \/ \E j \in 1 .. Len(canvasSteps) : Canvas!Pushed(s)[i] = canvasSteps[j]
           /\ \A i \in 2 .. Len(Canvas!Pushed(s)) :
                 \/ /\ Canvas!Pushed(s)[i] = s
                    /\ Canvas!Pushed(s)[i - 1] = canvasSteps[canvasCursor]
                 \/ \E j \in 2 .. Len(canvasSteps) :
                       /\ Canvas!Pushed(s)[i] = canvasSteps[j]
                       /\ Canvas!Pushed(s)[i - 1] = canvasSteps[j - 1]
PROOF
    <1> DEFINE front == SubSeq(canvasSteps, 1, canvasCursor)
               grown == Append(front, s)
               P == Canvas!Pushed(s)
    <1>1. /\ front \in Seq(Nat) /\ Len(front) = canvasCursor
          /\ \A i \in 1 .. canvasCursor : front[i] = canvasSteps[i]
      OBVIOUS
    <1> HIDE DEF front
    <1>2. /\ grown \in Seq(Nat) /\ Len(grown) = canvasCursor + 1 /\ grown[canvasCursor + 1] = s
          /\ \A i \in 1 .. canvasCursor : grown[i] = canvasSteps[i]
      <2>1. /\ grown \in Seq(Nat) /\ Len(grown) = Len(front) + 1 /\ grown[Len(front) + 1] = s
            /\ \A i \in 1 .. Len(front) : grown[i] = front[i]
        BY <1>1
      <2> QED BY <2>1, <1>1
    <1>3. P = grown \/ P = Tail(grown) BY DEF Canvas!Pushed, front
    <1> HIDE DEF grown, P
    <1>0. Len(canvasSteps) \in Nat /\ canvasCursor \in 1 .. Len(canvasSteps) OBVIOUS
    <1>4. CASE P = grown
      <2>1. ASSUME NEW i \in 2 .. Len(P)
            PROVE  \/ P[i] = s /\ P[i - 1] = canvasSteps[canvasCursor]
                   \/ \E j \in 2 .. Len(canvasSteps) :
                         P[i] = canvasSteps[j] /\ P[i - 1] = canvasSteps[j - 1]
        <3>1. CASE i = canvasCursor + 1 BY <3>1, <1>2, <1>4
        <3>2. CASE i # canvasCursor + 1
          <4>1. i \in 2 .. canvasCursor /\ i - 1 \in 1 .. canvasCursor /\ i \in 2 .. Len(canvasSteps)
            BY <3>2, <1>2, <1>4
          <4> QED BY <4>1, <1>2, <1>4
        <3> QED BY <3>1, <3>2
      <2> QED BY <2>1, <1>2, <1>4 DEF P
    <1>5. CASE P = Tail(grown)
      <2>1. /\ P \in Seq(Nat) /\ Len(P) = canvasCursor
            /\ \A i \in 1 .. canvasCursor : P[i] = grown[i + 1]
        BY <1>2, <1>5
      <2>2. ASSUME NEW i \in 1 .. Len(P)
            PROVE  P[i] = s \/ \E j \in 1 .. Len(canvasSteps) : P[i] = canvasSteps[j]
        <3>1. CASE i = canvasCursor BY <3>1, <2>1, <1>2
        <3>2. CASE i # canvasCursor
          <4>0. i \in 1 .. canvasCursor BY ONLY <2>1, i \in 1 .. Len(P)
          <4>1. i + 1 \in 1 .. canvasCursor /\ i + 1 \in 1 .. Len(canvasSteps)
            BY ONLY <1>0, <3>2, <4>0, NextIndex
          <4> QED BY <4>1, <2>1, <1>2
        <3> QED BY <3>1, <3>2
      <2>3. ASSUME NEW i \in 2 .. Len(P)
            PROVE  \/ P[i] = s /\ P[i - 1] = canvasSteps[canvasCursor]
                   \/ \E j \in 2 .. Len(canvasSteps) :
                         P[i] = canvasSteps[j] /\ P[i - 1] = canvasSteps[j - 1]
        <3>0. /\ i \in 1 .. canvasCursor /\ i - 1 \in 1 .. canvasCursor
              /\ P[i] = grown[i + 1] /\ (i - 1) + 1 = i
          <4>1. i \in 2 .. canvasCursor /\ canvasCursor \in Nat BY ONLY <1>0, <2>1, i \in 2 .. Len(P)
          <4>2. i \in 1 .. canvasCursor /\ i - 1 \in 1 .. canvasCursor /\ (i - 1) + 1 = i
            BY ONLY <4>1
          <4> QED BY ONLY <2>1, <4>2
        <3>3. P[i - 1] = grown[i] BY ONLY <3>0, <2>1
        <3>1. CASE i = canvasCursor BY <3>1, <3>0, <3>3, <1>2
        <3>2. CASE i # canvasCursor
          <4>1. i + 1 \in 2 .. Len(canvasSteps) /\ i + 1 \in 1 .. canvasCursor /\ (i + 1) - 1 = i
            BY ONLY <1>0, <3>2, <3>0, NextIndex
          <4> QED BY <4>1, <3>0, <3>3, <1>2
        <3> QED BY <3>1, <3>2
      <2>4. P[Len(P)] = s BY <2>1, <1>2
      <2> QED BY <2>1, <2>2, <2>3, <2>4 DEF P
    <1> QED BY <1>3, <1>4, <1>5

\* a content made by a change, pushed: the chain goes on
LEMMA CapturedWell ==
    ASSUME CanvasInv, NEW s \in Nat, s <= canvasMarks',
           canvasMarks' \in 0 .. MaxCanvasMarks, canvasMarks' >= canvasMarks,
           from' \in [0 .. MaxCanvasMarks -> Nat],
           \A c \in 0 .. canvasMarks : from'[c] = from[c],
           Canvas!Capture(s),
           ~torn' => ~torn /\ s # 0 /\ from'[s] = canvasSteps[canvasCursor]
    PROVE  /\ canvasSteps' \in Seq(Nat) /\ Len(canvasSteps') >= 1
           /\ canvasCursor' \in 1 .. Len(canvasSteps') /\ canvasSteps'[canvasCursor'] = s
           /\ \A i \in 1 .. Len(canvasSteps') : canvasSteps'[i] <= canvasMarks'
           /\ Canvas!StepsChain'
PROOF
    <1>1. canvasSteps' = Canvas!Pushed(s) /\ canvasCursor' = Len(canvasSteps') BY DEF Canvas!Capture
    <1>2. /\ canvasSteps \in Seq(Nat) /\ canvasCursor \in 1 .. Len(canvasSteps)
          /\ canvasMarks \in Nat /\ \A j \in 1 .. Len(canvasSteps) : canvasSteps[j] <= canvasMarks
      BY CanvasNumbers DEF CanvasInv
    <1>q. /\ \A i \in 1 .. Len(Canvas!Pushed(s)) :
                \/ Canvas!Pushed(s)[i] = s
                \/ \E j \in 1 .. Len(canvasSteps) : Canvas!Pushed(s)[i] = canvasSteps[j]
          /\ \A i \in 2 .. Len(Canvas!Pushed(s)) :
                \/ Canvas!Pushed(s)[i] = s /\ Canvas!Pushed(s)[i - 1] = canvasSteps[canvasCursor]
                \/ \E j \in 2 .. Len(canvasSteps) :
                      /\ Canvas!Pushed(s)[i] = canvasSteps[j]
                      /\ Canvas!Pushed(s)[i - 1] = canvasSteps[j - 1]
      BY ONLY <1>2, s \in Nat, PushedWell
    <1>3. /\ canvasSteps' \in Seq(Nat) /\ Len(canvasSteps') >= 1
          /\ canvasCursor' \in 1 .. Len(canvasSteps') /\ canvasSteps'[canvasCursor'] = s
      <2>1. /\ Canvas!Pushed(s) \in Seq(Nat) /\ Len(Canvas!Pushed(s)) >= 1
            /\ Canvas!Pushed(s)[Len(Canvas!Pushed(s))] = s
        BY ONLY <1>2, s \in Nat, PushedWell
      <2>2. Len(Canvas!Pushed(s)) \in 1 .. Len(Canvas!Pushed(s)) BY ONLY <2>1
      <2> QED BY ONLY <1>1, <2>1, <2>2
    <1>4. ASSUME NEW i \in 1 .. Len(canvasSteps') PROVE canvasSteps'[i] <= canvasMarks'
      <2>1. canvasSteps'[i] = s \/ \E j \in 1 .. Len(canvasSteps) : canvasSteps'[i] = canvasSteps[j]
        BY ONLY <1>1, <1>q, i \in 1 .. Len(canvasSteps')
      <2>2. /\ canvasMarks' \in Nat /\ s <= canvasMarks' /\ canvasMarks <= canvasMarks'
            /\ \A j \in 1 .. Len(canvasSteps) : canvasSteps[j] \in Nat
        BY ONLY <1>2, CanvasNumbers, s <= canvasMarks', canvasMarks' \in 0 .. MaxCanvasMarks,
                canvasMarks' >= canvasMarks
      <2> QED BY ONLY <2>1, <2>2, <1>2, s \in Nat
    <1>5. ASSUME ~torn', NEW i \in 2 .. Len(canvasSteps'), canvasSteps'[i] # 0
          PROVE  from'[canvasSteps'[i]] = canvasSteps'[i - 1]
      <2>1. \/ canvasSteps'[i] = s /\ canvasSteps'[i - 1] = canvasSteps[canvasCursor]
            \/ \E j \in 2 .. Len(canvasSteps) :
                  canvasSteps'[i] = canvasSteps[j] /\ canvasSteps'[i - 1] = canvasSteps[j - 1]
        BY ONLY <1>1, <1>q, i \in 2 .. Len(canvasSteps')
      <2>2. CASE canvasSteps'[i] = s /\ canvasSteps'[i - 1] = canvasSteps[canvasCursor]
        BY <2>2, <1>5
      <2>3. ASSUME NEW j \in 2 .. Len(canvasSteps),
                   canvasSteps'[i] = canvasSteps[j], canvasSteps'[i - 1] = canvasSteps[j - 1]
            PROVE  from'[canvasSteps'[i]] = canvasSteps'[i - 1]
        <3>1. canvasSteps[j] \in 0 .. canvasMarks
          <4>1. j \in 1 .. Len(canvasSteps) /\ canvasSteps[j] \in Nat
            BY ONLY <1>2, j \in 2 .. Len(canvasSteps)
          <4> QED BY ONLY <1>2, <4>1
        <3>2. from[canvasSteps[j]] = canvasSteps[j - 1]
          BY <1>5, <2>3 DEF CanvasInv, Canvas!StepsChain
        <3> QED BY <3>1, <3>2, <2>3
      <2> QED BY <2>1, <2>2, <2>3
    <1> QED BY <1>3, <1>4, <1>5 DEF Canvas!StepsChain

LEMMA CanvasStart == Canvas!CanvasInit => CanvasInv
PROOF
    <1> SUFFICES ASSUME Canvas!CanvasInit PROVE CanvasInv OBVIOUS
    <1>1. /\ canvasSteps = <<0>> /\ canvasCursor = 1 /\ canvasMarks = 0 /\ pixels = 0
          /\ from = [i \in 0 .. MaxCanvasMarks |-> 0] /\ stroke # "brush" /\ keys = "none"
      BY DEF Canvas!CanvasInit, Canvas!NoStroke, Canvas!Contents
    <1>2. /\ canvasSteps \in Seq(Nat) /\ Len(canvasSteps) = 1 /\ canvasSteps[1] = 0
      BY ONLY <1>1
    <1>3. from \in [0 .. MaxCanvasMarks -> Nat] /\ 0 \in 0 .. MaxCanvasMarks BY ONLY <1>1, CanvasNumbers
    <1>4. Canvas!StepsChain BY ONLY <1>2 DEF Canvas!StepsChain
    <1> QED BY ONLY <1>1, <1>2, <1>3, <1>4 DEF CanvasInv

\* a change of pixels: the new content is of a number that nothing had before
LEMMA MarkedWell ==
    ASSUME CanvasInv, NEW c \in Nat, canvasMarks < MaxCanvasMarks, canvasMarks' = canvasMarks + 1,
           pixels' = canvasMarks', from' = [from EXCEPT ![canvasMarks'] = c]
    PROVE  /\ canvasMarks' \in 0 .. MaxCanvasMarks /\ canvasMarks' >= canvasMarks
           /\ pixels' \in Nat \ {0} /\ pixels' <= canvasMarks'
           /\ from' \in [0 .. MaxCanvasMarks -> Nat] /\ from'[pixels'] = c
           /\ \A i \in 0 .. canvasMarks : from'[i] = from[i]
PROOF
    <1>1. canvasMarks \in Nat /\ from \in [0 .. MaxCanvasMarks -> Nat]
      BY ONLY CanvasInv, CanvasNumbers DEF CanvasInv
    <1>2. canvasMarks' \in Nat \ {0} /\ canvasMarks' \in 0 .. MaxCanvasMarks
      BY <1>1, CanvasNumbers
    <1>3. \A i \in 0 .. canvasMarks : i # canvasMarks' /\ i \in 0 .. MaxCanvasMarks
      BY <1>1, CanvasNumbers
    <1> QED BY <1>1, <1>2, <1>3

\* steps that leave the stack alone
LEMMA StackStays ==
    ASSUME CanvasInv, UNCHANGED <<canvasSteps>>, ~torn' => ~torn, canvasMarks' >= canvasMarks,
           canvasMarks' \in 0 .. MaxCanvasMarks, from' \in [0 .. MaxCanvasMarks -> Nat],
           \A i \in 0 .. canvasMarks : from'[i] = from[i]
    PROVE  /\ canvasSteps' \in Seq(Nat) /\ Len(canvasSteps') >= 1
           /\ \A i \in 1 .. Len(canvasSteps') : canvasSteps'[i] <= canvasMarks'
           /\ Canvas!StepsChain'
PROOF
    <1>1. /\ canvasSteps \in Seq(Nat) /\ canvasMarks \in Nat
          /\ \A i \in 1 .. Len(canvasSteps) : canvasSteps[i] \in 0 .. canvasMarks
      <2>1. /\ canvasSteps \in Seq(Nat) /\ canvasMarks \in 0 .. MaxCanvasMarks
            /\ \A i \in 1 .. Len(canvasSteps) : canvasSteps[i] <= canvasMarks
        BY ONLY CanvasInv DEF CanvasInv
      <2>2. \A i \in 1 .. Len(canvasSteps) : canvasSteps[i] \in Nat BY ONLY <2>1
      <2> QED BY ONLY <2>1, <2>2, CanvasNumbers
    <1>2. ASSUME ~torn', NEW i \in 2 .. Len(canvasSteps), canvasSteps[i] # 0
          PROVE  from'[canvasSteps[i]] = canvasSteps[i - 1]
      <2>1. i \in 1 .. Len(canvasSteps) BY ONLY <1>1, i \in 2 .. Len(canvasSteps)
      <2>2. from[canvasSteps[i]] = canvasSteps[i - 1] BY <1>2 DEF CanvasInv, Canvas!StepsChain
      <2>3. canvasSteps[i] \in 0 .. canvasMarks BY ONLY <1>1, <2>1
      <2> QED BY <2>2, <2>3
    <1>3. Canvas!StepsChain' BY <1>2 DEF Canvas!StepsChain
    <1>4. Len(canvasSteps) >= 1 BY ONLY CanvasInv DEF CanvasInv
    <1>5. \A i \in 1 .. Len(canvasSteps) : canvasSteps[i] <= canvasMarks'
      <2>1. canvasMarks' \in Nat /\ canvasMarks <= canvasMarks' BY CanvasNumbers
      <2> QED BY ONLY <1>1, <2>1
    <1> QED BY <1>1, <1>3, <1>4, <1>5

LEMMA KeysStep ==
    ASSUME keys \in {"none", "old", "live"}, Canvas!CanvasNext \/ UNCHANGED canvasVars
    PROVE  keys' \in {"none", "old", "live"}
  BY DEF Canvas!CanvasNext, canvasVars, Canvas!Down, Canvas!Wand, Canvas!Move, Canvas!Up,
         Canvas!PickTool, Canvas!AdjustBrush, Canvas!Apply, Canvas!Clear, Canvas!GoTo,
         Canvas!UndoButton, Canvas!RedoButton, Canvas!Jump, Canvas!ByKey, Canvas!Submit,
         Canvas!Fails, Canvas!Succeeds, Canvas!Discard, Canvas!Regenerate, Canvas!Accept,
         Canvas!Mounted

LEMMA CanvasStep ==
    ASSUME CanvasInv, Canvas!CanvasNext \/ UNCHANGED canvasVars
    PROVE  CanvasInv'
PROOF
    <1>t. /\ canvasSteps \in Seq(Nat) /\ canvasCursor \in 1 .. Len(canvasSteps)
          /\ canvasSteps[canvasCursor] \in Nat /\ pixels \in Nat /\ canvasMarks \in Nat
          /\ canvasMarks <= MaxCanvasMarks /\ pixels <= canvasMarks
          /\ from \in [0 .. MaxCanvasMarks -> Nat]
          /\ \A i \in 1 .. Len(canvasSteps) : canvasSteps[i] \in 0 .. canvasMarks
      <2>1. /\ canvasSteps \in Seq(Nat) /\ canvasCursor \in 1 .. Len(canvasSteps)
            /\ canvasMarks \in 0 .. MaxCanvasMarks /\ pixels \in 0 .. canvasMarks
            /\ \A i \in 1 .. Len(canvasSteps) : canvasSteps[i] <= canvasMarks
            /\ from \in [0 .. MaxCanvasMarks -> Nat]
        BY ONLY CanvasInv DEF CanvasInv
      <2>2. \A i \in 1 .. Len(canvasSteps) : canvasSteps[i] \in Nat BY ONLY <2>1
      <2> QED BY ONLY <2>1, <2>2, CanvasNumbers
    <1>z. keys' \in {"none", "old", "live"} BY KeysStep DEF CanvasInv
    <1> USE <1>z
    <1>p. from[pixels] \in Nat BY <1>t, CanvasNumbers
    <1>k. ASSUME UNCHANGED <<canvasSteps, canvasMarks, from>>, ~torn' => ~torn
          PROVE  /\ canvasSteps' \in Seq(Nat) /\ Len(canvasSteps') >= 1
                 /\ canvasMarks' \in 0 .. MaxCanvasMarks /\ from' \in [0 .. MaxCanvasMarks -> Nat]
                 /\ \A i \in 1 .. Len(canvasSteps') : canvasSteps'[i] <= canvasMarks'
                 /\ Canvas!StepsChain'
      BY <1>k, <1>t, StackStays
    <1>0. CASE UNCHANGED canvasVars
      BY <1>0, <1>k DEF canvasVars, CanvasInv
    \* painted and captured at once
    <1>m. ASSUME Canvas!Mark, Canvas!Capture(pixels'), UNCHANGED <<view, torn>>,
                 stroke # "brush", view = "stage", stroke' # "brush"
          PROVE  CanvasInv'
      <2>1. /\ canvasMarks' \in 0 .. MaxCanvasMarks /\ canvasMarks' >= canvasMarks
            /\ pixels' \in Nat \ {0} /\ pixels' <= canvasMarks'
            /\ from' \in [0 .. MaxCanvasMarks -> Nat] /\ from'[pixels'] = pixels
            /\ \A i \in 0 .. canvasMarks : from'[i] = from[i]
        BY <1>m, <1>t, MarkedWell DEF Canvas!Mark
      <2>2. ~torn' => ~torn /\ pixels' # 0 /\ from'[pixels'] = canvasSteps[canvasCursor]
        BY <1>m, <2>1 DEF CanvasInv
      <2>3. /\ canvasSteps' \in Seq(Nat) /\ Len(canvasSteps') >= 1
            /\ canvasCursor' \in 1 .. Len(canvasSteps') /\ canvasSteps'[canvasCursor'] = pixels'
            /\ \A i \in 1 .. Len(canvasSteps') : canvasSteps'[i] <= canvasMarks'
            /\ Canvas!StepsChain'
        BY <1>m, <2>1, <2>2, CapturedWell
      <2> QED BY <1>m, <2>1, <2>3 DEF CanvasInv
    <1>1. CASE Canvas!Down
      <2>1. CASE tool = "brush"
        <3>1. /\ view = "stage" /\ stroke # "brush" /\ stroke' = "brush" /\ Canvas!Mark
              /\ UNCHANGED <<view, canvasSteps, canvasCursor, torn>>
          BY <1>1, <2>1 DEF Canvas!Down, Canvas!OnStage, Canvas!NoStroke
        <3>2. /\ canvasMarks' \in 0 .. MaxCanvasMarks /\ canvasMarks' >= canvasMarks
              /\ pixels' \in Nat \ {0} /\ pixels' <= canvasMarks'
              /\ from' \in [0 .. MaxCanvasMarks -> Nat] /\ from'[pixels'] = pixels
              /\ \A i \in 0 .. canvasMarks : from'[i] = from[i]
          BY <3>1, <1>t, MarkedWell DEF Canvas!Mark
        <3>3. /\ canvasSteps' \in Seq(Nat) /\ Len(canvasSteps') >= 1
              /\ \A i \in 1 .. Len(canvasSteps') : canvasSteps'[i] <= canvasMarks'
              /\ Canvas!StepsChain'
          BY <3>1, <3>2, StackStays
        <3> QED BY <3>1, <3>2, <3>3 DEF CanvasInv
      <2>2. CASE tool # "brush"
        <3>1. /\ stroke # "brush" /\ stroke' # "brush"
              /\ UNCHANGED <<view, canvasMarks, pixels, from, canvasSteps, canvasCursor, torn>>
          BY <1>1, <2>2 DEF Canvas!Down, Canvas!NoStroke
        <3> QED BY <3>1, <1>k DEF CanvasInv
      <2> QED BY <2>1, <2>2
    <1>2. CASE Canvas!Wand
      BY <1>2, <1>m DEF Canvas!Wand, Canvas!OnStage, Canvas!NoStroke
    <1>3. CASE Canvas!Move
      <2>1. /\ view = "stage" /\ stroke = "brush" /\ canvasMarks < MaxCanvasMarks
            /\ canvasMarks' = canvasMarks + 1
            /\ pixels' = canvasMarks' /\ from' = [from EXCEPT ![canvasMarks'] = from[pixels]]
            /\ UNCHANGED <<view, stroke, canvasSteps, canvasCursor, torn>>
        BY <1>3 DEF Canvas!Move
      <2>2. /\ canvasMarks' \in 0 .. MaxCanvasMarks /\ canvasMarks' >= canvasMarks
            /\ pixels' \in Nat \ {0} /\ pixels' <= canvasMarks'
            /\ from' \in [0 .. MaxCanvasMarks -> Nat] /\ from'[pixels'] = from[pixels]
            /\ \A i \in 0 .. canvasMarks : from'[i] = from[i]
        BY <2>1, <1>p, MarkedWell
      <2>3. /\ canvasSteps' \in Seq(Nat) /\ Len(canvasSteps') >= 1
            /\ \A i \in 1 .. Len(canvasSteps') : canvasSteps'[i] <= canvasMarks'
            /\ Canvas!StepsChain'
        BY <2>1, <2>2, StackStays
      <2> QED BY <2>1, <2>2, <2>3 DEF CanvasInv
    <1>4. ASSUME NEW sized \in BOOLEAN, Canvas!Up(sized) PROVE CanvasInv'
      <2>0. view = "stage" /\ stroke' = "none" /\ UNCHANGED <<view, torn>>
        BY <1>4 DEF Canvas!Up, Canvas!NoStroke
      <2>1. CASE stroke = "brush"
        <3>1. Canvas!Capture(pixels) /\ UNCHANGED <<pixels, canvasMarks, from>>
          BY <1>4, <2>1 DEF Canvas!Up
        <3>2. ~torn' => ~torn /\ pixels # 0 /\ from'[pixels] = canvasSteps[canvasCursor]
          BY <2>0, <2>1, <3>1 DEF CanvasInv
        <3>3. /\ canvasSteps' \in Seq(Nat) /\ Len(canvasSteps') >= 1
              /\ canvasCursor' \in 1 .. Len(canvasSteps') /\ canvasSteps'[canvasCursor'] = pixels
              /\ \A i \in 1 .. Len(canvasSteps') : canvasSteps'[i] <= canvasMarks'
              /\ Canvas!StepsChain'
          BY <1>t, <3>1, <3>2, CapturedWell
        <3> QED BY <1>t, <2>0, <3>1, <3>3 DEF CanvasInv
      <2>2. CASE stroke = "rect" /\ sized
        <3>1. Canvas!Mark /\ Canvas!Capture(pixels')
          BY <1>4, <2>2 DEF Canvas!Up
        <3> QED BY <2>0, <2>2, <3>1, <1>m
      <2>3. CASE stroke # "brush" /\ ~(stroke = "rect" /\ sized)
        <3>1. UNCHANGED <<pixels, canvasMarks, from, canvasSteps, canvasCursor>>
          BY <1>4, <2>3 DEF Canvas!Up
        <3> QED BY <2>0, <2>3, <3>1, <1>k DEF CanvasInv
      <2> QED BY <2>1, <2>2, <2>3
    <1>5. ASSUME NEW t \in Canvas!Tools, Canvas!PickTool(t) PROVE CanvasInv'
      <2>1. /\ UNCHANGED <<view, pixels, canvasSteps, canvasCursor, canvasMarks, from>>
            /\ ~torn' => ~torn /\ stroke # "brush"
            /\ stroke' # "brush"
        BY <1>5 DEF Canvas!PickTool, Canvas!NoStroke
      <2> QED BY <2>1, <1>k DEF CanvasInv
    <1>6. CASE Canvas!AdjustBrush
      BY <1>6, <1>k DEF Canvas!AdjustBrush, CanvasInv
    <1>7. CASE Canvas!Apply
      BY <1>7, <1>m DEF Canvas!Apply, Canvas!OnStage, Canvas!NoStroke
    <1>8. CASE Canvas!Clear
      <2>1. /\ Canvas!Capture(0) /\ torn' /\ pixels' = 0 /\ UNCHANGED <<canvasMarks, from>>
        BY <1>8 DEF Canvas!Clear
      <2>2. /\ canvasSteps' \in Seq(Nat) /\ Len(canvasSteps') >= 1
            /\ canvasCursor' \in 1 .. Len(canvasSteps')
            /\ \A i \in 1 .. Len(canvasSteps') : canvasSteps'[i] <= canvasMarks'
            /\ Canvas!StepsChain'
        BY <1>t, <2>1, CapturedWell
      <2> QED BY <1>t, <2>1, <2>2 DEF CanvasInv
    \* the cursor moves, and the canvas with it
    <1>g. ASSUME NEW i \in 1 .. Len(canvasSteps), canvasCursor' = i, ~torn' => ~torn,
                 UNCHANGED <<view, stroke, canvasSteps, canvasMarks, from>>,
                 pixels' \in {pixels, canvasSteps[i]},
                 view = "stage" /\ ~torn' => stroke # "brush" /\ pixels' = canvasSteps[i]
          PROVE  CanvasInv'
      <2>1. pixels' \in 0 .. canvasMarks' /\ canvasCursor' \in 1 .. Len(canvasSteps')
        BY <1>g, <1>t
      <2> QED BY <1>g, <1>k, <2>1 DEF CanvasInv
    <1>9. ASSUME NEW i \in Int, Canvas!GoTo(i), UNCHANGED torn, stroke = "none" PROVE CanvasInv'
      BY <1>9, <1>g DEF Canvas!GoTo
    <1>10. CASE Canvas!UndoButton
      BY <1>10, <1>9, <1>t DEF Canvas!UndoButton, Canvas!NoStroke
    <1>11. CASE Canvas!RedoButton
      BY <1>11, <1>9, <1>t DEF Canvas!RedoButton, Canvas!NoStroke
    <1>12. ASSUME NEW i \in 1 .. MaxSteps, Canvas!Jump(i) PROVE CanvasInv'
      BY <1>12, <1>9 DEF Canvas!Jump, Canvas!NoStroke
    <1>13. ASSUME NEW i \in Int, Canvas!ByKey(i) PROVE CanvasInv'
      BY <1>13, <1>g DEF Canvas!ByKey, Canvas!NoStroke
    <1>14. CASE Canvas!Submit
      <2>1. /\ UNCHANGED <<view, stroke, pixels, canvasSteps, canvasCursor, canvasMarks, from>>
            /\ ~torn' => ~torn
        BY <1>14 DEF Canvas!Submit
      <2> QED BY <2>1, <1>k DEF CanvasInv
    <1>15. CASE Canvas!Fails
      BY <1>15, <1>k DEF Canvas!Fails, CanvasInv
    <1>16. CASE Canvas!Succeeds
      <2>1. /\ view' = "compare"
            /\ UNCHANGED <<pixels, canvasSteps, canvasCursor, canvasMarks, from, torn>>
        BY <1>16 DEF Canvas!Succeeds
      <2> QED BY <2>1, <1>k DEF CanvasInv
    <1>17. CASE Canvas!Discard
      <2>1. /\ torn' /\ pixels' = 0
            /\ UNCHANGED <<canvasSteps, canvasCursor, canvasMarks, from>>
        BY <1>17 DEF Canvas!Discard, Canvas!Mounted
      <2> QED BY <2>1, <1>k, <1>t DEF CanvasInv
    <1>18. CASE Canvas!Regenerate
      <2>1. /\ torn' /\ pixels' = 0
            /\ UNCHANGED <<canvasSteps, canvasCursor, canvasMarks, from>>
        BY <1>18 DEF Canvas!Regenerate
      <2> QED BY <2>1, <1>k, <1>t DEF CanvasInv
    <1>19. CASE Canvas!Accept
      <2>1. /\ pixels' = 0 /\ canvasSteps' = <<0>> /\ canvasCursor' = 1 /\ stroke' # "brush"
            /\ UNCHANGED <<canvasMarks, from>>
        BY <1>19 DEF Canvas!Accept, Canvas!Mounted, Canvas!NoStroke
      <2>2. Canvas!StepsChain' BY <2>1 DEF Canvas!StepsChain
      <2> QED BY <2>1, <2>2, <1>t, CanvasNumbers DEF CanvasInv
    <1> QED BY ONLY Canvas!CanvasNext \/ UNCHANGED canvasVars, <1>0, <1>1, <1>2, <1>3, <1>4, <1>5,
              <1>6, <1>7, <1>8, <1>10, <1>11, <1>12, <1>13, <1>14, <1>15, <1>16, <1>17, <1>18,
              <1>19, <1>t DEF Canvas!CanvasNext

LEMMA CanvasIsSafe == CanvasInv => Canvas!CanvasSafe
  BY DEF CanvasInv, Canvas!CanvasSafe, Canvas!StepIsShown, Canvas!NoStroke

-----------------------------------------------------------------------------
(* The preferences                                                         *)

LEMMA PrefNumbers == 0 \in Values /\ 9 \notin Values
  BY ClientAssumption

\* What an answer carries, and how the staged edits relate to what was read.
SettingsInv ==
    /\ settingsServer \in Settings!Prefs /\ settingsSaved \in Settings!Prefs /\ dirty \in Settings!Diffs
    /\ settingsLoads \in [1 .. 2 -> [at : {"idle", "asked", "answered"}, body : Settings!Diffs]]
    /\ \A i \in 1 .. 2 : settingsLoads[i].at = "answered" => settingsLoads[i].body \in Settings!Prefs
    /\ save \in [at : {"idle", "asked", "answered"}, body : Settings!Diffs]
    /\ save.at = "answered" => save.body \in Settings!Prefs
    /\ Settings!StagedDiffers /\ Settings!LookFollowsForm

\* a value on top of another
LEMMA MergedWell ==
    ASSUME NEW lower \in Settings!Prefs, NEW upper \in Settings!Diffs
    PROVE  /\ Settings!Merged(lower, upper) \in Settings!Prefs
           /\ Settings!Merged(lower, Settings!Nothing) = lower
  BY DEF Settings!Merged, Settings!Prefs, Settings!Diffs, Settings!Nothing, Settings!Clean

LEMMA SettingsStart == Settings!PrefInit => SettingsInv
  BY PrefNumbers
  DEF Settings!PrefInit, SettingsInv, Settings!Prefs, Settings!Diffs, Settings!Nothing, Settings!Idle,
      Settings!Clean, Settings!StagedDiffers, Settings!LookFollowsForm, Settings!Merged, Settings!PrefKeys

LEMMA Adopted ==
    ASSUME NEW answer \in Settings!Prefs, Settings!Adopts(answer)
    PROVE  /\ settingsSaved' \in Settings!Prefs /\ dirty' \in Settings!Diffs
           /\ Settings!StagedDiffers' /\ Settings!LookFollowsForm'
  BY PrefNumbers
  DEF Settings!Adopts, Settings!Prefs, Settings!Diffs, Settings!Nothing, Settings!Clean,
      Settings!StagedDiffers, Settings!LookFollowsForm, Settings!Merged, Settings!PrefKeys

LEMMA SettingsStep ==
    ASSUME SettingsInv, Settings!PrefNext \/ UNCHANGED settingsVars
    PROVE  SettingsInv'
PROOF
    <1> USE DEF SettingsInv
    <1>0. CASE UNCHANGED settingsVars
      BY <1>0 DEF settingsVars, Settings!StagedDiffers, Settings!LookFollowsForm, Settings!Merged
    <1>n. Settings!Nothing \in Settings!Diffs /\ Settings!Prefs \subseteq Settings!Diffs
      BY DEF Settings!Nothing, Settings!Diffs, Settings!Prefs
    <1>f. ASSUME UNCHANGED <<settingsSaved, dirty, look>>
          PROVE  Settings!StagedDiffers' /\ Settings!LookFollowsForm'
      BY <1>f DEF Settings!StagedDiffers, Settings!LookFollowsForm, Settings!Merged
    <1>1. ASSUME NEW k \in Settings!PrefKeys, NEW v \in Values, Settings!ElsewhereSaves(k, v)
          PROVE  SettingsInv'
      BY <1>1 DEF Settings!ElsewhereSaves, Settings!Prefs, Settings!StagedDiffers,
                  Settings!LookFollowsForm, Settings!Merged
    <1>2. ASSUME NEW k \in Settings!PrefKeys, NEW v \in Values, Settings!setLocalDraft(k, v)
          PROVE  SettingsInv'
      <2>1. /\ dirty' = [dirty EXCEPT ![k] = IF v = settingsSaved[k] THEN 9 ELSE v]
            /\ look' = (IF k = "theme" THEN v ELSE look)
            /\ UNCHANGED <<settingsServer, settingsSaved, settingsLoads, save>>
        BY <1>2 DEF Settings!setLocalDraft, Settings!Clean
      <2>2. dirty' \in Settings!Diffs BY <2>1 DEF Settings!Diffs, Settings!Clean
      <2>3. Settings!StagedDiffers'
        BY <2>1, PrefNumbers DEF Settings!StagedDiffers, Settings!Diffs, Settings!Prefs
      <2>4. Settings!LookFollowsForm'
        BY <2>1, PrefNumbers
        DEF Settings!LookFollowsForm, Settings!Merged, Settings!Diffs, Settings!Clean, Settings!PrefKeys
      <2> QED BY <2>1, <2>2, <2>3, <2>4
    <1>3. ASSUME NEW i \in 1 .. 2, Settings!Load(i) PROVE SettingsInv'
      BY <1>3, <1>f DEF Settings!Load
    <1>4. ASSUME NEW i \in 1 .. 2, Settings!LoadServed(i) PROVE SettingsInv'
      BY <1>4, <1>n DEF Settings!LoadServed, Settings!StagedDiffers, Settings!LookFollowsForm,
                        Settings!Merged
    <1>5. ASSUME NEW i \in 1 .. 2, Settings!Loaded(i) PROVE SettingsInv'
      <2>1. settingsLoads[i].body \in Settings!Prefs BY <1>5 DEF Settings!Loaded
      <2>2. /\ settingsSaved' \in Settings!Prefs /\ dirty' \in Settings!Diffs
            /\ Settings!StagedDiffers' /\ Settings!LookFollowsForm'
        BY <1>5, <2>1, Adopted DEF Settings!Loaded
      <2> QED BY <1>5, <1>n, <2>2 DEF Settings!Loaded, Settings!Idle
    <1>6. ASSUME NEW i \in 1 .. 2, Settings!LoadFails(i) PROVE SettingsInv'
      BY <1>6, <1>n DEF Settings!LoadFails, Settings!Idle, Settings!StagedDiffers,
                        Settings!LookFollowsForm, Settings!Merged
    <1>7. CASE Settings!Reset
      BY <1>7, <1>n, PrefNumbers
      DEF Settings!Reset, Settings!StagedDiffers, Settings!LookFollowsForm, Settings!Merged,
          Settings!Nothing, Settings!Clean, Settings!Prefs, Settings!PrefKeys
    <1>8. CASE Settings!Save
      BY <1>8 DEF Settings!Save, Settings!StagedDiffers, Settings!LookFollowsForm, Settings!Merged
    <1>9. CASE Settings!SaveServed
      <2>1. settingsServer' \in Settings!Prefs BY <1>9, MergedWell DEF Settings!SaveServed
      <2> QED BY <1>9, <1>n, <2>1 DEF Settings!SaveServed, Settings!StagedDiffers,
                                     Settings!LookFollowsForm, Settings!Merged
    <1>10. CASE Settings!Saved
      <2>1. /\ settingsSaved' \in Settings!Prefs /\ dirty' \in Settings!Diffs
            /\ Settings!StagedDiffers' /\ Settings!LookFollowsForm'
        BY <1>10, Adopted DEF Settings!Saved
      <2> QED BY <1>10, <1>n, <2>1 DEF Settings!Saved, Settings!Idle
    <1>11. CASE Settings!SaveFails
      BY <1>11, <1>n DEF Settings!SaveFails, Settings!Idle, Settings!StagedDiffers,
                         Settings!LookFollowsForm, Settings!Merged
    <1> QED BY <1>0, <1>1, <1>2, <1>3, <1>4, <1>5, <1>6, <1>7, <1>8, <1>9, <1>10, <1>11
            DEF Settings!PrefNext

-----------------------------------------------------------------------------
(* The drafts                                                              *)

WorkInv == DraftInv /\ MaskInv /\ CanvasInv /\ SettingsInv

LEMMA WorkStarts == Init => WorkInv
PROOF
    <1>1. Init => Draft!DraftInit /\ Mask!MaskInit /\ Canvas!CanvasInit /\ Settings!PrefInit
      BY ONLY DEF Init
    <1> QED BY ONLY <1>1, DraftStart, MaskStarts, CanvasStart, SettingsStart DEF WorkInv

\* the mask editor is on screen with either set of bounds
LEMMA WorkPartsStep ==
    [Next]_clientVars =>
        /\ Draft!DraftNext \/ UNCHANGED draftVars
        /\ Mask!MaskNext \/ UNCHANGED maskVars
        /\ Canvas!CanvasNext \/ UNCHANGED canvasVars
        /\ Settings!PrefNext \/ UNCHANGED settingsVars
PROOF
    <1>1. UNCHANGED clientVars => UNCHANGED <<draftVars, maskVars, canvasVars, settingsVars>>
      BY ONLY DEF clientVars
    <1>2. Next => Draft!DraftNext \/ UNCHANGED draftVars BY ONLY DEF Next
    <1>3. Next => Mask!MaskNext \/ UNCHANGED maskVars BY ONLY DEF Next
    <1>4. Next => Canvas!CanvasNext \/ UNCHANGED canvasVars BY ONLY DEF Next
    <1>5. Next => Settings!PrefNext \/ UNCHANGED settingsVars BY ONLY DEF Next
    <1> QED BY ONLY <1>1, <1>2, <1>3, <1>4, <1>5

LEMMA WorkStep == WorkInv /\ [Next]_clientVars => WorkInv'
PROOF
    <1> SUFFICES ASSUME WorkInv, [Next]_clientVars PROVE WorkInv' OBVIOUS
    <1>1. DraftInv /\ MaskInv /\ CanvasInv /\ SettingsInv BY DEF WorkInv
    <1>2. /\ Draft!DraftNext \/ UNCHANGED draftVars
          /\ Mask!MaskNext \/ UNCHANGED maskVars
          /\ Canvas!CanvasNext \/ UNCHANGED canvasVars
          /\ Settings!PrefNext \/ UNCHANGED settingsVars
      BY WorkPartsStep
    <1>3. DraftInv' BY ONLY <1>1, <1>2, DraftStep
    <1>4. MaskInv' BY ONLY <1>1, <1>2, MaskStep
    <1>5. CanvasInv' BY ONLY <1>1, <1>2, CanvasStep
    <1>6. SettingsInv' BY ONLY <1>1, <1>2, SettingsStep
    <1> QED BY <1>3, <1>4, <1>5, <1>6 DEF WorkInv

\* With nothing under way a reload brings back exactly the form of the Create
\* page, and never a prompt that was submitted.  At rest the draft of the mask
\* editor is the work on its screen, except a change of the mask that left its
\* history as long as it was (an undo, a redo, a stroke after one undo or at the
\* limit of the history) and that no timer set before has saved, and except after
\* a write that IndexedDB rejected or that lacked its PNG; the picture it is drawn
\* on is that of its job.  The step the history shows is the canvas, and what is
\* staged in the preferences differs from what was read (useDraftAutosave,
\* useMaskDraftAutosave, HistoryStack and preferences.js).
THEOREM DraftsAreSafe == Spec => []DraftsSafe
PROOF
    <1>1. SettingsInv => Settings!PrefSafe BY DEF SettingsInv, Settings!PrefSafe
    <1>2. WorkInv => DraftsSafe
      BY ONLY <1>1, DraftIsSafe, MaskSafe, CanvasIsSafe DEF WorkInv, DraftsSafe
    <1> QED BY <1>2, WorkStarts, WorkStep, PTL DEF Spec

\* Another model never costs the parameters set for the one before, and the back
\* button of the mask editor never leaves an edit behind whose write IndexedDB
\* took in full, also one the autosave missed (CreatePage's model effects,
\* MaskEditPage's guarded navigation and the flush of its autosave).
THEOREM WorkStaysKept == Spec => WorkIsKept
PROOF
    <1>1. Init => ModelInv /\ MaskInv
      BY SubmissionStarts, WorkStarts DEF SubmissionInv, WorkInv
    <1>2. [Next]_clientVars =>
              (Model!ModelsNext \/ UNCHANGED modelVars) /\ (Mask!MaskNext \/ UNCHANGED maskVars)
      BY PartsStep, WorkPartsStep
    <1>3. ModelInv /\ MaskInv /\ [Next]_clientVars => (ModelInv /\ MaskInv)'
      BY <1>2, ModelStep, MaskStep
    <1>4. ModelInv /\ MaskInv /\ [Next]_clientVars
              => [Switches]_(Model!modelVars) /\ [BackKeeps]_(Mask!maskVars)
      <2>1. UNCHANGED modelVars => UNCHANGED Model!modelVars BY DEF modelVars, Model!modelVars
      <2>2. UNCHANGED maskVars => UNCHANGED Mask!maskVars
        BY DEF maskVars, Mask!maskVars, Mask!sourceVars, Mask!stageVars, Mask!draftVars, Mask!jobVars
      <2> QED BY <1>2, <2>1, <2>2, SwitchStep, BackStep
    <1>5. Spec => [][Switches]_(Model!modelVars) /\ [][BackKeeps]_(Mask!maskVars)
      BY <1>1, <1>3, <1>4, PTL DEF Spec
    <1> QED BY <1>5 DEF WorkIsKept, Model!SwitchKeepsParams, Mask!BackKeepsTheDraft, Switches,
                        BackKeeps, Model!None
=============================================================================
