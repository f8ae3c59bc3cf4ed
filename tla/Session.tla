------------------------------ MODULE Session -------------------------------
(***************************************************************************)
(* Who the tabs of one browser are: the token in localStorage, which all   *)
(* tabs share, the token in a tab's sessionStorage, which overrides it     *)
(* while an admin impersonates a user, the sign-in form, and the answers   *)
(* that end a session.                                                     *)
(*                                                                         *)
(* A token stands for itself and for the user object stored beside it: the *)
(* two are always written and removed together.  Every request carries the *)
(* token that was current when it was sent.                                *)
(***************************************************************************)
EXTENDS Naturals, FiniteSets

CONSTANTS
    Tabs,
    Tokens,     \* what a sign-in may return
    ImpTokens,  \* what impersonation may return
    NoToken

ASSUME SessionAssumption == NoToken \notin Tokens \cup ImpTokens /\ Tokens \cap ImpTokens = {}

VARIABLES
    stored,    \* the token in localStorage
    perTab,    \* the token in each tab's sessionStorage
    page,      \* "closed", the sign-in page, or the app
    form,      \* the sign-in form of each tab
    call,      \* the token of a tab's pending request
    leaving,   \* a tab that waits for POST /logout: how it was signed in
    dead,      \* tokens that the server rejects
    given      \* tokens that have been issued

sessionVars == <<stored, perTab, page, form, call, leaving, dead, given>>

Idle    == {"idle", "modal"}
Waiting == {"checking", "posting", "rechecking", "proving"}

SessionTypeOK ==
    /\ stored \in Tokens \cup {NoToken}
    /\ perTab \in [Tabs -> ImpTokens \cup {NoToken}]
    /\ page \in [Tabs -> {"closed", "login", "app"}]
    /\ form \in [Tabs -> Idle \cup Waiting]
    /\ call \in [Tabs -> [token : Tokens \cup ImpTokens \cup {NoToken},
                          kind : {"none", "any", "password"}]]
    /\ leaving \in [Tabs -> {"no", "session", "all"}]
    /\ dead \subseteq given /\ given \subseteq Tokens \cup ImpTokens

NoCall == [token |-> NoToken, kind |-> "none"]

SessionInit ==
    /\ stored = NoToken
    /\ perTab = [t \in Tabs |-> NoToken]
    /\ \E t \in Tabs : page = [u \in Tabs |-> IF u = t THEN "login" ELSE "closed"]
    /\ form = [t \in Tabs |-> "idle"]
    /\ call = [t \in Tabs |-> NoCall]
    /\ leaving = [t \in Tabs |-> "no"]
    /\ dead = {} /\ given = {}

\* getToken: the tab's own token wins over the shared one
TokenOf(t) == IF perTab[t] # NoToken THEN perTab[t] ELSE stored

\* every 401 alike
KicksOnAny401(c) == c.token = NoToken \/ c.token \in dead \/ c.kind = "password"

\* the answer makes apiFetch sign out: a rejected token, but not a wrong
\* current password, which is a 401 too
Kicks(c) == c.token = NoToken \/ c.token \in dead

\* forceLogout: both layers are cleared and the tab is sent to /login,
\* which ends whatever else it was waiting for
ForceLogout(t) ==
    /\ stored' = NoToken
    /\ perTab' = [perTab EXCEPT ![t] = NoToken]
    /\ page' = [page EXCEPT ![t] = "login"]
    /\ call' = [call EXCEPT ![t] = NoCall]
    /\ leaving' = [leaving EXCEPT ![t] = "no"]

-----------------------------------------------------------------------------
(* The sign-in page *)

OpenTab(t) ==
    /\ page[t] = "closed"
    /\ page' = [page EXCEPT ![t] = IF TokenOf(t) = NoToken THEN "login" ELSE "app"]
    /\ UNCHANGED <<stored, perTab, form, call, leaving, dead, given>>

Submit(t) ==
    /\ page[t] = "login" /\ form[t] = "idle"
    /\ form' = [form EXCEPT ![t] = "checking"]
    /\ UNCHANGED <<stored, perTab, page, call, leaving, dead, given>>

\* captcha-check answers: sign in at once, ask for a captcha, or fail
Checked(t) ==
    /\ form[t] = "checking"
    /\ \E f \in {"posting", "modal", "idle"} : form' = [form EXCEPT ![t] = f]
    /\ UNCHANGED <<stored, perTab, page, call, leaving, dead, given>>

\* the login call fails, or the second captcha-check
LoginFails(t) ==
    /\ form[t] \in {"posting", "proving", "rechecking"}
    /\ form' = [form EXCEPT ![t] = "idle"]
    /\ UNCHANGED <<stored, perTab, page, call, leaving, dead, given>>

\* without the captcha
CaptchaRetried(t) ==
    /\ \/ form[t] = "posting" /\ form' = [form EXCEPT ![t] = "rechecking"]
       \/ form[t] = "rechecking" /\ form' = [form EXCEPT ![t] = "posting"]
    /\ UNCHANGED <<stored, perTab, page, call, leaving, dead, given>>

\* CAPTCHA_REQUIRED on the first attempt asks for the site key again and
\* opens the captcha
CaptchaDemanded(t) ==
    /\ \/ form[t] = "posting" /\ form' = [form EXCEPT ![t] = "rechecking"]
       \/ form[t] = "rechecking" /\ form' = [form EXCEPT ![t] = "modal"]
    /\ UNCHANGED <<stored, perTab, page, call, leaving, dead, given>>

\* the captcha was solved, or its dialog closed
CaptchaDone(t) ==
    /\ form[t] = "modal"
    /\ \E f \in {"proving", "idle"} : form' = [form EXCEPT ![t] = f]
    /\ UNCHANGED <<stored, perTab, page, call, leaving, dead, given>>

\* setSession writes the shared layer
LoginSucceeds(t) ==
    /\ form[t] \in {"posting", "proving"}
    /\ \E k \in Tokens \ given : stored' = k /\ given' = given \cup {k}
    /\ form' = [form EXCEPT ![t] = "idle"]
    /\ page' = [page EXCEPT ![t] = "app"]
    /\ UNCHANGED <<perTab, call, leaving, dead>>

\* an admin opens /login#impersonate=... in a new tab
Impersonate(t, u) ==
    /\ page[t] = "app" /\ perTab[t] = NoToken /\ stored \notin dead \cup {NoToken}
    /\ page[u] = "closed"
    /\ \E k \in ImpTokens \ given : perTab' = [perTab EXCEPT ![u] = k] /\ given' = given \cup {k}
    /\ page' = [page EXCEPT ![u] = "app"]
    /\ UNCHANGED <<stored, form, call, leaving, dead>>

-----------------------------------------------------------------------------
(* Requests and sign-out *)

\* any request of the app, or a change of password
Request(t) ==
    /\ page[t] = "app" /\ call[t] = NoCall /\ leaving[t] = "no"
    /\ \E k \in {"any", "password"} :
         call' = [call EXCEPT ![t] = [token |-> TokenOf(t), kind |-> k]]
    /\ UNCHANGED <<stored, perTab, page, form, leaving, dead, given>>

Answer(t) ==
    /\ call[t] # NoCall
    /\ IF Kicks(call[t])
       THEN ForceLogout(t)
       ELSE call' = [call EXCEPT ![t] = NoCall] /\ UNCHANGED <<stored, perTab, page, leaving>>
    /\ UNCHANGED <<form, dead, given>>

\* logout that clears every layer of every session
LeaveAll(t) ==
    /\ page[t] = "app" /\ leaving[t] = "no" /\ TokenOf(t) # NoToken
    /\ leaving' = [leaving EXCEPT ![t] = "all"]
    /\ UNCHANGED <<stored, perTab, page, form, call, dead, given>>

\* logout reads the kind of session before it calls the server ...
Leave(t) ==
    /\ page[t] = "app" /\ leaving[t] = "no" /\ TokenOf(t) # NoToken
    /\ leaving' = [leaving EXCEPT ![t] = IF perTab[t] # NoToken THEN "session" ELSE "all"]
    /\ UNCHANGED <<stored, perTab, page, form, call, dead, given>>

\* ... and clears that layer afterwards.  A rejected token goes through the
\* interceptor like any other.  The page is left without a reload, so an
\* answer may still come.
Left(t) ==
    /\ leaving[t] # "no"
    /\ IF TokenOf(t) \in dead
       THEN ForceLogout(t)
       ELSE /\ perTab' = [perTab EXCEPT ![t] = NoToken]
            /\ stored' = IF leaving[t] = "all" THEN NoToken ELSE stored
            /\ leaving' = [leaving EXCEPT ![t] = "no"]
            /\ page' = [page EXCEPT ![t] = "login"]
            /\ UNCHANGED call
    /\ UNCHANGED <<form, dead, given>>

\* the token expires, the account is disabled or blocked
Reject(k) ==
    /\ k \in given \ dead
    /\ dead' = dead \cup {k}
    /\ UNCHANGED <<stored, perTab, page, form, call, leaving, given>>

SessionNext ==
    \/ \E k \in Tokens \cup ImpTokens : Reject(k)
    \/ \E t \in Tabs :
        \/ OpenTab(t) \/ Submit(t) \/ Checked(t) \/ LoginFails(t) \/ CaptchaDemanded(t)
        \/ CaptchaDone(t) \/ LoginSucceeds(t) \/ Request(t) \/ Answer(t) \/ Leave(t) \/ Left(t)
        \/ \E u \in Tabs \ {t} : Impersonate(t, u)

\* requests are answered, one way or the other
SessionFairness ==
    \A t \in Tabs : WF_sessionVars(Checked(t) \/ LoginFails(t) \/ CaptchaDemanded(t) \/ LoginSucceeds(t))

SessionSpec == SessionInit /\ [][SessionNext]_sessionVars /\ SessionFairness

-----------------------------------------------------------------------------
\* Leaving an impersonation ends it in that tab only: the shared session of
\* the admin outlives it, unless the server has rejected a token.
ExitKeepsAdmin ==
    [][perTab' # perTab =>
        \A t \in Tabs : perTab[t] # NoToken /\ perTab'[t] = NoToken /\ stored # NoToken
         => stored' = stored \/ perTab[t] \in dead]_sessionVars

\* A shared session ends only because somebody left or a token was
\* rejected; a wrong current password, though a 401, signs nobody out.
EndsForCause ==
    [][stored # NoToken /\ stored' = NoToken =>
         \E t \in Tabs : \/ leaving[t] # "no"
                         \/ call[t].kind # "none" /\ (call[t].token = NoToken \/ call[t].token \in dead)]_sessionVars

\* The sign-in form never stays busy.
FormSettles == \A t \in Tabs : form[t] \in Waiting ~> form[t] \in Idle

\* What the interceptor is told: a token that was just issued is not lost
\* to the answer to an older one.
OnlyItsOwnToken ==
    [][stored # NoToken /\ stored' = NoToken =>
         \E t \in Tabs : leaving[t] # "no" \/ call[t].token \in {NoToken, stored, perTab[t]}]_sessionVars
=============================================================================
