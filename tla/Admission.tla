----------------------------- MODULE Admission -----------------------------
(***************************************************************************)
(* The gates of POST /api/jobs and the daily counter behind them: the      *)
(* client_request_id look-up, AccessPolicy.evaluate, QuotaGuard and the    *)
(* insert, each in a transaction of its own, while days pass, jobs end,    *)
(* refunds are made and the sweep resets users.                            *)
(*                                                                         *)
(* A transaction that writes takes the write lock with its first UPDATE,   *)
(* so it is one step.  The Beijing date it compares with was read before,  *)
(* when the coroutine called the guard: date[r].                           *)
(***************************************************************************)
EXTENDS Integers, FiniteSets

CONSTANTS
    Users,
    Requests, UserOf,    \* create calls; a value stands for one at a time
    Keys, Key, NoKey,    \* the client_request_id of a call, or NoKey
    Settlers,            \* callers that end a job and may refund it
    Nobody,              \* no user
    Sweeper,             \* run_quota_reset_loop
    HardQuota,
    Capacity,            \* max_concurrency + max_queue
    MaxVaried,           \* bound: jobs per user that passed no gate
    MaxDay               \* bound: days explored

Guards == Requests \cup Settlers \cup {Sweeper}

ASSUME RequestsAssumption ==
    /\ IsFiniteSet(Requests)
    /\ UserOf \in [Requests -> Users] /\ Nobody \notin Users
    /\ Key \in [Requests -> Keys \cup {NoKey}] /\ NoKey \notin Keys
ASSUME CallersAssumption ==
    Requests \cap Settlers = {} /\ Sweeper \notin Requests \cup Settlers
ASSUME QuotaAssumption ==
    /\ HardQuota \in Nat \ {0}
    /\ Capacity \in Nat \ {0} /\ MaxVaried \in Nat /\ MaxDay \in Nat

VARIABLES
    day,       \* beijing_today()
    count,     \* users.today_count
    resetDay,  \* users.today_reset_date
    admitted,  \* QUEUED and RUNNING rows of create_job, per user
    varied,    \* those of vary and of the admin's requeue
    copies,    \* rows with this client_request_id in the look-up's window
    date,      \* the date a caller of the guard has read
    pc,        \* where each create call is
    refund,    \* the user whose job a settler is refunding, if any
    sweep,     \* where the loop is: asleep, or waiting to update
    used       \* history: charges made today, up to a ceiling

vars == <<day, count, resetDay, admitted, varied, copies, date, pc, refund,
          sweep, used>>

Ceiling == HardQuota + Cardinality(Requests)

Pcs == {"idle", "hard", "busy", "soft", "check", "record", "insert", "refund"}

TypeOK ==
    /\ day \in 0 .. MaxDay
    /\ count \in [Users -> Nat]
    /\ resetDay \in [Users -> 0 .. MaxDay]
    /\ admitted \in [Users -> Nat]
    /\ varied \in [Users -> 0 .. MaxVaried]
    /\ copies \in [Keys -> Nat]
    /\ date \in [Guards -> 0 .. MaxDay]
    /\ pc \in [Requests -> Pcs]
    /\ refund \in [Settlers -> Users \cup {Nobody}]
    /\ sweep \in {"asleep", "awake"}
    /\ used \in [Users -> 0 .. Ceiling]

Init ==
    /\ day = 0
    /\ count = [u \in Users |-> 0] /\ resetDay = [u \in Users |-> 0]
    /\ admitted = [u \in Users |-> 0] /\ varied = [u \in Users |-> 0]
    /\ copies = [k \in Keys |-> 0]
    /\ date = [g \in Guards |-> 0]
    /\ pc = [r \in Requests |-> "idle"]
    /\ refund = [s \in Settlers |-> Nobody]
    /\ sweep = "asleep"
    /\ used = [u \in Users |-> 0]

-----------------------------------------------------------------------------
(* QuotaGuard                                                               *)

\* Mutant of Current: the date moves, the counter stays.
CurrentUncleared(g, u) == count[u]

\* _lazy_reset_user, with the date that caller g has read: what it leaves in
\* today_count; the date it leaves is date[g] in either case.
Current(g, u) == IF resetDay[u] = date[g] THEN count[u] ELSE 0

\* Write today_count after the lazy reset.
Store(g, u, n) ==
    /\ count' = [count EXCEPT ![u] = n]
    /\ resetDay' = [resetDay EXCEPT ![u] = date[g]]

\* The coroutine calls the guard: it reads the date, then waits for the lock.
CallGuard(g) == date' = [date EXCEPT ![g] = day]

\* refund_usage's CASE expression
Decremented(n) == IF n > 0 THEN n - 1 ELSE 0

Goto(r, from, to) == pc[r] = from /\ pc' = [pc EXCEPT ![r] = to]

-----------------------------------------------------------------------------
(* POST /api/jobs                                                           *)

\* The duplicate look-up; a hit answers with the job it finds.
LookUp(r) ==
    /\ Key[r] # NoKey => copies[Key[r]] = 0
    /\ Goto(r, "idle", "hard")
    /\ CallGuard(r)
    /\ UNCHANGED <<day, count, resetDay, admitted, varied, copies, refund,
                   sweep, used>>

\* Mutant of CheckHard: > for >=
CheckHardPlusOne(r) ==
    /\ \/ Current(r, UserOf[r]) > HardQuota /\ Goto(r, "hard", "idle")
       \/ Current(r, UserOf[r]) <= HardQuota /\ Goto(r, "hard", "busy")
    /\ Store(r, UserOf[r], Current(r, UserOf[r]))
    /\ UNCHANGED <<day, admitted, varied, copies, date, refund, sweep, used>>

\* check_hard_quota_exceeded
CheckHard(r) ==
    /\ \/ Current(r, UserOf[r]) >= HardQuota /\ Goto(r, "hard", "idle")
       \/ Current(r, UserOf[r]) < HardQuota /\ Goto(r, "hard", "busy")
    /\ Store(r, UserOf[r], Current(r, UserOf[r]))
    /\ UNCHANGED <<day, admitted, varied, copies, date, refund, sweep, used>>

Active(u) == admitted[u] + varied[u]

\* Mutant of CheckBusy: > for >=
CheckBusyPlusOne(r) ==
    /\ \/ Active(UserOf[r]) > Capacity /\ Goto(r, "busy", "idle")
       \/ Active(UserOf[r]) <= Capacity /\ Goto(r, "busy", "soft")
    /\ CallGuard(r)
    /\ UNCHANGED <<day, count, resetDay, admitted, varied, copies, refund,
                   sweep, used>>

\* count_active_by_user against the capacity
CheckBusy(r) ==
    /\ \/ Active(UserOf[r]) >= Capacity /\ Goto(r, "busy", "idle")
       \/ Active(UserOf[r]) < Capacity /\ Goto(r, "busy", "soft")
    /\ CallGuard(r)
    /\ UNCHANGED <<day, count, resetDay, admitted, varied, copies, refund,
                   sweep, used>>

\* check_soft_quota_exceeded: its answer becomes a flag of the job, which no
\* gate here reads.
CheckSoft(r) ==
    /\ Goto(r, "soft", "check")
    /\ Store(r, UserOf[r], Current(r, UserOf[r]))
    /\ UNCHANGED <<day, admitted, varied, copies, date, refund, sweep, used>>

\* The parameters and the captcha
Validate(r) ==
    /\ \/ Goto(r, "check", "record") /\ CallGuard(r)
       \/ Goto(r, "check", "idle") /\ UNCHANGED date
    /\ UNCHANGED <<day, count, resetDay, admitted, varied, copies, refund,
                   sweep, used>>

\* record_usage
Record(r) ==
    LET u == UserOf[r] IN
    /\ Goto(r, "record", "insert")
    /\ Store(r, u, Current(r, u) + 1)
    /\ used' = [used EXCEPT ![u] = IF @ < Ceiling THEN @ + 1 ELSE @]
    /\ UNCHANGED <<day, admitted, varied, copies, date, refund, sweep>>

\* The row and, with it, the client_request_id
Insert(r) ==
    /\ Goto(r, "insert", "idle")
    /\ admitted' = [admitted EXCEPT ![UserOf[r]] = @ + 1]
    /\ copies' = IF Key[r] = NoKey THEN copies
                 ELSE [copies EXCEPT ![Key[r]] = @ + 1]
    /\ UNCHANGED <<day, count, resetDay, varied, date, refund, sweep, used>>

\* The batch or session check refuses the job and the charge stays, or the
\* user has vanished and the charge is refunded.
InsertFails(r) ==
    /\ \/ Goto(r, "insert", "idle") /\ UNCHANGED date
       \/ Goto(r, "insert", "refund") /\ CallGuard(r)
    /\ UNCHANGED <<day, count, resetDay, admitted, varied, copies, refund,
                   sweep, used>>

RefundRequest(r) ==
    /\ Goto(r, "refund", "idle")
    /\ Store(r, UserOf[r], Decremented(Current(r, UserOf[r])))
    /\ UNCHANGED <<day, admitted, varied, copies, date, refund, sweep, used>>

-----------------------------------------------------------------------------
(* Other jobs, their end, time                                              *)

\* POST /api/jobs/vary and the admin's requeue pass no gate.
Vary(u) ==
    /\ varied[u] < MaxVaried
    /\ varied' = [varied EXCEPT ![u] = @ + 1]
    /\ UNCHANGED <<day, count, resetDay, admitted, copies, date, pc, refund,
                   sweep, used>>

\* A job of u settles; some callers refund it in a later transaction.
Settle(s, u) ==
    /\ refund[s] = Nobody
    /\ \/ /\ admitted[u] > 0 /\ admitted' = [admitted EXCEPT ![u] = @ - 1]
          /\ UNCHANGED varied
       \/ /\ varied[u] > 0 /\ varied' = [varied EXCEPT ![u] = @ - 1]
          /\ UNCHANGED admitted
    /\ \/ refund' = [refund EXCEPT ![s] = u] /\ CallGuard(s)
       \/ UNCHANGED <<refund, date>>
    /\ UNCHANGED <<day, count, resetDay, copies, pc, sweep, used>>

\* refund_usage
Refund(s) ==
    LET u == refund[s] IN
    /\ u # Nobody
    /\ Store(s, u, Decremented(Current(s, u)))
    /\ refund' = [refund EXCEPT ![s] = Nobody]
    /\ UNCHANGED <<day, admitted, varied, copies, date, pc, sweep, used>>

\* reset_stale_users: the loop reads the date, then updates every stale row.
SweepBegin ==
    /\ sweep = "asleep" /\ sweep' = "awake"
    /\ CallGuard(Sweeper)
    /\ UNCHANGED <<day, count, resetDay, admitted, varied, copies, pc, refund,
                   used>>

\* Mutant of Sweep: users who made no job are passed over.
SweepCounted ==
    /\ sweep = "awake" /\ sweep' = "asleep"
    /\ count' = [u \in Users |-> Current(Sweeper, u)]
    /\ resetDay' = [u \in Users |->
                       IF count[u] > 0 THEN date[Sweeper] ELSE resetDay[u]]
    /\ UNCHANGED <<day, admitted, varied, copies, date, pc, refund, used>>

Sweep ==
    /\ sweep = "awake" /\ sweep' = "asleep"
    /\ count' = [u \in Users |-> Current(Sweeper, u)]
    /\ resetDay' = [u \in Users |-> date[Sweeper]]
    /\ UNCHANGED <<day, admitted, varied, copies, date, pc, refund, used>>

\* Five minutes after its last insert the key is not found any more.
KeyExpires(k) ==
    /\ copies[k] > 0
    /\ copies' = [copies EXCEPT ![k] = 0]
    /\ UNCHANGED <<day, count, resetDay, admitted, varied, date, pc, refund,
                   sweep, used>>

Midnight ==
    /\ day < MaxDay
    /\ day' = day + 1
    /\ used' = [u \in Users |-> 0]
    /\ UNCHANGED <<count, resetDay, admitted, varied, copies, date, pc,
                   refund, sweep>>

\* The process restarts: calls in progress are gone, rows stay.
Restart ==
    /\ pc' = [r \in Requests |-> "idle"]
    /\ refund' = [s \in Settlers |-> Nobody]
    /\ sweep' = "asleep"
    /\ UNCHANGED <<day, count, resetDay, admitted, varied, copies, date,
                   used>>

-----------------------------------------------------------------------------
Create(r) ==
    \/ LookUp(r) \/ CheckHard(r) \/ CheckBusy(r) \/ CheckSoft(r) \/ Validate(r)
    \/ Record(r) \/ Insert(r) \/ InsertFails(r) \/ RefundRequest(r)

Next ==
    \/ \E r \in Requests : Create(r)
    \/ \E u \in Users : Vary(u) \/ \E s \in Settlers : Settle(s, u)
    \/ \E s \in Settlers : Refund(s)
    \/ SweepBegin \/ Sweep
    \/ \E k \in Keys : KeyExpires(k)
    \/ Midnight \/ Restart

Spec == Init /\ [][Next]_vars

\* The sweep runs at each start and every minute, and goes on after an error.
\* Not every one of its updates is cut off by a restart.
FairSpec == Spec /\ WF_vars(SweepBegin) /\ SF_vars(Sweep)

-----------------------------------------------------------------------------
(* Properties                                                               *)

Of(u) == {r \in Requests : UserOf[r] = u}

\* Calls of u that passed the hard check, and those that passed the capacity.
PastHard(u) == {r \in Of(u) : pc[r] \in {"busy", "soft", "check", "record"}}
PastBusy(u) == {r \in Of(u) : pc[r] \in {"soft", "check", "record", "insert"}}

\* The hard quota is checked long before the usage is recorded.  It can be
\* exceeded, but only by the user's other calls in flight, on any day and
\* whatever is refunded or reset (access_policy.evaluate, record_usage).
OvershootBounded ==
    \A u \in Users :
        count[u] + Cardinality(PastHard(u)) <= HardQuota - 1 + Cardinality(Of(u))

\* The same for the capacity and the rows inserted (count_active_by_user).
CapacityBounded ==
    \A u \in Users :
        admitted[u] + Cardinality(PastBusy(u)) <= Capacity - 1 + Cardinality(Of(u))

\* No charge of an earlier day counts today, late writers included.
NeverOvercharged ==
    \A u \in Users : resetDay[u] = day => count[u] <= used[u]

\* Once the days stop every row gets today's date and keeps it: writers that
\* took yesterday's date do not hold it back (run_quota_reset_loop).
ResetSettles == \A u \in Users : <>[](resetDay[u] = day)

\* Refuted: "the same user and id within five minutes returns the previous
\* result and enqueues nothing".
OneJobPerRequestId == \A k \in Keys : copies[k] <= 1

\* Refuted: a row that has today's date never goes back to yesterday's, which
\* would clear today's count (_lazy_reset_user).
ResetNeverGoesBack == [][\A u \in Users : resetDay'[u] >= resetDay[u]]_vars

=============================================================================
