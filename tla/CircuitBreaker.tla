--------------------------- MODULE CircuitBreaker ---------------------------
(***************************************************************************)
(* The circuit breaker of one provider: the mirror in memory, the columns  *)
(* of providers, and those who read and write them.  ProviderSelector      *)
(* filters on the row it has loaded, JobExecutor reports the outcome of a  *)
(* call to the mirror, ProviderLedger.topup writes the row only.           *)
(*                                                                         *)
(* An operation holds the provider's asyncio.Lock: it changes the mirror,  *)
(* and persists the new state one await later.  Cooldowns are running or   *)
(* elapsed, and the balance is below or above balance_min_threshold; the   *)
(* length of a cooldown is abstracted.  Nothing calls acquire_probe and    *)
(* admin_disable, so half_open and disabled are never entered.             *)
(***************************************************************************)
EXTENDS Naturals

CONSTANTS
    Workers,      \* jobs that select the provider and call it
    Threshold,    \* failure_threshold
    AdminOps,     \* what admins do: "reset" "topup"
    MaxRestarts,  \* bound: process restarts explored
    DbMayFail     \* whether persisting may raise ("database is locked")

ASSUME ThresholdAssumption == Threshold \in Nat \ {0}
ASSUME BoundAssumption == MaxRestarts \in Nat /\ DbMayFail \in BOOLEAN
ASSUME AdminAssumption == AdminOps \subseteq {"reset", "topup"}

VARIABLES
    row,       \* providers.circuit_state
    funded,    \* providers.balance_cny is at least balance_min_threshold
    mirror,    \* _BreakerState.state, or "unloaded"
    failures,  \* _BreakerState.consecutive_failures
    cooling,   \* the cooldown of the mirror has not elapsed
    writing,   \* the operation that holds the lock, in _persist_state
    pc,        \* where each worker is
    seen,      \* the provider as the worker's selector loaded it
    streak,    \* history: failures reported, while the row was not open,
               \* since the breaker healed it, a success or a restart
    missed,    \* history: the last write of the row raised
    restarts

vars == <<row, funded, mirror, failures, cooling, writing, pc, seen, streak,
          missed, restarts>>

States == {"healthy", "open", "drained"}
Free   == [to |-> "nothing"]

TypeOK ==
    /\ row \in States
    /\ funded \in BOOLEAN
    /\ mirror \in States \cup {"unloaded"}
    /\ failures \in 0 .. Threshold - 1
    /\ cooling \in BOOLEAN
    /\ writing \in {Free} \cup [to : States, by : Workers \cup {"admin"},
                                next : {"idle", "call"}]
    /\ pc \in [Workers -> {"idle", "loaded", "call", "persist"}]
    /\ seen \in [Workers -> [state : States, funded : BOOLEAN]]
    /\ streak \in 0 .. Threshold
    /\ missed \in BOOLEAN
    /\ restarts \in 0 .. MaxRestarts

Init ==
    /\ row = "healthy" /\ funded = TRUE
    /\ mirror = "unloaded" /\ failures = 0 /\ cooling = FALSE
    /\ writing = Free
    /\ pc = [w \in Workers |-> "idle"]
    /\ seen = [w \in Workers |-> [state |-> "healthy", funded |-> TRUE]]
    /\ streak = 0 /\ missed = FALSE
    /\ restarts = 0

-----------------------------------------------------------------------------
(* The lock, the mirror and the row                                         *)

Locked == writing # Free

\* _load_state: the first operation after a start reads the row.
Loaded == IF mirror = "unloaded" THEN row ELSE mirror

\* The operation ends without a write.
Keep == mirror' = Loaded /\ UNCHANGED <<failures, cooling, writing>>

\* The operation moves the mirror and suspends in _persist_state.
Enter(to, by, next) ==
    /\ mirror' = to
    /\ failures' = 0
    /\ cooling' = (to = "open")
    /\ writing' = [to |-> to, by |-> by, next |-> next]

Release ==
    /\ writing' = Free
    /\ pc' = [w \in Workers |-> IF w = writing.by THEN writing.next ELSE pc[w]]

Persist ==
    /\ Locked
    /\ row' = writing.to
    /\ streak' = IF writing.to = "healthy" THEN 0 ELSE streak
    /\ Release
    /\ missed' = FALSE
    /\ UNCHANGED <<funded, mirror, failures, cooling, seen, restarts>>

\* The exception leaves the operation; the mirror has changed already.
PersistRaises ==
    /\ Locked /\ DbMayFail
    /\ writing' = Free
    /\ pc' = [w \in Workers |-> IF w = writing.by THEN "idle" ELSE pc[w]]
    /\ missed' = TRUE
    /\ UNCHANGED <<row, funded, mirror, failures, cooling, seen, streak, restarts>>

CooldownElapses ==
    /\ cooling
    /\ cooling' = FALSE
    /\ UNCHANGED <<row, funded, mirror, failures, writing, pc, seen, streak,
                   missed, restarts>>

-----------------------------------------------------------------------------
(* ProviderSelector: one query loads the rows, the filter walks them later  *)

SelectLoad(w) ==
    /\ pc[w] = "idle"
    /\ pc' = [pc EXCEPT ![w] = "loaded"]
    /\ seen' = [seen EXCEPT ![w] = [state |-> row, funded |-> funded]]
    /\ UNCHANGED <<row, funded, mirror, failures, cooling, writing, streak,
                   missed, restarts>>

Goto(w, to) == pc' = [pc EXCEPT ![w] = to]

\* Balance too low: the provider is dropped, and drained if it is healthy.
mark_drained(w) ==
    /\ ~seen[w].funded /\ ~Locked
    /\ \/ /\ Loaded = "healthy"
          /\ Enter("drained", w, "idle")
          /\ Goto(w, "persist")
       \/ /\ Loaded # "healthy"
          /\ Keep /\ Goto(w, "idle")

\* Mutant of try_auto_recover: the comparison with the clock is reversed.
RecoverWhileCooling(w) ==
    /\ seen[w].funded /\ seen[w].state = "open" /\ ~Locked
    /\ IF Loaded = "open" /\ cooling
       THEN Enter("healthy", w, "call") /\ Goto(w, "persist")
       ELSE Keep /\ Goto(w, "idle")

\* Called for a row that was open: healthy again once the cooldown is over
try_auto_recover(w) ==
    /\ seen[w].funded /\ seen[w].state = "open" /\ ~Locked
    /\ \/ /\ Loaded = "open" /\ ~cooling
          /\ Enter("healthy", w, "call")
          /\ Goto(w, "persist")
       \/ /\ ~(Loaded = "open" /\ ~cooling)
          /\ Keep
          /\ Goto(w, IF Loaded = "healthy" THEN "call" ELSE "idle")

\* No await: a healthy row is a candidate, a drained one is dropped.
FilterOnRow(w) ==
    /\ seen[w].funded /\ seen[w].state # "open"
    /\ Goto(w, IF seen[w].state = "healthy" THEN "call" ELSE "idle")
    /\ UNCHANGED <<mirror, failures, cooling, writing>>

Filter(w) ==
    /\ pc[w] = "loaded"
    /\ mark_drained(w) \/ try_auto_recover(w) \/ FilterOnRow(w)
    /\ UNCHANGED <<row, funded, seen, streak, missed, restarts>>

-----------------------------------------------------------------------------
(* JobExecutor._call_adapter                                                *)

\* Mutant of Succeed: the failure counter is not reset.
SucceedUncounted(w) ==
    /\ pc[w] = "call" /\ ~Locked
    /\ Goto(w, "idle")
    /\ mirror' = Loaded
    /\ streak' = 0
    /\ funded' \in {funded, FALSE}
    /\ UNCHANGED <<row, failures, cooling, writing, seen, missed, restarts>>

\* observe(success=True); the job's debit may empty the balance.
Succeed(w) ==
    /\ pc[w] = "call" /\ ~Locked
    /\ Goto(w, "idle")
    /\ mirror' = Loaded
    /\ failures' = IF Loaded = "healthy" THEN 0 ELSE failures
    /\ streak' = 0
    /\ funded' \in {funded, FALSE}
    /\ UNCHANGED <<row, cooling, writing, seen, missed, restarts>>

\* Mutant of Fails: > for >=
FailsOnceMore(w) ==
    /\ pc[w] = "call" /\ ~Locked
    /\ IF Loaded = "healthy" /\ failures >= Threshold
       THEN Enter("open", w, "idle") /\ Goto(w, "persist")
       ELSE /\ mirror' = Loaded
            /\ failures' = IF Loaded = "healthy" THEN failures + 1 ELSE failures
            /\ Goto(w, "idle")
            /\ UNCHANGED <<cooling, writing>>
    /\ streak' = IF row # "open" /\ streak < Threshold
                 THEN streak + 1 ELSE streak
    /\ UNCHANGED <<row, funded, seen, missed, restarts>>

\* observe(success=False): only a healthy mirror counts.
Fails(w) ==
    /\ pc[w] = "call" /\ ~Locked
    /\ \/ /\ Loaded = "healthy" /\ failures + 1 >= Threshold
          /\ Enter("open", w, "idle")
          /\ Goto(w, "persist")
       \/ /\ Loaded = "healthy" /\ failures + 1 < Threshold
          /\ mirror' = Loaded /\ failures' = failures + 1
          /\ Goto(w, "idle")
          /\ UNCHANGED <<cooling, writing>>
       \/ /\ Loaded # "healthy"
          /\ Keep /\ Goto(w, "idle")
    /\ streak' = IF row # "open" /\ streak < Threshold
                 THEN streak + 1 ELSE streak
    /\ UNCHANGED <<row, funded, seen, missed, restarts>>

-----------------------------------------------------------------------------
(* Admins and restarts                                                      *)

\* Mutant of reset_to_healthy: the mirror alone is reset.
ResetUnpersisted ==
    /\ "reset" \in AdminOps /\ ~Locked
    /\ mirror' = "healthy" /\ failures' = 0 /\ cooling' = FALSE
    /\ UNCHANGED <<row, funded, writing, pc, seen, streak, missed, restarts>>

reset_to_healthy ==
    /\ "reset" \in AdminOps /\ ~Locked
    /\ Enter("healthy", "admin", "idle")
    /\ UNCHANGED <<row, funded, pc, seen, streak, missed, restarts>>

\* ProviderLedger.topup: one UPDATE, of the row alone, whatever balance it leads to
topup ==
    /\ "topup" \in AdminOps
    /\ funded' \in {funded, TRUE}
    /\ row' = IF row = "drained" THEN "healthy" ELSE row
    /\ UNCHANGED <<mirror, failures, cooling, writing, pc, seen, streak,
                   missed, restarts>>

\* The cooldown of a row that says open may have elapsed meanwhile.
Restart ==
    /\ restarts < MaxRestarts
    /\ restarts' = restarts + 1
    /\ mirror' = "unloaded" /\ failures' = 0
    /\ cooling' \in (IF row = "open" THEN BOOLEAN ELSE {FALSE})
    /\ writing' = Free
    /\ pc' = [w \in Workers |-> "idle"]
    /\ streak' = 0 /\ missed' = FALSE
    /\ UNCHANGED <<row, funded, seen>>

-----------------------------------------------------------------------------
Next ==
    \/ \E w \in Workers : SelectLoad(w) \/ Filter(w) \/ Succeed(w) \/ Fails(w)
    \/ Persist \/ PersistRaises \/ CooldownElapses
    \/ reset_to_healthy \/ topup \/ Restart

Spec == Init /\ [][Next]_vars

(***************************************************************************)
(* Jobs keep selecting the provider, their calls end (adapters time out),  *)
(* time passes, and the lock is handed over in FIFO order.                 *)
(***************************************************************************)
FairSpec ==
    /\ Spec
    /\ \A w \in Workers :
          /\ WF_vars(SelectLoad(w))
          /\ SF_vars(Filter(w))
          /\ SF_vars(Succeed(w) \/ Fails(w))
    /\ WF_vars(Persist) /\ WF_vars(CooldownElapses)

-----------------------------------------------------------------------------
(* Properties                                                               *)

(* The selector trusts the row because the breaker persists each of its     *)
(* transitions: with the lock free and the last write done, row and mirror  *)
(* agree, except after a topup, which promotes the row of a provider that   *)
(* the mirror has drained.                                                  *)
RowFollowsMirror ==
    mirror # "unloaded" /\ ~Locked /\ ~missed =>
        row = mirror \/ (mirror = "drained" /\ row = "healthy")

(* "It persists on every transition": the same, writes that raise included. *)
RowAlwaysFollowsMirror ==
    mirror # "unloaded" /\ ~Locked =>
        row = mirror \/ (mirror = "drained" /\ row = "healthy")

(* A provider that is offered as healthy has not just failed Threshold      *)
(* times in a row: late answers, resets and recoveries hide no failure.     *)
FailingProviderTrips == ~Locked /\ row = "healthy" => streak < Threshold

(* The same where it can hold: while the mirror also says healthy, and the  *)
(* last write of the row was done.                                          *)
MirrorTrips == mirror = "healthy" /\ ~missed => FailingProviderTrips

(* A provider is opened only after Threshold failures in a row, also when   *)
(* some transitions could not be persisted.                                 *)
OpensOnlyOnStreak ==
    [][row # "open" /\ row' = "open" => streak >= Threshold]_vars

(* An open provider that has money gets another chance without an admin,    *)
(* unless a write of its row raises.                                        *)
OpenRecovers == row = "open" ~> row # "open" \/ ~funded \/ missed

(* "Once the wallet has money it's a healthy provider again": a provider    *)
(* with money is not left drained.                                          *)
DrainedHasNoMoney == ~Locked /\ row = "drained" => ~funded

=============================================================================
