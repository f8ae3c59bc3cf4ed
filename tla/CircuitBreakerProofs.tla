------------------------ MODULE CircuitBreakerProofs ------------------------
(* Theorems about CircuitBreaker, for any number of workers, any threshold  *)
(* and any number of restarts, writes that raise included.                  *)
EXTENDS CircuitBreaker, TLAPS

USE ThresholdAssumption, BoundAssumption, AdminAssumption

(* What an operation under the lock leaves for the next one.  The failure   *)
(* counter and the history of failures agree: the counter never runs ahead  *)
(* of a row that is not open, and never falls behind a mirror that reads    *)
(* healthy and was written.                                                 *)
BreakerInv ==
    /\ TypeOK
    /\ Locked => mirror = writing.to /\ failures = 0
    /\ mirror # "healthy" => failures = 0
    /\ mirror = "unloaded" => streak = 0
    /\ row # "open" => failures <= streak
    /\ Locked /\ writing.to = "open" /\ row # "open" => streak >= Threshold
    /\ mirror = "healthy" /\ ~Locked /\ ~missed => streak <= failures
    /\ RowFollowsMirror

LEMMA BreakerInit == Init => BreakerInv
    <1> SUFFICES ASSUME Init PROVE BreakerInv
      OBVIOUS
    <1>1. funded \in BOOLEAN /\ cooling \in BOOLEAN /\ missed \in BOOLEAN
      BY Zenon DEF Init
    <1>2. seen \in [Workers -> [state : States, funded : BOOLEAN]]
      BY DEF Init, States
    <1>3. TypeOK
      BY <1>1, <1>2 DEF Init, TypeOK, States
    <1>4. QED BY <1>3 DEF Init, BreakerInv, RowFollowsMirror, Locked

-----------------------------------------------------------------------------
(* The pieces the actions are built from                                    *)

(* A lock that is held is held by a complete record.                        *)
LEMMA WritingType ==
    ASSUME TypeOK, Locked
    PROVE  /\ writing.to \in States /\ writing.by \in Workers \cup {"admin"}
           /\ writing.next \in {"idle", "call"}
    BY DEF TypeOK, Locked

LEMMA LoadedType ==
    ASSUME TypeOK
    PROVE  Loaded \in States
    BY DEF TypeOK, Loaded

LEMMA EnterHolds ==
    ASSUME TypeOK, NEW to \in States, NEW by \in Workers \cup {"admin"},
           NEW next \in {"idle", "call"}, Enter(to, by, next)
    PROVE  /\ mirror' = to /\ failures' = 0 /\ cooling' \in BOOLEAN
           /\ Locked' /\ writing'.to = to
           /\ writing' \in {Free} \cup [to : States, by : Workers \cup {"admin"},
                                        next : {"idle", "call"}]
    <1>1. writing' = [to |-> to, by |-> by, next |-> next]
      BY DEF Enter
    <1>2. writing'.to # "nothing"
      BY <1>1 DEF States
    <1>3. Locked'
      BY <1>2 DEF Locked, Free
    <1>4. QED BY <1>1, <1>3 DEF Enter

LEMMA GotoType ==
    ASSUME TypeOK, NEW w \in Workers,
           NEW to \in {"idle", "loaded", "call", "persist"}, Goto(w, to)
    PROVE  pc' \in [Workers -> {"idle", "loaded", "call", "persist"}]
    BY DEF TypeOK, Goto

-----------------------------------------------------------------------------
(* Every step keeps the invariant.                                          *)

LEMMA PersistKeeps ==
    ASSUME BreakerInv, Persist \/ PersistRaises
    PROVE  BreakerInv'
    <1>0. TypeOK /\ Locked
      BY DEF BreakerInv, Persist, PersistRaises
    <1>1. writing' = Free /\ ~Locked'
      BY DEF Persist, PersistRaises, Release, Locked
    <1>2. pc' \in [Workers -> {"idle", "loaded", "call", "persist"}]
      BY <1>0, WritingType DEF Persist, PersistRaises, Release, TypeOK
    <1>3. TypeOK'
      <2>1. missed' \in BOOLEAN
        BY Zenon DEF Persist, PersistRaises
      <2>2. row' \in States /\ streak' \in 0 .. Threshold
        BY <1>0, WritingType DEF TypeOK, Persist, PersistRaises
      <2>3. QED
        BY <1>0, <1>1, <1>2, <2>1, <2>2 DEF TypeOK, Persist, PersistRaises
    <1>4. CASE Persist
      <2>1. row' = mirror' /\ missed' = FALSE /\ failures' = 0
        BY <1>0, <1>4 DEF BreakerInv, Persist
      <2>2. mirror' = "healthy" => streak' = 0
        BY <1>0, <1>4 DEF BreakerInv, Persist
      <2>3. mirror' # "unloaded" /\ streak' \in Nat
        BY <1>0, <1>3, <1>4, WritingType DEF BreakerInv, Persist, TypeOK, States
      <2>4. QED
        BY <1>1, <1>3, <2>1, <2>2, <2>3 DEF BreakerInv, RowFollowsMirror
    <1>5. CASE PersistRaises
      BY <1>0, <1>1, <1>3, <1>5 DEF BreakerInv, RowFollowsMirror, PersistRaises
    <1>6. QED BY <1>4, <1>5

(* The operations of workers that find the lock free.                       *)
LEMMA FilterKeeps ==
    ASSUME BreakerInv, NEW w \in Workers, Filter(w)
    PROVE  BreakerInv'
    <1>0. TypeOK /\ Loaded \in States
      BY LoadedType DEF BreakerInv
    <1>1. /\ row' = row /\ funded' = funded /\ seen' = seen /\ streak' = streak
          /\ missed' = missed /\ restarts' = restarts
      BY DEF Filter
    <1>2. pc' \in [Workers -> {"idle", "loaded", "call", "persist"}]
      BY <1>0, GotoType DEF Filter, mark_drained, try_auto_recover, FilterOnRow
    <1>3. CASE \/ ~Locked /\ Loaded = "healthy" /\ Enter("drained", w, "idle")
               \/ ~Locked /\ Loaded = "open" /\ Enter("healthy", w, "call")
      <2>1. PICK to \in {"drained", "healthy"}, next \in {"idle", "call"} :
               Enter(to, w, next)
        BY <1>3
      <2>2. /\ mirror' = to /\ failures' = 0 /\ Locked' /\ writing'.to = to
            /\ cooling' \in BOOLEAN
            /\ writing' \in {Free} \cup [to : States, by : Workers \cup {"admin"},
                                         next : {"idle", "call"}]
        BY <1>0, <2>1, EnterHolds DEF States
      <2>3. TypeOK'
        BY <1>0, <1>1, <1>2, <2>2 DEF TypeOK, States
      <2>4. QED BY <1>1, <2>2, <2>3 DEF BreakerInv, RowFollowsMirror, TypeOK
    <1>4. CASE ~Locked /\ Keep
      <2>1. /\ mirror' = Loaded /\ failures' = failures /\ cooling' = cooling
            /\ writing' = writing /\ ~Locked'
        BY <1>4 DEF Keep, Locked
      <2>2. TypeOK'
        BY <1>0, <1>1, <1>2, <2>1 DEF TypeOK
      <2>3. QED
        BY <1>0, <1>1, <1>4, <2>1, <2>2
        DEF BreakerInv, RowFollowsMirror, Loaded, TypeOK, States
    <1>5. CASE UNCHANGED <<mirror, failures, cooling, writing>>
      <2>1. TypeOK'
        BY <1>0, <1>1, <1>2, <1>5 DEF TypeOK
      <2>2. QED
        BY <1>1, <1>5, <2>1 DEF BreakerInv, RowFollowsMirror, Locked
    <1>6. QED
      BY <1>3, <1>4, <1>5 DEF Filter, mark_drained, try_auto_recover, FilterOnRow

LEMMA SucceedKeeps ==
    ASSUME BreakerInv, NEW w \in Workers, Succeed(w)
    PROVE  BreakerInv'
    <1>0. TypeOK /\ Loaded \in States /\ ~Locked
      BY LoadedType DEF BreakerInv, Succeed
    <1>1. pc' \in [Workers -> {"idle", "loaded", "call", "persist"}]
      BY <1>0, GotoType DEF Succeed
    <1>2. TypeOK'
      <2>1. funded' \in BOOLEAN
        BY <1>0, Zenon DEF TypeOK, Succeed
      <2>2. QED BY <1>0, <1>1, <2>1 DEF TypeOK, Succeed
    <1>3. failures' = 0 /\ streak' = 0 /\ mirror' = Loaded /\ ~Locked'
      BY <1>0 DEF Succeed, BreakerInv, Loaded, Locked, TypeOK, States
    <1>4. row' = row /\ missed' = missed
      BY DEF Succeed
    <1>5. QED
      BY <1>0, <1>2, <1>3, <1>4
      DEF BreakerInv, RowFollowsMirror, Loaded, TypeOK, States

LEMMA FailsKeeps ==
    ASSUME BreakerInv, NEW w \in Workers, Fails(w)
    PROVE  BreakerInv'
    <1>0. TypeOK /\ Loaded \in States /\ ~Locked
      BY LoadedType DEF BreakerInv, Fails
    <1>1. /\ row' = row /\ funded' = funded /\ seen' = seen
          /\ missed' = missed /\ restarts' = restarts
          /\ streak' = IF row # "open" /\ streak < Threshold
                       THEN streak + 1 ELSE streak
      BY DEF Fails
    <1>2. pc' \in [Workers -> {"idle", "loaded", "call", "persist"}]
      BY <1>0, GotoType DEF Fails
    <1>3. streak' \in 0 .. Threshold
      BY <1>0, <1>1 DEF TypeOK
    <1>4. CASE /\ Loaded = "healthy" /\ failures + 1 >= Threshold
               /\ Enter("open", w, "idle")
      <2>1. /\ mirror' = "open" /\ failures' = 0 /\ Locked' /\ writing'.to = "open"
            /\ cooling' \in BOOLEAN
            /\ writing' \in {Free} \cup [to : States, by : Workers \cup {"admin"},
                                         next : {"idle", "call"}]
        BY <1>0, <1>4, EnterHolds DEF States
      <2>2. TypeOK'
        BY <1>0, <1>1, <1>2, <1>3, <2>1 DEF TypeOK, States
      <2>3. row # "open" => streak' >= Threshold
        BY <1>0, <1>1, <1>4 DEF BreakerInv, TypeOK
      <2>4. QED
        BY <1>1, <1>3, <2>1, <2>2, <2>3 DEF BreakerInv, RowFollowsMirror
    <1>5. CASE /\ Loaded = "healthy" /\ failures + 1 < Threshold
               /\ mirror' = Loaded /\ failures' = failures + 1
               /\ UNCHANGED <<cooling, writing>>
      <2>1. TypeOK' /\ ~Locked'
        BY <1>0, <1>1, <1>2, <1>3, <1>5 DEF TypeOK, Locked
      <2>2. row # "open" => failures' <= streak'
        BY <1>0, <1>1, <1>5 DEF BreakerInv, TypeOK
      <2>3. ~missed => streak' <= failures'
        BY <1>0, <1>1, <1>5 DEF BreakerInv, TypeOK, Loaded
      <2>4. QED
        BY <1>0, <1>1, <1>5, <2>1, <2>2, <2>3
        DEF BreakerInv, RowFollowsMirror, Loaded, TypeOK
    <1>6. CASE Loaded # "healthy" /\ Keep
      <2>1. /\ mirror' = Loaded /\ failures' = failures /\ cooling' = cooling
            /\ writing' = writing /\ ~Locked'
        BY <1>0, <1>6 DEF Keep, Locked
      <2>2. TypeOK'
        BY <1>0, <1>1, <1>2, <1>3, <2>1 DEF TypeOK
      <2>3. failures = 0
        BY <1>0, <1>6 DEF BreakerInv, Loaded
      <2>4. mirror' # "unloaded"
        BY <1>0, <2>1 DEF States
      <2>5. QED
        BY <1>0, <1>1, <1>3, <1>6, <2>1, <2>2, <2>3, <2>4
        DEF BreakerInv, RowFollowsMirror, Loaded, TypeOK
    <1>7. QED BY <1>4, <1>5, <1>6 DEF Fails

LEMMA AdminKeeps ==
    ASSUME BreakerInv, reset_to_healthy \/ topup
    PROVE  BreakerInv'
    <1>0. TypeOK
      BY DEF BreakerInv
    <1>1. CASE reset_to_healthy
      <2>1. /\ mirror' = "healthy" /\ failures' = 0 /\ Locked'
            /\ writing'.to = "healthy" /\ cooling' \in BOOLEAN
            /\ writing' \in {Free} \cup [to : States, by : Workers \cup {"admin"},
                                         next : {"idle", "call"}]
        BY <1>0, <1>1, EnterHolds DEF reset_to_healthy, States
      <2>2. TypeOK'
        BY <1>0, <1>1, <2>1 DEF TypeOK, reset_to_healthy, States
      <2>3. QED
        BY <1>0, <1>1, <2>1, <2>2
        DEF BreakerInv, RowFollowsMirror, reset_to_healthy, TypeOK
    <1>2. CASE topup
      BY <1>0, <1>2 DEF BreakerInv, RowFollowsMirror, topup, TypeOK, States, Locked
    <1>3. QED BY <1>1, <1>2

LEMMA BreakerStep == BreakerInv /\ [Next]_vars => BreakerInv'
    <1> SUFFICES ASSUME BreakerInv, [Next]_vars PROVE BreakerInv'
      OBVIOUS
    <1>0. TypeOK
      BY DEF BreakerInv
    <1>1. CASE UNCHANGED vars
      BY <1>1 DEF vars, BreakerInv, TypeOK, RowFollowsMirror, Locked
    <1>2. ASSUME NEW w \in Workers, SelectLoad(w) PROVE BreakerInv'
      BY <1>0, <1>2 DEF SelectLoad, BreakerInv, TypeOK, RowFollowsMirror, Locked
    <1>3. CASE CooldownElapses
      BY <1>0, <1>3 DEF CooldownElapses, BreakerInv, TypeOK, RowFollowsMirror, Locked
    <1>4. CASE Restart
      <2>1. cooling' \in BOOLEAN /\ missed' \in BOOLEAN
        BY <1>4, Zenon DEF Restart
      <2>2. TypeOK'
        BY <1>0, <1>4, <2>1 DEF Restart, TypeOK
      <2>3. QED BY <1>4, <2>2 DEF Restart, BreakerInv, RowFollowsMirror, Locked
    <1>5. QED
      BY <1>1, <1>2, <1>3, <1>4, PersistKeeps, FilterKeeps, SucceedKeeps,
         FailsKeeps, AdminKeeps DEF Next

LEMMA BreakerAlways == Spec => []BreakerInv
    BY BreakerInit, BreakerStep, PTL DEF Spec

-----------------------------------------------------------------------------
(* Every reachable state of the breaker is well-typed.                      *)
THEOREM TypeCorrect == Spec => []TypeOK
    <1>1. BreakerInv => TypeOK
      BY DEF BreakerInv
    <1>2. QED BY <1>1, BreakerAlways, PTL

(* With the lock free and the last write done, the row the selector reads   *)
(* is the state of the mirror, but for a topup.                             *)
THEOREM RowIsMirror == Spec => []RowFollowsMirror
    <1>1. BreakerInv => RowFollowsMirror
      BY DEF BreakerInv
    <1>2. QED BY <1>1, BreakerAlways, PTL

(* No order of late answers, resets, recoveries and restarts lets a         *)
(* provider that failed Threshold times in a row be offered as healthy.     *)
THEOREM FailuresTrip == Spec => []MirrorTrips
    <1>1. BreakerInv => MirrorTrips
      BY DEF BreakerInv, MirrorTrips, FailingProviderTrips, TypeOK
    <1>2. QED BY <1>1, BreakerAlways, PTL

(* A row is opened only by Threshold failures in a row.                     *)
THEOREM OpenedOnStreak == Spec => OpensOnlyOnStreak
    <1>1. BreakerInv /\ [Next]_vars
            => [row # "open" /\ row' = "open" => streak >= Threshold]_vars
      <2> SUFFICES ASSUME BreakerInv, [Next]_vars, row # "open", row' = "open"
                   PROVE  streak >= Threshold
        OBVIOUS
      <2>1. Persist
        BY DEF Next, vars, SelectLoad, Filter, Succeed, Fails, PersistRaises,
               CooldownElapses, reset_to_healthy, topup, Restart
      <2>2. QED BY <2>1 DEF Persist, BreakerInv
    <1>2. QED BY <1>1, BreakerAlways, PTL DEF Spec, OpensOnlyOnStreak

=============================================================================
