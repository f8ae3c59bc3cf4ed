-------------------------- MODULE AdmissionProofs --------------------------
(* Theorems about Admission, for any number of users, calls and days.      *)
EXTENDS Admission, FiniteSetTheorems, TLAPS

USE RequestsAssumption, CallersAssumption, QuotaAssumption

(* What the bounds count is finite, and at most the calls of the user.     *)
LEMMA CallsAreFinite ==
    ASSUME NEW u \in Users, NEW S \in SUBSET Of(u)
    PROVE  /\ IsFiniteSet(S) /\ Cardinality(S) \in Nat
           /\ Cardinality(Of(u)) \in Nat
           /\ Cardinality(S) <= Cardinality(Of(u))
    <1>1. Of(u) \in SUBSET Requests
      BY DEF Of
    <1>2. IsFiniteSet(Of(u))
      BY <1>1, FS_Subset
    <1>3. IsFiniteSet(S) /\ Cardinality(S) <= Cardinality(Of(u))
      BY <1>2, FS_Subset
    <1>4. QED BY <1>2, <1>3, FS_CardinalityType

LEMMA CeilingType == Ceiling \in Nat
    BY FS_CardinalityType DEF Ceiling

(* The guard leaves a counter that is no greater, and zero or as it was.   *)
LEMMA CurrentBound ==
    ASSUME TypeOK, NEW g \in Guards, NEW u \in Users
    PROVE  /\ Current(g, u) \in Nat /\ Current(g, u) <= count[u]
           /\ date[g] \in 0 .. MaxDay
           /\ Decremented(Current(g, u)) \in Nat
           /\ Decremented(Current(g, u)) <= count[u]
    BY DEF TypeOK, Current, Decremented

-----------------------------------------------------------------------------
(* Type correctness                                                         *)

LEMMA CreateType ==
    ASSUME TypeOK, NEW r \in Requests, Create(r)
    PROVE  TypeOK'
    <1> DEFINE u == UserOf[r]
    <1> u \in Users /\ r \in Guards
      BY DEF Guards
    <1>1. ASSUME NEW from, NEW to \in Pcs, Goto(r, from, to)
          PROVE  pc' \in [Requests -> Pcs]
      BY <1>1 DEF Goto, TypeOK
    <1>2. ASSUME NEW n \in Nat, Store(r, u, n)
          PROVE  count' \in [Users -> Nat] /\ resetDay' \in [Users -> 0 .. MaxDay]
      BY <1>2 DEF Store, TypeOK
    <1>3. ASSUME CallGuard(r)
          PROVE  date' \in [Guards -> 0 .. MaxDay]
      BY <1>3 DEF CallGuard, TypeOK
    <1>4. Current(r, u) \in Nat /\ Decremented(Current(r, u)) \in Nat
      BY CurrentBound
    <1>5. CASE LookUp(r)
      BY <1>1, <1>3, <1>5 DEF LookUp, TypeOK, Pcs
    <1>6. CASE CheckHard(r)
      <2>1. pc' \in [Requests -> Pcs]
        BY <1>1, <1>6 DEF CheckHard, Pcs
      <2>2. QED BY <1>2, <1>4, <1>6, <2>1 DEF CheckHard, TypeOK
    <1>7. CASE CheckBusy(r)
      <2>1. pc' \in [Requests -> Pcs]
        BY <1>1, <1>7 DEF CheckBusy, Pcs
      <2>2. QED BY <1>3, <1>7, <2>1 DEF CheckBusy, TypeOK
    <1>8. CASE CheckSoft(r)
      BY <1>1, <1>2, <1>4, <1>8 DEF CheckSoft, TypeOK, Pcs
    <1>9. CASE Validate(r)
      <2>1. pc' \in [Requests -> Pcs]
        BY <1>1, <1>9 DEF Validate, Pcs
      <2>2. date' \in [Guards -> 0 .. MaxDay]
        BY <1>3, <1>9 DEF Validate, TypeOK
      <2>3. QED BY <1>9, <2>1, <2>2 DEF Validate, TypeOK
    <1>10. CASE Record(r)
      <2>1. pc' \in [Requests -> Pcs]
        BY <1>1, <1>10 DEF Record, Pcs
      <2>2. used' \in [Users -> 0 .. Ceiling]
        BY <1>10, CeilingType DEF Record, TypeOK
      <2>3. QED BY <1>2, <1>4, <1>10, <2>1, <2>2 DEF Record, TypeOK
    <1>11. CASE Insert(r)
      <2>1. pc' \in [Requests -> Pcs]
        BY <1>1, <1>11 DEF Insert, Pcs
      <2>2. admitted' \in [Users -> Nat] /\ copies' \in [Keys -> Nat]
        BY <1>11 DEF Insert, TypeOK
      <2>3. QED BY <1>11, <2>1, <2>2 DEF Insert, TypeOK
    <1>12. CASE InsertFails(r)
      <2>1. pc' \in [Requests -> Pcs]
        BY <1>1, <1>12 DEF InsertFails, Pcs
      <2>2. date' \in [Guards -> 0 .. MaxDay]
        BY <1>3, <1>12 DEF InsertFails, TypeOK
      <2>3. QED BY <1>12, <2>1, <2>2 DEF InsertFails, TypeOK
    <1>13. CASE RefundRequest(r)
      BY <1>1, <1>2, <1>4, <1>13 DEF RefundRequest, TypeOK, Pcs
    <1>14. QED
      BY <1>5, <1>6, <1>7, <1>8, <1>9, <1>10, <1>11, <1>12, <1>13 DEF Create

LEMMA StepType == TypeOK /\ [Next]_vars => TypeOK'
    <1> SUFFICES ASSUME TypeOK, [Next]_vars PROVE TypeOK'
      OBVIOUS
    <1>1. ASSUME NEW r \in Requests, Create(r) PROVE TypeOK'
      BY <1>1, CreateType
    <1>2. ASSUME NEW u \in Users, Vary(u) PROVE TypeOK'
      BY <1>2 DEF Vary, TypeOK
    <1>3. ASSUME NEW u \in Users, NEW s \in Settlers, Settle(s, u) PROVE TypeOK'
      <2>1. admitted' \in [Users -> Nat] /\ varied' \in [Users -> 0 .. MaxVaried]
        BY <1>3 DEF Settle, TypeOK
      <2>2. /\ refund' \in [Settlers -> Users \cup {Nobody}]
            /\ date' \in [Guards -> 0 .. MaxDay]
        BY <1>3 DEF Settle, CallGuard, TypeOK
      <2>3. QED BY <1>3, <2>1, <2>2 DEF Settle, TypeOK
    <1>4. ASSUME NEW s \in Settlers, Refund(s) PROVE TypeOK'
      <2>1. s \in Guards /\ refund[s] \in Users
        BY <1>4 DEF Guards, Refund, TypeOK
      <2>2. Decremented(Current(s, refund[s])) \in Nat /\ date[s] \in 0 .. MaxDay
        BY <2>1, CurrentBound
      <2>3. QED BY <1>4, <2>1, <2>2 DEF Refund, Store, TypeOK
    <1>5. ASSUME SweepBegin PROVE TypeOK'
      BY <1>5 DEF SweepBegin, CallGuard, TypeOK
    <1>6. ASSUME Sweep PROVE TypeOK'
      <2>1. Sweeper \in Guards
        BY DEF Guards
      <2>2. \A u \in Users : Current(Sweeper, u) \in Nat
        BY <2>1, CurrentBound
      <2>3. QED BY <1>6, <2>1, <2>2 DEF Sweep, TypeOK
    <1>7. ASSUME NEW k \in Keys, KeyExpires(k) PROVE TypeOK'
      BY <1>7 DEF KeyExpires, TypeOK
    <1>8. ASSUME Midnight PROVE TypeOK'
      BY <1>8, CeilingType DEF Midnight, TypeOK
    <1>9. ASSUME Restart PROVE TypeOK'
      BY <1>9 DEF Restart, TypeOK, Pcs
    <1>10. CASE UNCHANGED vars
      BY <1>10 DEF vars, TypeOK
    <1>11. QED
      BY <1>1, <1>2, <1>3, <1>4, <1>5, <1>6, <1>7, <1>8, <1>9, <1>10 DEF Next

LEMMA InitType == Init => TypeOK
    BY CeilingType DEF Init, TypeOK, Pcs

(* Every reachable state is well-typed; today_count is never negative.     *)
THEOREM TypeCorrect == Spec => []TypeOK
    BY InitType, StepType, PTL DEF Spec

-----------------------------------------------------------------------------
(* The bounds: how a counter and the calls on their way to it may change    *)

(* Neither the counter nor the set of calls grows.                         *)
LEMMA NothingGrows ==
    ASSUME NEW u \in Users, NEW S \in SUBSET Of(u), NEW T \in SUBSET S,
           NEW n \in Nat, NEW m \in Nat, NEW bound \in Int, m <= n,
           n + Cardinality(S) <= bound + Cardinality(Of(u))
    PROVE  m + Cardinality(T) <= bound + Cardinality(Of(u))
    <1>1. IsFiniteSet(S) /\ Cardinality(S) \in Nat /\ Cardinality(Of(u)) \in Nat
      BY CallsAreFinite
    <1>2. Cardinality(T) <= Cardinality(S) /\ Cardinality(T) \in Nat
      BY <1>1, FS_Subset, CallsAreFinite
    <1>3. QED BY <1>1, <1>2

(* One call leaves the set and is counted, as record_usage and the insert do. *)
LEMMA OneIsCounted ==
    ASSUME NEW u \in Users, NEW S \in SUBSET Of(u), NEW T \in SUBSET S,
           NEW r \in S, r \notin T,
           NEW n \in Nat, NEW m \in Nat, NEW bound \in Int, m <= n + 1,
           n + Cardinality(S) <= bound + Cardinality(Of(u))
    PROVE  m + Cardinality(T) <= bound + Cardinality(Of(u))
    <1>1. IsFiniteSet(S) /\ Cardinality(S) \in Nat /\ Cardinality(Of(u)) \in Nat
      BY CallsAreFinite
    <1>2. /\ Cardinality(S \ {r}) = Cardinality(S) - 1
          /\ IsFiniteSet(S \ {r})
      BY <1>1, FS_RemoveElement
    <1>3. T \subseteq S \ {r}
      OBVIOUS
    <1>4. Cardinality(T) <= Cardinality(S \ {r}) /\ Cardinality(T) \in Nat
      BY <1>2, <1>3, FS_Subset, CallsAreFinite
    <1>5. QED BY <1>1, <1>2, <1>4

(* The counter is below its limit: the calls may be any calls of the user. *)
LEMMA BelowTheLimit ==
    ASSUME NEW u \in Users, NEW T \in SUBSET Of(u),
           NEW m \in Nat, NEW bound \in Int, m <= bound
    PROVE  m + Cardinality(T) <= bound + Cardinality(Of(u))
    BY CallsAreFinite

-----------------------------------------------------------------------------
(* The daily counter                                                        *)

(* What a step of one create call does to a user's count and calls.        *)
LEMMA CreateCounts ==
    ASSUME TypeOK, NEW r \in Requests, Create(r), NEW u \in Users
    PROVE  \/ count'[u] <= count[u] /\ PastHard(u)' \subseteq PastHard(u)
           \/ count'[u] <= HardQuota - 1
           \/ /\ count'[u] <= count[u] + 1 /\ PastHard(u)' \subseteq PastHard(u)
              /\ r \in PastHard(u) /\ r \notin PastHard(u)'
    <1> r \in Guards /\ UserOf[r] \in Users
      BY DEF Guards
    <1>1. Current(r, u) \in Nat /\ Current(r, u) <= count[u]
          /\ Decremented(Current(r, u)) <= count[u] /\ count[u] \in Nat
      BY CurrentBound DEF TypeOK
    <1>2. ASSUME NEW from, NEW to, Goto(r, from, to),
                 \/ to \notin {"busy", "soft", "check", "record"}
                 \/ from \in {"busy", "soft", "check", "record"}
          PROVE  PastHard(u)' \subseteq PastHard(u)
      BY <1>2 DEF Goto, PastHard, Of, TypeOK
    <1>3. ASSUME NEW n \in Nat, Store(r, UserOf[r], n)
          PROVE  count'[u] = IF u = UserOf[r] THEN n ELSE count[u]
      BY <1>3 DEF Store, TypeOK
    <1>4. CASE LookUp(r)
      BY <1>1, <1>2, <1>4 DEF LookUp
    <1>5. CASE CheckHard(r)
      <2>1. Current(r, UserOf[r]) \in Nat
        BY CurrentBound
      <2>2. count'[u] = IF u = UserOf[r] THEN Current(r, u) ELSE count[u]
        BY <1>3, <1>5, <2>1 DEF CheckHard
      <2>3. CASE Goto(r, "hard", "idle")
        BY <1>1, <1>2, <2>2, <2>3
      <2>4. CASE Goto(r, "hard", "busy") /\ Current(r, UserOf[r]) < HardQuota
        <3>1. CASE u = UserOf[r]
          BY <1>1, <2>2, <2>4, <3>1
        <3>2. CASE u # UserOf[r]
          BY <1>1, <2>2, <2>4, <3>2 DEF Goto, PastHard, Of, TypeOK
        <3>3. QED BY <3>1, <3>2
      <2>5. QED BY <1>5, <2>3, <2>4 DEF CheckHard
    <1>6. CASE CheckBusy(r)
      <2>1. PastHard(u)' \subseteq PastHard(u)
        BY <1>2, <1>6 DEF CheckBusy
      <2>2. QED BY <1>1, <1>6, <2>1 DEF CheckBusy
    <1>7. CASE CheckSoft(r)
      <2>1. Current(r, UserOf[r]) \in Nat
        BY CurrentBound
      <2>2. PastHard(u)' \subseteq PastHard(u)
        BY <1>2, <1>7 DEF CheckSoft
      <2>3. QED BY <1>1, <1>3, <1>7, <2>1, <2>2 DEF CheckSoft
    <1>8. CASE Validate(r)
      <2>1. PastHard(u)' \subseteq PastHard(u)
        BY <1>2, <1>8 DEF Validate
      <2>2. QED BY <1>1, <1>8, <2>1 DEF Validate
    <1>9. CASE Record(r)
      <2>1. Goto(r, "record", "insert") /\ PastHard(u)' \subseteq PastHard(u)
        BY <1>2, <1>9 DEF Record
      <2>2. Current(r, UserOf[r]) \in Nat
        BY CurrentBound
      <2>3. Store(r, UserOf[r], Current(r, UserOf[r]) + 1)
        BY <1>9 DEF Record
      <2>4. count'[u] = IF u = UserOf[r] THEN Current(r, u) + 1 ELSE count[u]
        BY <1>3, <2>2, <2>3
      <2>5. r \in Of(UserOf[r]) /\ pc[r] = "record" /\ pc'[r] = "insert"
        BY <2>1 DEF Goto, Of, TypeOK
      <2>6. CASE u = UserOf[r]
        <3>1. r \in PastHard(u) /\ r \notin PastHard(u)'
          BY <2>5, <2>6 DEF PastHard
        <3>2. QED BY <1>1, <2>1, <2>4, <2>6, <3>1
      <2>7. CASE u # UserOf[r]
        BY <1>1, <2>1, <2>4, <2>7
      <2>8. QED BY <2>6, <2>7
    <1>10. CASE Insert(r)
      BY <1>1, <1>2, <1>10 DEF Insert
    <1>11. CASE InsertFails(r)
      <2>1. PastHard(u)' \subseteq PastHard(u)
        BY <1>2, <1>11 DEF InsertFails
      <2>2. QED BY <1>1, <1>11, <2>1 DEF InsertFails
    <1>12. CASE RefundRequest(r)
      <2>1. Decremented(Current(r, UserOf[r])) \in Nat
        BY CurrentBound
      <2>2. PastHard(u)' \subseteq PastHard(u)
        BY <1>2, <1>12 DEF RefundRequest
      <2>3. Store(r, UserOf[r], Decremented(Current(r, UserOf[r])))
        BY <1>12 DEF RefundRequest
      <2>4. QED BY <1>1, <1>3, <2>1, <2>2, <2>3
    <1>13. QED
      BY <1>4, <1>5, <1>6, <1>7, <1>8, <1>9, <1>10, <1>11, <1>12 DEF Create

(* No other step raises a count or moves a call forward.                   *)
LEMMA OthersDoNotCount ==
    ASSUME TypeOK, [Next]_vars, ~ \E r \in Requests : Create(r), NEW u \in Users
    PROVE  count'[u] <= count[u] /\ PastHard(u)' \subseteq PastHard(u)
    <1>1. count[u] \in Nat
      BY DEF TypeOK
    <1>2. ASSUME NEW v \in Users, Vary(v)
          PROVE  count' = count /\ pc' = pc
      BY <1>2 DEF Vary
    <1>3. ASSUME NEW v \in Users, NEW s \in Settlers, Settle(s, v)
          PROVE  count' = count /\ pc' = pc
      BY <1>3 DEF Settle
    <1>4. ASSUME NEW s \in Settlers, Refund(s)
          PROVE  count'[u] <= count[u] /\ pc' = pc
      <2>1. s \in Guards /\ refund[s] \in Users
        BY <1>4 DEF Guards, Refund, TypeOK
      <2>2. Decremented(Current(s, refund[s])) <= count[refund[s]]
        BY <2>1, CurrentBound
      <2>3. QED BY <1>1, <1>4, <2>1, <2>2 DEF Refund, Store, TypeOK
    <1>5. ASSUME SweepBegin PROVE count' = count /\ pc' = pc
      BY <1>5 DEF SweepBegin
    <1>6. ASSUME Sweep PROVE count'[u] <= count[u] /\ pc' = pc
      <2>1. Current(Sweeper, u) <= count[u]
        BY CurrentBound DEF Guards
      <2>2. QED BY <1>6, <2>1 DEF Sweep
    <1>7. ASSUME NEW k \in Keys, KeyExpires(k) PROVE count' = count /\ pc' = pc
      BY <1>7 DEF KeyExpires
    <1>8. ASSUME Midnight PROVE count' = count /\ pc' = pc
      BY <1>8 DEF Midnight
    <1>9. ASSUME Restart
          PROVE  count'[u] <= count[u] /\ PastHard(u)' \subseteq PastHard(u)
      BY <1>1, <1>9 DEF Restart, PastHard, Of
    <1>10. CASE UNCHANGED vars
      BY <1>1, <1>10 DEF vars, PastHard, Of
    <1>11. ASSUME pc' = pc PROVE PastHard(u)' \subseteq PastHard(u)
      BY <1>11 DEF PastHard, Of
    <1>12. QED
      BY <1>1, <1>2, <1>3, <1>4, <1>5, <1>6, <1>7, <1>8, <1>9, <1>10, <1>11
      DEF Next

LEMMA OvershootStep ==
    TypeOK /\ OvershootBounded /\ [Next]_vars => OvershootBounded'
    <1> SUFFICES ASSUME TypeOK, OvershootBounded, [Next]_vars, NEW u \in Users
                 PROVE  count'[u] + Cardinality(PastHard(u)')
                            <= HardQuota - 1 + Cardinality(Of(u))
      BY DEF OvershootBounded, Of
    <1>1. count[u] \in Nat /\ count'[u] \in Nat /\ HardQuota - 1 \in Int
      BY StepType DEF TypeOK
    <1>2. PastHard(u) \in SUBSET Of(u) /\ PastHard(u)' \in SUBSET Of(u)
      BY DEF PastHard, Of
    <1>3. count[u] + Cardinality(PastHard(u)) <= HardQuota - 1 + Cardinality(Of(u))
      BY DEF OvershootBounded
    <1>4. CASE count'[u] <= count[u] /\ PastHard(u)' \subseteq PastHard(u)
      BY <1>1, <1>2, <1>3, <1>4, NothingGrows
    <1>5. CASE count'[u] <= HardQuota - 1
      BY <1>1, <1>2, <1>5, BelowTheLimit
    <1>6. ASSUME NEW r \in PastHard(u), r \notin PastHard(u)',
                 count'[u] <= count[u] + 1, PastHard(u)' \subseteq PastHard(u)
          PROVE  count'[u] + Cardinality(PastHard(u)')
                     <= HardQuota - 1 + Cardinality(Of(u))
      BY <1>1, <1>2, <1>3, <1>6, OneIsCounted
    <1>7. QED BY <1>4, <1>5, <1>6, CreateCounts, OthersDoNotCount

LEMMA OvershootInit == Init => OvershootBounded
    <1> SUFFICES ASSUME Init, NEW u \in Users
                 PROVE  count[u] + Cardinality(PastHard(u))
                            <= HardQuota - 1 + Cardinality(Of(u))
      BY DEF OvershootBounded
    <1>1. count[u] = 0 /\ PastHard(u) \in SUBSET Of(u)
      BY DEF Init, PastHard
    <1>2. QED BY <1>1, BelowTheLimit

(* A user's count exceeds the hard quota by at most the calls in flight    *)
(* besides the first, whatever days, refunds, sweeps and restarts do       *)
(* between check_hard_quota_exceeded and record_usage.                     *)
THEOREM QuotaOvershoot == Spec => []OvershootBounded
    <1>1. TypeOK /\ OvershootBounded /\ [Next]_vars => (TypeOK /\ OvershootBounded)'
      BY StepType, OvershootStep
    <1>2. QED BY <1>1, InitType, OvershootInit, PTL DEF Spec

-----------------------------------------------------------------------------
(* The capacity                                                             *)

(* What a step of one create call does to a user's rows and calls.         *)
LEMMA CreateOccupies ==
    ASSUME TypeOK, NEW r \in Requests, Create(r), NEW u \in Users
    PROVE  \/ admitted'[u] <= admitted[u] /\ PastBusy(u)' \subseteq PastBusy(u)
           \/ admitted'[u] <= Capacity - 1
           \/ /\ admitted'[u] <= admitted[u] + 1 /\ PastBusy(u)' \subseteq PastBusy(u)
              /\ r \in PastBusy(u) /\ r \notin PastBusy(u)'
    <1>1. admitted[u] \in Nat /\ varied[u] \in Nat
      BY DEF TypeOK
    <1>2. ASSUME NEW from, NEW to, Goto(r, from, to),
                 \/ to \notin {"soft", "check", "record", "insert"}
                 \/ from \in {"soft", "check", "record", "insert"}
          PROVE  PastBusy(u)' \subseteq PastBusy(u)
      BY <1>2 DEF Goto, PastBusy, Of, TypeOK
    <1>3. CASE LookUp(r)
      BY <1>1, <1>2, <1>3 DEF LookUp
    <1>4. CASE CheckHard(r)
      <2>1. PastBusy(u)' \subseteq PastBusy(u)
        BY <1>2, <1>4 DEF CheckHard
      <2>2. QED BY <1>1, <1>4, <2>1 DEF CheckHard
    <1>5. CASE CheckBusy(r)
      <2>1. CASE Goto(r, "busy", "idle")
        <3>1. PastBusy(u)' \subseteq PastBusy(u)
          BY <1>2, <2>1
        <3>2. QED BY <1>1, <1>5, <3>1 DEF CheckBusy
      <2>2. CASE Goto(r, "busy", "soft") /\ Active(UserOf[r]) < Capacity
        <3>1. CASE u = UserOf[r]
          BY <1>1, <1>5, <2>2, <3>1, QuotaAssumption DEF CheckBusy, Active
        <3>2. CASE u # UserOf[r]
          <4>1. PastBusy(u)' \subseteq PastBusy(u)
            BY <2>2, <3>2 DEF Goto, PastBusy, Of, TypeOK
          <4>2. QED BY <1>1, <1>5, <4>1 DEF CheckBusy
        <3>3. QED BY <3>1, <3>2
      <2>3. QED BY <1>5, <2>1, <2>2 DEF CheckBusy
    <1>6. CASE CheckSoft(r)
      <2>1. PastBusy(u)' \subseteq PastBusy(u)
        BY <1>2, <1>6 DEF CheckSoft
      <2>2. QED BY <1>1, <1>6, <2>1 DEF CheckSoft
    <1>7. CASE Validate(r)
      <2>1. PastBusy(u)' \subseteq PastBusy(u)
        BY <1>2, <1>7 DEF Validate
      <2>2. QED BY <1>1, <1>7, <2>1 DEF Validate
    <1>8. CASE Record(r)
      <2>1. PastBusy(u)' \subseteq PastBusy(u)
        BY <1>2, <1>8 DEF Record
      <2>2. QED BY <1>1, <1>8, <2>1 DEF Record
    <1>9. CASE Insert(r)
      <2>1. Goto(r, "insert", "idle") /\ PastBusy(u)' \subseteq PastBusy(u)
        BY <1>2, <1>9 DEF Insert
      <2>2. admitted'[u] = IF u = UserOf[r] THEN admitted[u] + 1 ELSE admitted[u]
        BY <1>9 DEF Insert, TypeOK
      <2>3. r \in Of(UserOf[r]) /\ pc[r] = "insert" /\ pc'[r] = "idle"
        BY <2>1 DEF Goto, Of, TypeOK
      <2>4. CASE u = UserOf[r]
        <3>1. r \in PastBusy(u) /\ r \notin PastBusy(u)'
          BY <2>3, <2>4 DEF PastBusy
        <3>2. QED BY <1>1, <2>1, <2>2, <2>4, <3>1
      <2>5. CASE u # UserOf[r]
        BY <1>1, <2>1, <2>2, <2>5
      <2>6. QED BY <2>4, <2>5
    <1>10. CASE InsertFails(r)
      <2>1. PastBusy(u)' \subseteq PastBusy(u)
        BY <1>2, <1>10 DEF InsertFails
      <2>2. QED BY <1>1, <1>10, <2>1 DEF InsertFails
    <1>11. CASE RefundRequest(r)
      <2>1. PastBusy(u)' \subseteq PastBusy(u)
        BY <1>2, <1>11 DEF RefundRequest
      <2>2. QED BY <1>1, <1>11, <2>1 DEF RefundRequest
    <1>12. QED
      BY <1>3, <1>4, <1>5, <1>6, <1>7, <1>8, <1>9, <1>10, <1>11 DEF Create

(* No other step adds a row of create_job or moves a call forward.         *)
LEMMA OthersDoNotOccupy ==
    ASSUME TypeOK, [Next]_vars, ~ \E r \in Requests : Create(r), NEW u \in Users
    PROVE  admitted'[u] <= admitted[u] /\ PastBusy(u)' \subseteq PastBusy(u)
    <1>1. admitted[u] \in Nat
      BY DEF TypeOK
    <1>2. ASSUME NEW v \in Users, Vary(v)
          PROVE  admitted' = admitted /\ pc' = pc
      BY <1>2 DEF Vary
    <1>3. ASSUME NEW v \in Users, NEW s \in Settlers, Settle(s, v)
          PROVE  admitted'[u] <= admitted[u] /\ pc' = pc
      BY <1>1, <1>3 DEF Settle, TypeOK
    <1>4. ASSUME NEW s \in Settlers, Refund(s)
          PROVE  admitted' = admitted /\ pc' = pc
      BY <1>4 DEF Refund
    <1>5. ASSUME SweepBegin \/ Sweep PROVE admitted' = admitted /\ pc' = pc
      BY <1>5 DEF SweepBegin, Sweep
    <1>6. ASSUME NEW k \in Keys, KeyExpires(k)
          PROVE  admitted' = admitted /\ pc' = pc
      BY <1>6 DEF KeyExpires
    <1>7. ASSUME Midnight PROVE admitted' = admitted /\ pc' = pc
      BY <1>7 DEF Midnight
    <1>8. ASSUME Restart
          PROVE  admitted'[u] <= admitted[u] /\ PastBusy(u)' \subseteq PastBusy(u)
      BY <1>1, <1>8 DEF Restart, PastBusy, Of
    <1>9. CASE UNCHANGED vars
      BY <1>1, <1>9 DEF vars, PastBusy, Of
    <1>10. ASSUME pc' = pc PROVE PastBusy(u)' \subseteq PastBusy(u)
      BY <1>10 DEF PastBusy, Of
    <1>11. QED
      BY <1>1, <1>2, <1>3, <1>4, <1>5, <1>6, <1>7, <1>8, <1>9, <1>10 DEF Next

LEMMA CapacityStep ==
    TypeOK /\ CapacityBounded /\ [Next]_vars => CapacityBounded'
    <1> SUFFICES ASSUME TypeOK, CapacityBounded, [Next]_vars, NEW u \in Users
                 PROVE  admitted'[u] + Cardinality(PastBusy(u)')
                            <= Capacity - 1 + Cardinality(Of(u))
      BY DEF CapacityBounded, Of
    <1>1. admitted[u] \in Nat /\ admitted'[u] \in Nat /\ Capacity - 1 \in Int
      BY StepType DEF TypeOK
    <1>2. PastBusy(u) \in SUBSET Of(u) /\ PastBusy(u)' \in SUBSET Of(u)
      BY DEF PastBusy, Of
    <1>3. admitted[u] + Cardinality(PastBusy(u)) <= Capacity - 1 + Cardinality(Of(u))
      BY DEF CapacityBounded
    <1>4. CASE admitted'[u] <= admitted[u] /\ PastBusy(u)' \subseteq PastBusy(u)
      BY <1>1, <1>2, <1>3, <1>4, NothingGrows
    <1>5. CASE admitted'[u] <= Capacity - 1
      BY <1>1, <1>2, <1>5, BelowTheLimit
    <1>6. ASSUME NEW r \in PastBusy(u), r \notin PastBusy(u)',
                 admitted'[u] <= admitted[u] + 1, PastBusy(u)' \subseteq PastBusy(u)
          PROVE  admitted'[u] + Cardinality(PastBusy(u)')
                     <= Capacity - 1 + Cardinality(Of(u))
      BY <1>1, <1>2, <1>3, <1>6, OneIsCounted
    <1>7. QED BY <1>4, <1>5, <1>6, CreateOccupies, OthersDoNotOccupy

LEMMA CapacityInit == Init => CapacityBounded
    <1> SUFFICES ASSUME Init, NEW u \in Users
                 PROVE  admitted[u] + Cardinality(PastBusy(u))
                            <= Capacity - 1 + Cardinality(Of(u))
      BY DEF CapacityBounded
    <1>1. admitted[u] = 0 /\ PastBusy(u) \in SUBSET Of(u)
      BY DEF Init, PastBusy
    <1>2. QED BY <1>1, BelowTheLimit

(* A user's rows of create_job exceed max_concurrency + max_queue by at    *)
(* most the calls in flight besides the first: the capacity gate bounds    *)
(* the queue although it counts rows long before it inserts one.           *)
THEOREM CapacityOvershoot == Spec => []CapacityBounded
    <1>1. TypeOK /\ CapacityBounded /\ [Next]_vars => (TypeOK /\ CapacityBounded)'
      BY StepType, CapacityStep
    <1>2. QED BY <1>1, InitType, CapacityInit, PTL DEF Spec

-----------------------------------------------------------------------------
(* The day a charge counts for                                              *)

(* Dates are never ahead of the day: a date that callers hold or that a    *)
(* row has is of today or of the past.                                     *)
DatesPast ==
    /\ \A g \in Guards : date[g] <= day
    /\ \A u \in Users : resetDay[u] <= day

DayInv == TypeOK /\ OvershootBounded /\ DatesPast /\ NeverOvercharged

(* The history variable reaches its ceiling no sooner than the count may.  *)
LEMMA CountBelowCeiling ==
    ASSUME NEW u \in Users, NEW S \in SUBSET Of(u), NEW n \in Nat,
           n + Cardinality(S) <= HardQuota - 1 + Cardinality(Of(u))
    PROVE  n <= Ceiling
    <1>1. Of(u) \in SUBSET Requests
      BY DEF Of
    <1>2. /\ Cardinality(Of(u)) <= Cardinality(Requests)
          /\ Cardinality(Of(u)) \in Nat /\ Cardinality(Requests) \in Nat
      BY <1>1, FS_Subset, FS_CardinalityType
    <1>3. Cardinality(S) \in Nat
      BY CallsAreFinite
    <1>4. QED BY <1>2, <1>3 DEF Ceiling

(* The guard keeps the bound when a row has today's date afterwards.       *)
LEMMA CurrentOfToday ==
    ASSUME DayInv, NEW g \in Guards, NEW u \in Users, date[g] = day
    PROVE  Current(g, u) <= used[u] /\ Decremented(Current(g, u)) <= used[u]
    BY DEF DayInv, TypeOK, NeverOvercharged, Current, Decremented

(* A transaction of the guard that leaves no more than what is current.    *)
LEMMA StoreKeepsDay ==
    ASSUME DayInv, NEW g \in Guards, NEW v \in Users, NEW n \in Nat,
           Store(g, v, n), n <= Current(g, v) \/ n <= Decremented(Current(g, v)),
           day' = day, used' = used
    PROVE  /\ NeverOvercharged'
           /\ \A u \in Users : resetDay'[u] <= day'
    <1> SUFFICES ASSUME NEW u \in Users
                 PROVE  /\ resetDay'[u] = day' => count'[u] <= used'[u]
                        /\ resetDay'[u] <= day'
      BY DEF NeverOvercharged
    <1>1. /\ count'[u] = IF u = v THEN n ELSE count[u]
          /\ resetDay'[u] = IF u = v THEN date[g] ELSE resetDay[u]
      BY DEF Store, DayInv, TypeOK
    <1>2. date[g] \in Nat /\ day \in Nat /\ resetDay[u] \in Nat /\ used[u] \in Nat
          /\ count[u] \in Nat
      BY DEF DayInv, TypeOK
    <1>3. date[g] <= day /\ resetDay[u] <= day
      BY DEF DayInv, DatesPast
    <1>4. CASE u # v
      BY <1>1, <1>2, <1>3, <1>4 DEF DayInv, NeverOvercharged
    <1>5. CASE u = v
      <2>1. Current(g, v) \in Nat /\ Decremented(Current(g, v)) \in Nat
        BY CurrentBound DEF DayInv
      <2>2. date[g] = day => n <= used[v]
        BY <1>2, <1>5, <2>1, CurrentOfToday
      <2>3. QED BY <1>1, <1>2, <1>3, <1>5, <2>2
    <1>6. QED BY <1>4, <1>5

(* A caller that reads the date reads today's.                             *)
LEMMA CallKeepsDates ==
    ASSUME DayInv, NEW g \in Guards, CallGuard(g) \/ UNCHANGED date, day' = day
    PROVE  \A h \in Guards : date'[h] <= day'
    BY DEF DayInv, DatesPast, TypeOK, CallGuard

LEMMA CreateKeepsDay ==
    ASSUME DayInv, TypeOK', OvershootBounded',
           NEW r \in Requests, Create(r)
    PROVE  DatesPast' /\ NeverOvercharged'
    <1> DEFINE u == UserOf[r]
    <1>1. r \in Guards /\ u \in Users /\ day' = day
      BY DEF Guards, Create, LookUp, CheckHard, CheckBusy, CheckSoft, Validate,
             Record, Insert, InsertFails, RefundRequest
    <1>2. Current(r, u) \in Nat /\ Decremented(Current(r, u)) \in Nat
      BY <1>1, CurrentBound DEF DayInv
    <1>3. \A h \in Guards : date'[h] <= day'
      <2>1. CallGuard(r) \/ UNCHANGED date
        BY DEF Create, LookUp, CheckHard, CheckBusy, CheckSoft, Validate,
               Record, Insert, InsertFails, RefundRequest
      <2>2. QED BY <1>1, <2>1, CallKeepsDates
    <1>4. CASE LookUp(r) \/ CheckBusy(r) \/ Validate(r) \/ Insert(r) \/ InsertFails(r)
      <2>1. UNCHANGED <<count, resetDay, used, day>>
        BY <1>4 DEF LookUp, CheckBusy, Validate, Insert, InsertFails
      <2>2. QED BY <1>3, <2>1 DEF DayInv, DatesPast, NeverOvercharged
    <1>5. CASE CheckHard(r) \/ CheckSoft(r)
      <2>1. Store(r, u, Current(r, u)) /\ used' = used
        BY <1>5 DEF CheckHard, CheckSoft
      <2>2. QED BY <1>1, <1>2, <1>3, <2>1, StoreKeepsDay DEF DatesPast
    <1>6. CASE RefundRequest(r)
      <2>1. Store(r, u, Decremented(Current(r, u))) /\ used' = used
        BY <1>6 DEF RefundRequest
      <2>2. QED BY <1>1, <1>2, <1>3, <2>1, StoreKeepsDay DEF DatesPast
    <1>7. CASE Record(r)
      <2> SUFFICES ASSUME NEW v \in Users
                   PROVE  /\ resetDay'[v] = day' => count'[v] <= used'[v]
                          /\ resetDay'[v] <= day'
        BY <1>3 DEF DatesPast, NeverOvercharged
      <2>1. /\ count'[v] = IF v = u THEN Current(r, v) + 1 ELSE count[v]
            /\ resetDay'[v] = IF v = u THEN date[r] ELSE resetDay[v]
            /\ used'[v] = IF v = u /\ used[v] < Ceiling THEN used[v] + 1 ELSE used[v]
        BY <1>1, <1>7 DEF Record, Store, DayInv, TypeOK
      <2>2. /\ date[r] \in Nat /\ day \in Nat /\ resetDay[v] \in Nat
            /\ count[v] \in Nat /\ used[v] \in 0 .. Ceiling
            /\ date[r] <= day /\ resetDay[v] <= day
        BY <1>1 DEF DayInv, TypeOK, DatesPast
      <2>3. CASE v # u
        BY <1>1, <2>1, <2>2, <2>3 DEF DayInv, NeverOvercharged
      <2>4. CASE v = u /\ date[r] # day
        BY <1>1, <2>1, <2>2, <2>4
      <2>5. CASE v = u /\ date[r] = day
        <3>1. Current(r, u) <= used[u]
          BY <1>1, <2>5, CurrentOfToday
        <3>2. count'[v] <= Ceiling
          <4>1. count'[v] \in Nat /\ PastHard(v)' \in SUBSET Of(v)
            BY DEF TypeOK, PastHard, Of
          <4>2. count'[v] + Cardinality(PastHard(v)')
                    <= HardQuota - 1 + Cardinality(Of(v))
            BY DEF OvershootBounded, Of
          <4>3. QED BY <4>1, <4>2, CountBelowCeiling
        <3>3. QED BY <1>1, <1>2, <2>1, <2>2, <2>5, <3>1, <3>2, CeilingType
      <2>6. QED BY <2>3, <2>4, <2>5
    <1>8. QED BY <1>4, <1>5, <1>6, <1>7 DEF Create

LEMMA OthersKeepDay ==
    ASSUME DayInv, TypeOK', [Next]_vars, ~ \E r \in Requests : Create(r)
    PROVE  DatesPast' /\ NeverOvercharged'
    <1>1. ASSUME NEW v \in Users, Vary(v) PROVE DatesPast' /\ NeverOvercharged'
      BY <1>1 DEF Vary, DayInv, DatesPast, NeverOvercharged
    <1>2. ASSUME NEW v \in Users, NEW s \in Settlers, Settle(s, v)
          PROVE  DatesPast' /\ NeverOvercharged'
      <2>1. UNCHANGED <<count, resetDay, used, day>>
        BY <1>2 DEF Settle
      <2>2. CallGuard(s) \/ UNCHANGED date
        BY <1>2 DEF Settle
      <2>3. \A h \in Guards : date'[h] <= day'
        BY <2>1, <2>2, CallKeepsDates DEF Guards
      <2>4. QED BY <2>1, <2>3 DEF DayInv, DatesPast, NeverOvercharged
    <1>3. ASSUME NEW s \in Settlers, Refund(s) PROVE DatesPast' /\ NeverOvercharged'
      <2>1. s \in Guards /\ refund[s] \in Users
        BY <1>3 DEF Guards, Refund, DayInv, TypeOK
      <2>2. Decremented(Current(s, refund[s])) \in Nat
        BY <2>1, CurrentBound DEF DayInv
      <2>3. /\ Store(s, refund[s], Decremented(Current(s, refund[s])))
            /\ UNCHANGED <<date, day, used>>
        BY <1>3 DEF Refund
      <2>4. NeverOvercharged' /\ \A u \in Users : resetDay'[u] <= day'
        BY <2>1, <2>2, <2>3, StoreKeepsDay
      <2>5. QED BY <2>3, <2>4 DEF DayInv, DatesPast
    <1>4. ASSUME SweepBegin PROVE DatesPast' /\ NeverOvercharged'
      <2>1. UNCHANGED <<count, resetDay, used, day>> /\ CallGuard(Sweeper)
        BY <1>4 DEF SweepBegin
      <2>2. \A h \in Guards : date'[h] <= day'
        BY <2>1, CallKeepsDates DEF Guards
      <2>3. QED BY <2>1, <2>2 DEF DayInv, DatesPast, NeverOvercharged
    <1>5. ASSUME Sweep PROVE DatesPast' /\ NeverOvercharged'
      <2>1. Sweeper \in Guards
        BY DEF Guards
      <2>2. \A u \in Users : date[Sweeper] = day => Current(Sweeper, u) <= used[u]
        BY <2>1, CurrentOfToday
      <2>3. QED BY <1>5, <2>1, <2>2 DEF Sweep, DayInv, DatesPast, NeverOvercharged
    <1>6. ASSUME NEW k \in Keys, KeyExpires(k) PROVE DatesPast' /\ NeverOvercharged'
      BY <1>6 DEF KeyExpires, DayInv, DatesPast, NeverOvercharged
    <1>7. ASSUME Midnight PROVE DatesPast' /\ NeverOvercharged'
      <2>1. day \in Nat /\ day' = day + 1
        BY <1>7 DEF Midnight, DayInv, TypeOK
      <2>2. /\ \A g \in Guards : date[g] \in Nat /\ date[g] <= day
            /\ \A u \in Users : resetDay[u] \in Nat /\ resetDay[u] <= day
        BY DEF DayInv, DatesPast, TypeOK
      <2>3. date' = date /\ resetDay' = resetDay
        BY <1>7 DEF Midnight
      <2>4. QED BY <2>1, <2>2, <2>3 DEF DatesPast, NeverOvercharged
    <1>8. ASSUME Restart PROVE DatesPast' /\ NeverOvercharged'
      BY <1>8 DEF Restart, DayInv, DatesPast, NeverOvercharged
    <1>9. CASE UNCHANGED vars
      BY <1>9 DEF vars, DayInv, DatesPast, NeverOvercharged
    <1>10. QED
      BY <1>1, <1>2, <1>3, <1>4, <1>5, <1>6, <1>7, <1>8, <1>9 DEF Next

LEMMA DayStep == DayInv /\ [Next]_vars => DayInv'
    <1> SUFFICES ASSUME DayInv, [Next]_vars PROVE DayInv'
      OBVIOUS
    <1>1. TypeOK' /\ OvershootBounded'
      BY StepType, OvershootStep DEF DayInv
    <1>2. DatesPast' /\ NeverOvercharged'
      BY <1>1, CreateKeepsDay, OthersKeepDay
    <1>3. QED BY <1>1, <1>2 DEF DayInv

LEMMA DayInit == Init => DayInv
    BY InitType, OvershootInit
    DEF Init, DayInv, DatesPast, NeverOvercharged, Guards

(* A row that has today's date counts no more than today's charges,        *)
(* although callers of the guard may reset and write it with a date they   *)
(* read before midnight (_lazy_reset_user, record_usage, refund_usage).    *)
THEOREM NoForeignCharge == Spec => []NeverOvercharged
    <1>1. DayInv => NeverOvercharged
      BY DEF DayInv
    <1>2. QED BY <1>1, DayInit, DayStep, PTL DEF Spec
=============================================================================
