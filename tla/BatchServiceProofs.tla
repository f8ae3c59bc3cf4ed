------------------------- MODULE BatchServiceProofs -------------------------
(* Theorems about BatchService, for any number of jobs, clients and crashes *)
(* and any total, writes that raise included.                               *)
EXTENDS BatchService, FiniteSetTheorems, TLAPS

USE JobsAssumption, TotalAssumption, BoundAssumption

(* The facts about the status graph that the proofs below rest on.          *)
LEMMA BatchGraph ==
    /\ Settled = {SUCCEEDED, FAILED, CANCELLED}
    /\ Settled \subseteq Statuses \ {DELETED}
    /\ {NONE, QUEUED, RUNNING} \cap Settled = {}
    /\ {NONE, QUEUED, RUNNING} \subseteq Statuses \ {DELETED}
    /\ NONE # QUEUED /\ NONE # RUNNING /\ QUEUED # RUNNING
    /\ SUCCEEDED # FAILED /\ SUCCEEDED # CANCELLED /\ FAILED # CANCELLED
    /\ \A s \in Statuses :
          /\ CANCELLED \in Allowed[s] => s \in {QUEUED, RUNNING}
          /\ s \in {QUEUED, RUNNING} =>
                Allowed[s] \subseteq Statuses \ {NONE, DELETED}
    BY DEF Settled, Statuses, Allowed, NONE, QUEUED, RUNNING, SUCCEEDED,
           FAILED, CANCELLED, DELETED

Bound     == {j \in Jobs : job[j] # NONE}
Having(s) == {j \in Jobs : job[j] = s}
Fanned(s) == {j \in Jobs \ (pending \cup lost) : job[j] = s}

SlotPerJob == submitted = Cardinality(Bound)

(* What a status that is written, or is about to be, claims of the jobs.    *)
Truthful(to) ==
    /\ to = "completed" => Cardinality(Having(SUCCEEDED)) = Total
    /\ to = "cancelled" => \E j \in Jobs : job[j] = CANCELLED

FinalizeClaim(c) ==
    /\ fin[c].pc = "count" =>
          \A s \in Settled : fin[c].counts[s] <= Cardinality(Having(s))
    /\ fin[c].pc = "flush" => Truthful(fin[c].to)

WatchdogClaim == wd.pc = "flush" => Truthful(wd.to)

(* A settled job keeps its outcome, so a status computed from counters of   *)
(* any age claims nothing that has ceased to hold when it is written.       *)
BatchInv ==
    /\ TypeOK
    /\ SlotPerJob
    /\ CountsAreExact
    /\ \A j \in pending \cup lost : job[j] \in Settled
    /\ pending \cap lost = {}
    /\ Truthful(bstatus)
    /\ \A c \in Clients : FinalizeClaim(c)
    /\ WatchdogClaim

LEMMA SetsAreFinite ==
    /\ IsFiniteSet(Bound) /\ Cardinality(Bound) \in Nat
    /\ \A s : IsFiniteSet(Having(s)) /\ Cardinality(Having(s)) \in Nat
    /\ \A s : IsFiniteSet(Fanned(s)) /\ Cardinality(Fanned(s)) \in Nat
    <1>1. ASSUME NEW S \in SUBSET Jobs
          PROVE  IsFiniteSet(S) /\ Cardinality(S) \in Nat
      BY FS_Subset, FS_CardinalityType
    <1>2. Bound \in SUBSET Jobs
      BY DEF Bound
    <1>3. \A s : Having(s) \in SUBSET Jobs
      BY DEF Having
    <1>4. \A s : Fanned(s) \in SUBSET Jobs
      BY DEF Fanned
    <1>5. QED BY <1>1, <1>2, <1>3, <1>4

(* The counters and the slots never exceed what the jobs show.              *)
LEMMA CountsBound ==
    ASSUME TypeOK, CountsAreExact, bstatus # "gone", NEW s \in Settled
    PROVE  counts[s] <= Cardinality(Having(s))
    <1>1. counts[s] = Cardinality(Fanned(s))
      BY DEF CountsAreExact, Fanned
    <1>2. Fanned(s) \in SUBSET Having(s)
      BY DEF Fanned, Having
    <1>3. QED BY <1>1, <1>2, SetsAreFinite, FS_Subset

LEMMA HavingBound ==
    ASSUME TypeOK, SlotPerJob, NEW s \in Settled
    PROVE  Cardinality(Having(s)) <= Total
    <1>1. Having(s) \in SUBSET Bound
      BY BatchGraph DEF Having, Bound
    <1>2. Cardinality(Bound) <= Total
      BY DEF TypeOK, SlotPerJob, Bound
    <1>3. QED BY <1>1, <1>2, SetsAreFinite, FS_Subset

(* What resolve_terminal_status says of counters that lag behind the jobs.  *)
LEMMA ResolveTruthful ==
    ASSUME TypeOK, SlotPerJob, NEW c \in [Settled -> Nat],
           \A s \in Settled : c[s] <= Cardinality(Having(s))
    PROVE  /\ resolve_terminal_status(c) \in Terminal
           /\ Truthful(resolve_terminal_status(c))
    <1> DEFINE r == resolve_terminal_status(c)
    <1>0. {SUCCEEDED, FAILED, CANCELLED} \subseteq Settled
      BY BatchGraph
    <1>1. c[SUCCEEDED] \in Nat /\ c[FAILED] \in Nat /\ c[CANCELLED] \in Nat
      BY <1>0
    <1>2. \/ r = "partial"
          \/ r = "cancelled" /\ c[CANCELLED] > 0
          \/ r = "completed" /\ c[SUCCEEDED] = Total
      BY <1>1 DEF resolve_terminal_status
    <1>3. ASSUME c[CANCELLED] > 0
          PROVE  \E j \in Jobs : job[j] = CANCELLED
      <2>1. Cardinality(Having(CANCELLED)) # 0
        BY <1>0, <1>1, <1>3, SetsAreFinite
      <2>2. Having(CANCELLED) # {}
        BY <2>1, FS_EmptySet
      <2>3. QED BY <2>2 DEF Having
    <1>4. ASSUME c[SUCCEEDED] = Total
          PROVE  Cardinality(Having(SUCCEEDED)) = Total
      BY <1>0, <1>4, HavingBound, SetsAreFinite
    <1>5. QED BY <1>2, <1>3, <1>4 DEF Terminal, Truthful

-----------------------------------------------------------------------------
(* How a step may change the jobs, and what that keeps.                     *)

(* A settled job keeps its outcome.                                         *)
Steady == \A j \in Jobs : job[j] \in Settled => job'[j] = job[j]

LEMMA SteadyKeeps ==
    ASSUME TypeOK', SlotPerJob', Steady
    PROVE  /\ \A s \in Settled :
                 Cardinality(Having(s)) <= Cardinality(Having(s)')
           /\ \A to : Truthful(to) => Truthful(to)'
    <1>1. ASSUME NEW s \in Settled
          PROVE  /\ Cardinality(Having(s)) <= Cardinality(Having(s)')
                 /\ Cardinality(Having(s)') <= Total
                 /\ Cardinality(Having(s)) \in Nat
                 /\ Cardinality(Having(s)') \in Nat
      <2>1. Having(s) \in SUBSET (Having(s)')
        BY DEF Having, Steady
      <2>2. Having(s)' \in SUBSET Jobs /\ Bound' \in SUBSET Jobs
        BY DEF Having, Bound
      <2>3. IsFiniteSet(Having(s)') /\ IsFiniteSet(Bound')
        BY <2>2, FS_Subset
      <2>4. Having(s)' \in SUBSET (Bound')
        BY BatchGraph DEF Having, Bound
      <2>5. Cardinality(Bound') <= Total /\ Cardinality(Bound') \in Nat
        BY DEF TypeOK, SlotPerJob, Bound
      <2>6. Cardinality(Having(s)') <= Cardinality(Bound')
        BY <2>3, <2>4, FS_Subset
      <2>7. Cardinality(Having(s)') \in Nat
        BY <2>3, FS_CardinalityType
      <2>8. QED BY <2>1, <2>3, <2>5, <2>6, <2>7, FS_Subset, SetsAreFinite
    <1>2. SUCCEEDED \in Settled /\ CANCELLED \in Settled
      BY BatchGraph
    <1>3. ASSUME NEW to, Truthful(to)
          PROVE  Truthful(to)'
      <2>1. to = "completed" => Cardinality(Having(SUCCEEDED)') = Total
        BY <1>1, <1>2, <1>3 DEF Truthful
      <2>2. to = "cancelled" => \E j \in Jobs : job'[j] = CANCELLED
        BY <1>2, <1>3 DEF Truthful, Steady
      <2>3. QED BY <2>1, <2>2 DEF Truthful
    <1>4. QED BY <1>1, <1>3

(* Handlers that keep their claims, or make none.                           *)
LEMMA ClaimsKept ==
    ASSUME BatchInv, TypeOK', SlotPerJob', Steady
    PROVE  /\ \A c \in Clients :
                 \/ fin'[c] = fin[c]
                 \/ fin'[c].pc \notin {"count", "flush"}
                 => FinalizeClaim(c)'
           /\ wd' = wd \/ wd'.pc # "flush" => WatchdogClaim'
           /\ bstatus' = bstatus => Truthful(bstatus)'
    <1>1. \A to : Truthful(to) => Truthful(to)'
      BY SteadyKeeps
    <1>2. ASSUME NEW c \in Clients,
                 \/ fin'[c] = fin[c]
                 \/ fin'[c].pc \notin {"count", "flush"}
          PROVE  FinalizeClaim(c)'
      <2>1. CASE fin'[c] = fin[c] /\ fin[c].pc = "count"
        <3>1. ASSUME NEW s \in Settled
              PROVE  fin'[c].counts[s] <= Cardinality(Having(s)')
          <4>1. fin[c].counts[s] <= Cardinality(Having(s))
            BY <2>1 DEF BatchInv, FinalizeClaim
          <4>2. Cardinality(Having(s)) <= Cardinality(Having(s)')
            BY SteadyKeeps
          <4>3. fin[c].counts[s] \in Nat
            BY <2>1 DEF BatchInv, TypeOK, Idle
          <4>4. Cardinality(Having(s)) \in Nat
            BY SetsAreFinite
          <4>5. Cardinality(Having(s)') \in Nat
            <5>1. Having(s)' \in SUBSET Jobs
              BY DEF Having
            <5>2. QED BY <5>1, FS_Subset, FS_CardinalityType
          <4>6. QED BY <2>1, <4>1, <4>2, <4>3, <4>4, <4>5
        <3>2. QED BY <2>1, <3>1 DEF FinalizeClaim
      <2>2. CASE fin'[c] = fin[c] /\ fin[c].pc = "flush"
        <3>1. Truthful(fin[c].to)
          BY <2>2 DEF BatchInv, FinalizeClaim
        <3>2. QED BY <1>1, <2>2, <3>1 DEF FinalizeClaim, Truthful
      <2>3. QED BY <1>2, <2>1, <2>2 DEF FinalizeClaim
    <1>3. wd' = wd \/ wd'.pc # "flush" => WatchdogClaim'
      BY <1>1 DEF BatchInv, WatchdogClaim, Truthful
    <1>4. bstatus' = bstatus => Truthful(bstatus)'
      BY <1>1 DEF BatchInv, Truthful
    <1>5. QED BY <1>2, <1>3, <1>4

(* Steps that leave the jobs, the slots and the counters alone.             *)
LEMMA CountersKept ==
    ASSUME BatchInv, job' = job, submitted' = submitted, counts' = counts,
           pending' \cup lost' = pending \cup lost,
           bstatus = "gone" => bstatus' = "gone"
    PROVE  /\ SlotPerJob' /\ CountsAreExact' /\ Steady
           /\ \A j \in pending' \cup lost' : job'[j] \in Settled
    BY DEF BatchInv, SlotPerJob, Bound, CountsAreExact, Steady

LEMMA QuietStep ==
    ASSUME BatchInv, TypeOK', job' = job, submitted' = submitted, counts' = counts,
           pending' \cup lost' = pending \cup lost, pending' \cap lost' = {},
           bstatus' \in {bstatus, "gone"},
           \A c \in Clients : \/ fin'[c] = fin[c]
                              \/ fin'[c].pc \notin {"count", "flush"}
                              \/ FinalizeClaim(c)',
           \/ wd' = wd \/ wd'.pc # "flush" \/ WatchdogClaim'
    PROVE  BatchInv'
    <1>1. /\ SlotPerJob' /\ CountsAreExact' /\ Steady
          /\ \A j \in pending' \cup lost' : job'[j] \in Settled
      BY CountersKept
    <1>2. (\A c \in Clients : FinalizeClaim(c)') /\ WatchdogClaim'
      BY <1>1, ClaimsKept
    <1>3. Truthful(bstatus)'
      <2>1. CASE bstatus' = bstatus
        BY <1>1, <2>1, ClaimsKept
      <2>2. CASE bstatus' = "gone"
        BY <2>2 DEF Truthful
      <2>3. QED BY <2>1, <2>2
    <1>4. QED BY <1>1, <1>2, <1>3 DEF BatchInv

-----------------------------------------------------------------------------
(* The steps that change a job or a counter                                 *)

LEMMA BindKeeps ==
    ASSUME BatchInv, NEW j \in Jobs, Bind(j)
    PROVE  BatchInv'
    <1>0. TypeOK /\ job[j] = NONE /\ submitted \in Nat
      BY DEF BatchInv, Bind, TypeOK
    <1>1. /\ bstatus' = bstatus /\ counts' = counts /\ finalized' = finalized
          /\ pending' = pending /\ lost' = lost /\ fin' = fin /\ wd' = wd
          /\ submitted' = submitted + 1
          /\ job' = [job EXCEPT ![j] = QUEUED]
      BY DEF Bind, Claims, handlers
    <1>2. TypeOK'
      <2>1. quiet' \in BOOLEAN
        BY Zenon DEF Bind, Claims
      <2>2. submitted' \in 0 .. Total
        BY <1>0 DEF Bind, Claims, TypeOK
      <2>3. job' \in [Jobs -> Statuses \ {DELETED}]
        BY <1>0, <1>1, BatchGraph DEF TypeOK
      <2>4. late' \subseteq Jobs
        BY <1>0 DEF Bind, Claims, TypeOK
      <2>5. QED BY <1>0, <2>1, <2>2, <2>3, <2>4 DEF TypeOK, Bind, Claims, handlers
    <1>3. SlotPerJob'
      <2>1. Bound' = Bound \cup {j} /\ j \notin Bound
        BY <1>0, <1>1, BatchGraph DEF Bound, TypeOK
      <2>2. Cardinality(Bound') = Cardinality(Bound) + 1
        BY <2>1, SetsAreFinite, FS_AddElement
      <2>3. QED BY <1>1, <2>2 DEF BatchInv, SlotPerJob, Bound
    <1>4. Steady
      BY <1>0, <1>1, BatchGraph DEF Steady, TypeOK
    <1>5. CountsAreExact'
      <2>1. ASSUME NEW s \in Settled PROVE Fanned(s)' = Fanned(s)
        BY <1>0, <1>1, BatchGraph DEF Fanned, TypeOK
      <2>2. QED BY <1>1, <2>1 DEF BatchInv, CountsAreExact, Fanned
    <1>6. \A i \in pending' \cup lost' : job'[i] \in Settled
      BY <1>0, <1>1, <1>4 DEF BatchInv, Steady, TypeOK
    <1>7. QED
      BY <1>1, <1>2, <1>3, <1>4, <1>5, <1>6, ClaimsKept DEF BatchInv

(* A transition that was won: the outcome of the job is new, and its fan-in *)
(* is pending.                                                              *)
LEMMA MoveKeeps ==
    ASSUME BatchInv, NEW j \in Jobs, NEW to \in Statuses, Move(j, to),
           job[j] \in {QUEUED, RUNNING}, TypeOK',
           UNCHANGED <<batch, lost, fin, wd>>
    PROVE  BatchInv'
    <1>0. TypeOK
      BY DEF BatchInv
    <1>1. /\ job' = [job EXCEPT ![j] = to] /\ to \in Statuses \ {NONE, DELETED}
          /\ pending' = IF to \in Settled THEN pending \cup {j} ELSE pending
      BY BatchGraph DEF Move
    <1>2. j \notin pending \cup lost
      BY BatchGraph DEF BatchInv
    <1>3. /\ bstatus' = bstatus /\ submitted' = submitted /\ counts' = counts
          /\ lost' = lost /\ fin' = fin /\ wd' = wd
      BY DEF batch
    <1>4. Steady
      <2>1. job[j] \notin Settled
        BY ONLY BatchGraph, job[j] \in {QUEUED, RUNNING}
      <2>2. \A i \in Jobs \ {j} : job'[i] = job[i]
        BY <1>0, <1>1 DEF TypeOK
      <2>3. QED BY <2>1, <2>2 DEF Steady
    <1>5. SlotPerJob'
      <2>1. Bound' = Bound
        BY <1>0, <1>1, BatchGraph DEF Bound, TypeOK
      <2>2. QED BY <1>3, <2>1 DEF BatchInv, SlotPerJob, Bound
    <1>6. CountsAreExact'
      <2>1. ASSUME NEW s \in Settled PROVE Fanned(s)' = Fanned(s)
        BY <1>0, <1>1, <1>2, <1>3, BatchGraph DEF Fanned, TypeOK
      <2>2. QED BY <1>3, <2>1 DEF BatchInv, CountsAreExact, Fanned
    <1>7. /\ \A i \in pending' \cup lost' : job'[i] \in Settled
          /\ pending' \cap lost' = {}
      BY <1>0, <1>1, <1>2, <1>3 DEF BatchInv, TypeOK
    <1>8. QED
      BY <1>3, <1>4, <1>5, <1>6, <1>7, ClaimsKept DEF BatchInv

LEMMA JobKeeps ==
    ASSUME BatchInv, NEW j \in Jobs, Advance(j) \/ CancelNext(j)
    PROVE  BatchInv'
    <1>0. TypeOK
      BY DEF BatchInv
    <1>1. ASSUME NEW to \in Statuses, Move(j, to), job[j] \in {QUEUED, RUNNING}
          PROVE  TypeOK' /\ UNCHANGED <<batch, lost, fin, wd>>
      <2>1. job' \in [Jobs -> Statuses \ {DELETED}] /\ pending' \subseteq Jobs
        BY <1>0, <1>1, BatchGraph DEF Move, TypeOK
      <2>2. QED
        BY <1>0, <2>1 DEF TypeOK, Advance, CancelNext, batch, handlers
    <1>2. CASE Advance(j)
      <2>1. PICK to \in Statuses : Move(j, to)
        BY <1>2 DEF Advance
      <2>2. QED BY <1>1, <1>2, <2>1, MoveKeeps DEF Advance
    <1>3. CASE CancelNext(j) /\ Move(j, CANCELLED)
      <2>1. CANCELLED \in Statuses /\ job[j] \in Statuses
        BY <1>0, BatchGraph DEF TypeOK
      <2>2. job[j] \in {QUEUED, RUNNING}
        BY <1>3, <2>1, BatchGraph DEF Move
      <2>3. QED BY <1>1, <1>3, <2>1, <2>2, MoveKeeps
    <1>4. CASE CancelNext(j) /\ UNCHANGED <<job, pending>>
      <2>1. TypeOK'
        BY <1>0, <1>4 DEF TypeOK, CancelNext, batch
      <2>2. QED BY <1>4, <2>1, QuietStep DEF CancelNext, batch, BatchInv
    <1>5. QED BY <1>2, <1>3, <1>4 DEF CancelNext

(* The fan-in: one counter moves with one job, and the batch is resolved    *)
(* from counters that are exact.                                            *)
LEMMA FanInKeeps ==
    ASSUME BatchInv, NEW j \in Jobs, on_job_terminal(j)
    PROVE  BatchInv'
    <1>0. TypeOK /\ j \in pending /\ j \notin lost /\ job[j] \in Settled
      BY DEF BatchInv, on_job_terminal
    <1>1. /\ job' = job /\ lost' = lost /\ fin' = fin /\ wd' = wd
          /\ submitted' = submitted /\ pending' = pending \ {j}
      BY DEF on_job_terminal, batch, jobRows, handlers
    <1>2. SlotPerJob' /\ Steady
      BY <1>1 DEF BatchInv, SlotPerJob, Bound, Steady
    <1>3. /\ \A i \in pending' \cup lost' : job'[i] \in Settled
          /\ pending' \cap lost' = {}
      BY <1>1 DEF BatchInv
    <1>4. CASE bstatus = "gone"
      <2>1. bstatus' = "gone"
        BY <1>4 DEF on_job_terminal, batch
      <2>2. TypeOK'
        BY <1>0, <1>4 DEF TypeOK, on_job_terminal, batch, jobRows, handlers
      <2>3. CountsAreExact' /\ Truthful(bstatus)'
        BY <2>1 DEF CountsAreExact, Truthful
      <2>4. QED BY <1>1, <1>2, <1>3, <2>2, <2>3, ClaimsKept DEF BatchInv
    <1>5. CASE bstatus # "gone"
      <2>1. counts' = [counts EXCEPT ![job[j]] = @ + 1]
        BY <1>5 DEF on_job_terminal
      <2>2. \A s \in Settled : counts[s] = Cardinality(Fanned(s))
        BY <1>5 DEF BatchInv, CountsAreExact, Fanned
      <2>3. ASSUME NEW s \in Settled
            PROVE  counts'[s] = Cardinality(Fanned(s)')
        <3>1. CASE s = job[j]
          <4>1. Fanned(s)' = Fanned(s) \cup {j} /\ j \notin Fanned(s)
            BY <1>0, <1>1, <3>1 DEF Fanned
          <4>2. Cardinality(Fanned(s)') = Cardinality(Fanned(s)) + 1
            BY <4>1, SetsAreFinite, FS_AddElement
          <4>3. QED BY <1>0, <2>1, <2>2, <3>1, <4>2 DEF TypeOK
        <3>2. CASE s # job[j]
          <4>1. Fanned(s)' = Fanned(s)
            BY <1>0, <1>1, <3>2 DEF Fanned
          <4>2. QED BY <1>0, <2>1, <2>2, <3>2, <4>1 DEF TypeOK
        <3>3. QED BY <3>1, <3>2
      <2>4. CountsAreExact'
        BY <2>3 DEF CountsAreExact, Fanned
      <2>5. counts' \in [Settled -> Nat]
        BY <1>0, <2>1 DEF TypeOK
      <2>6. \A s \in Settled : counts'[s] <= Cardinality(Having(s))
        <3>1. ASSUME NEW s \in Settled
              PROVE  Cardinality(Fanned(s)') <= Cardinality(Having(s))
          <4>1. Fanned(s)' \in SUBSET Having(s)
            BY <1>1 DEF Fanned, Having
          <4>2. QED BY <4>1, SetsAreFinite, FS_Subset
        <3>2. QED BY <2>3, <3>1
      <2>7. /\ resolve_terminal_status(counts') \in Terminal
            /\ Truthful(resolve_terminal_status(counts'))
        BY <1>0, <2>5, <2>6, ResolveTruthful DEF BatchInv
      <2>8. bstatus' \in {bstatus, resolve_terminal_status(counts')}
        BY <1>5 DEF on_job_terminal
      <2>9. TypeOK'
        <3>1. finalized' \in BOOLEAN
          BY <1>0, <1>5, Zenon DEF TypeOK, on_job_terminal
        <3>2. bstatus' \in NonTerminal \cup Terminal \cup {"gone"}
          BY <1>0, <2>7, <2>8 DEF TypeOK
        <3>3. QED
          BY <1>0, <1>1, <2>5, <3>1, <3>2 DEF TypeOK, on_job_terminal, jobRows, handlers
      <2>10. Truthful(bstatus)'
        <3>1. Truthful(bstatus')
          BY <2>7, <2>8 DEF BatchInv
        <3>2. QED BY <1>1, <3>1 DEF Truthful, Having
      <2>11. QED BY <1>1, <1>2, <1>3, <2>4, <2>9, <2>10, ClaimsKept DEF BatchInv
    <1>6. QED BY <1>4, <1>5

-----------------------------------------------------------------------------
(* The steps of the handlers that write a status                            *)

LEMMA FlushType ==
    ASSUME TypeOK, NEW to \in Written, Flush(to)
    PROVE  /\ bstatus' \in NonTerminal \cup Terminal \cup {"gone"}
           /\ finalized' \in BOOLEAN
           /\ submitted' = submitted /\ counts' = counts
           /\ bstatus = "gone" => bstatus' = "gone"
           /\ bstatus' \in {to, "gone"}
    <1>1. finalized' \in BOOLEAN
      BY Zenon DEF Flush, TypeOK
    <1>2. QED BY <1>1 DEF Flush, TypeOK, Written, NonTerminal

(* The write of a status whose claim still holds.                           *)
LEMMA FlushKeeps ==
    ASSUME BatchInv, TypeOK', NEW to \in Written, Flush(to),
           Truthful(to), job' = job, pending' = pending, lost' = lost,
           \A c \in Clients : fin'[c] = fin[c] \/ fin'[c] = Idle,
           wd' = wd \/ wd' = Idle
    PROVE  BatchInv'
    <1>1. /\ bstatus' \in {to, "gone"} /\ submitted' = submitted
          /\ counts' = counts /\ (bstatus = "gone" => bstatus' = "gone")
      BY FlushType DEF BatchInv
    <1>2. /\ SlotPerJob' /\ CountsAreExact' /\ Steady
          /\ \A j \in pending' \cup lost' : job'[j] \in Settled
      BY <1>1, CountersKept
    <1>3. Truthful(bstatus)'
      BY <1>1 DEF Truthful, Having
    <1>4. (\A c \in Clients : FinalizeClaim(c)') /\ WatchdogClaim'
      BY <1>2, ClaimsKept DEF Idle
    <1>5. pending' \cap lost' = {}
      BY DEF BatchInv
    <1>6. QED BY <1>2, <1>3, <1>4, <1>5 DEF BatchInv

LEMMA FinalStatusClaim ==
    ASSUME BatchInv, NEW c \in Clients, fin[c].pc = "count"
    PROVE  /\ FinalStatus(fin[c], InFlight) \in Written
           /\ Truthful(FinalStatus(fin[c], InFlight))
    <1>1. fin[c].counts \in [Settled -> Nat]
      BY DEF BatchInv, TypeOK, Idle
    <1>2. /\ resolve_terminal_status(fin[c].counts) \in Terminal
          /\ Truthful(resolve_terminal_status(fin[c].counts))
      BY <1>1, ResolveTruthful DEF BatchInv, FinalizeClaim
    <1>3. FinalStatus(fin[c], InFlight)
            \in {resolve_terminal_status(fin[c].counts), "running"}
      BY DEF FinalStatus
    <1>4. "running" \in Written /\ Truthful("running") /\ Terminal \subseteq Written
      BY DEF Written, Truthful
    <1>5. QED BY <1>2, <1>3, <1>4

LEMMA FinalizeKeeps ==
    ASSUME BatchInv, NEW c \in Clients, FinalizeLoad(c) \/ Finalize(c)
    PROVE  BatchInv'
    <1>0. TypeOK
      BY DEF BatchInv
    <1> DEFINE Pcs == {Idle}
          \cup [pc : {"count"}, submitted : 0 .. Total, counts : [Settled -> Nat]]
          \cup [pc : {"flush"}, to : Written]
    <1>1. ASSUME NEW f \in Pcs, fin' = [fin EXCEPT ![c] = f]
          PROVE  /\ fin' \in [Clients -> Pcs] /\ fin'[c] = f
                 /\ \A d \in Clients : d # c => fin'[d] = fin[d]
      BY <1>0, <1>1 DEF TypeOK
    <1>2. CASE FinalizeLoad(c)
      <2> DEFINE f == [pc |-> "count", submitted |-> submitted, counts |-> counts]
      <2>1. f \in Pcs
        BY <1>0 DEF TypeOK
      <2>2. fin' \in [Clients -> Pcs] /\ fin'[c] = f
            /\ \A d \in Clients : d # c => fin'[d] = fin[d]
        BY <1>1, <1>2, <2>1 DEF FinalizeLoad
      <2>3. TypeOK'
        BY <1>0, <1>2, <2>2 DEF TypeOK, FinalizeLoad, batch, jobRows
      <2>4. FinalizeClaim(c)'
        <3>1. \A s \in Settled : counts[s] <= Cardinality(Having(s))
          BY <1>2, CountsBound DEF FinalizeLoad, BatchInv
        <3>2. job' = job
          BY <1>2 DEF FinalizeLoad, jobRows
        <3>3. QED BY <2>2, <3>1, <3>2 DEF FinalizeClaim, Having
      <2>5. QED
        BY <1>2, <2>2, <2>3, <2>4, QuietStep
        DEF FinalizeLoad, batch, jobRows, BatchInv
    <1>3. CASE FinalizeCount(c)
      <2> DEFINE f == [pc |-> "flush", to |-> FinalStatus(fin[c], InFlight)]
      <2>1. f \in Pcs /\ Truthful(f.to)
        BY <1>3, FinalStatusClaim DEF FinalizeCount
      <2>2. fin' \in [Clients -> Pcs] /\ fin'[c] = f
            /\ \A d \in Clients : d # c => fin'[d] = fin[d]
        BY <1>1, <1>3, <2>1 DEF FinalizeCount
      <2>3. TypeOK'
        BY <1>0, <1>3, <2>2 DEF TypeOK, FinalizeCount, batch, jobRows
      <2>4. FinalizeClaim(c)'
        <3>1. job' = job
          BY <1>3 DEF FinalizeCount, jobRows
        <3> HIDE DEF f
        <3>2. fin'[c].pc = "flush" /\ Truthful(fin[c].to)'
          BY <2>1, <2>2, <3>1 DEF f, Truthful, Having
        <3>3. QED BY <3>2 DEF FinalizeClaim
      <2>5. QED
        BY <1>3, <2>2, <2>3, <2>4, QuietStep
        DEF FinalizeCount, batch, jobRows, BatchInv
    <1>4. CASE FinalizeFlush(c)
      <2>1. /\ fin[c].pc = "flush" /\ Flush(fin[c].to)
            /\ fin' = [fin EXCEPT ![c] = Idle]
        BY <1>4 DEF FinalizeFlush
      <2>2. fin[c].to \in Written /\ Truthful(fin[c].to)
        BY <1>0, <2>1 DEF BatchInv, FinalizeClaim, TypeOK, Idle
      <2>3. fin' \in [Clients -> Pcs] /\ fin'[c] = Idle
            /\ \A d \in Clients : d # c => fin'[d] = fin[d]
        BY <1>1, <2>1
      <2>4. TypeOK'
        BY <1>0, <1>4, <2>1, <2>2, <2>3, FlushType DEF TypeOK, FinalizeFlush, jobRows
      <2>5. QED
        BY <1>4, <2>1, <2>2, <2>3, <2>4, FlushKeeps DEF FinalizeFlush, jobRows
    <1>5. CASE FinalizeRaises(c)
      <2>1. fin' \in [Clients -> Pcs] /\ fin'[c] = Idle
            /\ \A d \in Clients : d # c => fin'[d] = fin[d]
        BY <1>1, <1>5 DEF FinalizeRaises
      <2>2. TypeOK'
        BY <1>0, <1>5, <2>1 DEF TypeOK, FinalizeRaises, batch, jobRows
      <2>3. QED
        BY <1>5, <2>1, <2>2, QuietStep
        DEF FinalizeRaises, batch, jobRows, BatchInv, Idle
    <1>6. QED BY <1>2, <1>3, <1>4, <1>5 DEF Finalize

LEMMA WatchdogKeeps ==
    ASSUME BatchInv, Watchdog
    PROVE  BatchInv'
    <1>0. TypeOK
      BY DEF BatchInv
    <1>1. CASE WatchdogSelect
      <2>0. /\ bstatus = "submitting" /\ job' = job
            /\ wd' = [pc |-> "flush", to |-> WatchdogStatus]
        BY <1>1 DEF WatchdogSelect, jobRows
      <2>1. /\ resolve_terminal_status(counts) \in Terminal
            /\ Truthful(resolve_terminal_status(counts))
        <3>1. \A s \in Settled : counts[s] <= Cardinality(Having(s))
          BY <2>0, CountsBound DEF BatchInv
        <3>2. QED BY <1>0, <3>1, ResolveTruthful DEF BatchInv, TypeOK
      <2>2. WatchdogStatus \in {resolve_terminal_status(counts), "running", "abandoned"}
        BY <1>0 DEF WatchdogStatus, TypeOK
      <2>3. WatchdogStatus \in Written /\ Truthful(WatchdogStatus)
        BY <2>1, <2>2 DEF Written, Terminal, Truthful
      <2>4. TypeOK'
        BY <1>0, <1>1, <2>3 DEF TypeOK, WatchdogSelect, batch, jobRows
      <2>5. WatchdogClaim'
        <3>1. wd'.to = WatchdogStatus
          BY <2>0
        <3>2. QED BY <2>0, <2>3, <3>1 DEF WatchdogClaim, Truthful, Having
      <2>6. QED
        BY <1>1, <2>4, <2>5, QuietStep DEF WatchdogSelect, batch, jobRows, BatchInv
    <1>2. CASE WatchdogFlush
      <2>1. wd.pc = "flush" /\ Flush(wd.to) /\ wd' = Idle
        BY <1>2 DEF WatchdogFlush
      <2>2. wd.to \in Written /\ Truthful(wd.to)
        BY <1>0, <2>1 DEF BatchInv, WatchdogClaim, TypeOK, Idle
      <2>3. TypeOK'
        BY <1>0, <1>2, <2>1, <2>2, FlushType DEF TypeOK, WatchdogFlush, jobRows
      <2>4. QED
        BY <1>2, <2>1, <2>2, <2>3, FlushKeeps DEF WatchdogFlush, jobRows
    <1>3. CASE WatchdogRaises
      <2>1. TypeOK'
        BY <1>0, <1>3 DEF TypeOK, WatchdogRaises, batch, jobRows
      <2>2. QED
        BY <1>3, <2>1, QuietStep DEF WatchdogRaises, batch, jobRows, BatchInv, Idle
    <1>4. QED BY <1>1, <1>2, <1>3 DEF Watchdog

-----------------------------------------------------------------------------
(* Deletions, crashes and what no counter sees                              *)

LEMMA DeleteKeeps ==
    ASSUME BatchInv,
           \/ \E keep \in BOOLEAN : DeleteLoad(keep)
           \/ DeleteBatch
    PROVE  BatchInv'
    <1>0. TypeOK
      BY DEF BatchInv
    <1>1. TypeOK'
      <2>1. ASSUME NEW keep \in BOOLEAN, DeleteLoad(keep) PROVE TypeOK'
        BY <1>0, <2>1 DEF TypeOK, DeleteLoad, batch, jobRows
      <2>2. CASE DeleteKeeping \/ DropCommit
        BY <1>0, <2>2 DEF TypeOK, DeleteKeeping, DropCommit, jobRows
      <2>3. CASE DeleteDropping
        BY <1>0, <2>3 DEF TypeOK, DeleteDropping, batch, jobRows
      <2>4. ASSUME NEW j \in Jobs, DropJob(j) PROVE TypeOK'
        <3>1. del \in [pc : {"dropping"}, left : SUBSET Jobs]
          BY <1>0, <2>4 DEF TypeOK, DropJob, Idle
        <3>2. del' \in [pc : {"dropping"}, left : SUBSET Jobs]
          BY <2>4, <3>1 DEF DropJob
        <3>3. QED BY <1>0, <2>4, <3>2 DEF TypeOK, DropJob, batch, jobRows
      <2>5. QED BY <2>1, <2>2, <2>3, <2>4 DEF DeleteBatch
    <1>2. /\ job' = job /\ submitted' = submitted /\ counts' = counts
          /\ pending' = pending /\ lost' = lost /\ fin' = fin /\ wd' = wd
          /\ bstatus' \in {bstatus, "gone"}
      BY DEF DeleteBatch, DeleteLoad, DeleteKeeping, DeleteDropping, DropJob,
             DropCommit, batch, jobRows
    <1>3. QED BY <1>1, <1>2, QuietStep DEF BatchInv

LEMMA RestKeeps ==
    ASSUME BatchInv,
           \/ \E j \in Jobs : DeleteJob(j) \/ FanInRaises(j)
           \/ Quieten \/ CancelList \/ Crash \/ UNCHANGED vars
    PROVE  BatchInv'
    <1>0. TypeOK
      BY DEF BatchInv
    <1>1. CASE \/ \E j \in Jobs : DeleteJob(j) \/ FanInRaises(j)
               \/ CancelList \/ UNCHANGED vars
      <2>1. TypeOK'
        BY <1>0, <1>1 DEF TypeOK, DeleteJob, FanInRaises, CancelList,
                          vars, batch, jobRows, handlers
      <2>2. QED
        BY <1>1, <2>1, QuietStep
        DEF DeleteJob, FanInRaises, CancelList, vars, batch, jobRows, handlers,
            BatchInv
    <1>2. CASE Quieten
      <2>1. quiet' \in BOOLEAN
        BY <1>2, Zenon DEF Quieten
      <2>2. TypeOK'
        BY <1>0, <1>2, <2>1 DEF TypeOK, Quieten, batch, jobRows, handlers
      <2>3. QED
        BY <1>2, <2>2, QuietStep DEF Quieten, batch, jobRows, handlers, BatchInv
    <1>3. CASE Crash
      <2>1. TypeOK'
        BY <1>0, <1>3 DEF TypeOK, Crash, batch, jobRows
      <2>2. \A c \in Clients : fin'[c].pc \notin {"count", "flush"}
        BY <1>3 DEF Crash, Idle
      <2>3. QED
        BY <1>3, <2>1, <2>2, QuietStep DEF Crash, batch, jobRows, BatchInv, Idle
    <1>4. QED BY <1>1, <1>2, <1>3

LEMMA BatchStep == BatchInv /\ [Next]_vars => BatchInv'
    BY BindKeeps, JobKeeps, FanInKeeps, FinalizeKeeps, WatchdogKeeps,
       DeleteKeeps, RestKeeps DEF Next, FanIn

LEMMA BatchInit == Init => BatchInv
    <1> SUFFICES ASSUME Init PROVE BatchInv
      OBVIOUS
    <1>1. TypeOK
      <2>1. finalized \in BOOLEAN /\ quiet \in BOOLEAN
        BY Zenon DEF Init
      <2>2. QED BY <2>1, BatchGraph DEF Init, TypeOK, NonTerminal
    <1>2. SlotPerJob
      <2>1. {j \in Jobs : job[j] # NONE} = {}
        BY DEF Init
      <2>2. QED BY <2>1, FS_EmptySet DEF Init, SlotPerJob, Bound
    <1>3. CountsAreExact
      <2>1. \A s \in Settled :
               {j \in Jobs \ (pending \cup lost) : job[j] = s} = {}
        BY BatchGraph DEF Init
      <2>2. QED BY <2>1, FS_EmptySet DEF Init, CountsAreExact
    <1>4. QED
      BY <1>1, <1>2, <1>3
      DEF Init, BatchInv, Truthful, FinalizeClaim, WatchdogClaim, Idle

LEMMA BatchAlways == Spec => []BatchInv
    BY BatchInit, BatchStep, PTL DEF Spec

-----------------------------------------------------------------------------
(* What the counters say together, and what a written "cancelled" says of   *)
(* the jobs that no finalize_submission overlooked.                         *)

AllEndedWell == \A j \in Jobs : job[j] \in {NONE, SUCCEEDED, CANCELLED}

NoneFailed == \A j \in Jobs \ late : job[j] \in {NONE, SUCCEEDED, CANCELLED}

CleanInv ==
    /\ finalized => bstatus # "submitting"
    /\ bstatus = "cancelled" => NoneFailed
    /\ \A c \in Clients :
          /\ /\ fin[c].pc = "count"
             /\ Ended(fin[c].counts) = fin[c].submitted
             /\ fin[c].counts[FAILED] = 0
             => NoneFailed
          /\ fin[c].pc = "flush" /\ fin[c].to = "cancelled" => NoneFailed
    /\ wd.pc = "flush" /\ wd.to = "cancelled" => AllEndedWell /\ submitted = Total

(* The outcomes counted are those of different bound jobs, so that when all *)
(* slots have ended, every bound job was counted.                           *)
EndedTogether ==
    /\ Ended(counts) <= submitted
    /\ Ended(counts) = submitted /\ counts[FAILED] = 0 => AllEndedWell

LEMMA EndedBound == BatchInv /\ bstatus # "gone" => EndedTogether
    <1> SUFFICES ASSUME BatchInv, bstatus # "gone" PROVE EndedTogether
      OBVIOUS
    <1> DEFINE S == Fanned(SUCCEEDED)
               F == Fanned(FAILED)
               C == Fanned(CANCELLED)
    <1>0. TypeOK /\ {SUCCEEDED, FAILED, CANCELLED} = Settled
      BY BatchGraph DEF BatchInv
    <1>1. /\ counts[SUCCEEDED] = Cardinality(S)
          /\ counts[FAILED] = Cardinality(F)
          /\ counts[CANCELLED] = Cardinality(C)
      BY <1>0 DEF BatchInv, CountsAreExact, Fanned
    <1>2. /\ IsFiniteSet(S) /\ IsFiniteSet(F) /\ IsFiniteSet(C)
          /\ Cardinality(S) \in Nat /\ Cardinality(F) \in Nat /\ Cardinality(C) \in Nat
          /\ IsFiniteSet(Bound) /\ Cardinality(Bound) \in Nat
      BY SetsAreFinite
    <1>3. S \cap F = {} /\ (S \cup F) \cap C = {}
      BY BatchGraph DEF Fanned
    <1>4. (S \cup F) \cup C \in SUBSET Bound
      BY BatchGraph DEF Fanned, Bound
    <1> HIDE DEF S, F, C
    <1>5. Cardinality({}) = 0
      BY FS_EmptySet
    <1>6. IsFiniteSet(S \cup F)
          /\ Cardinality(S \cup F) = Cardinality(S) + Cardinality(F)
      <2>1. Cardinality(S \cup F)
               = Cardinality(S) + Cardinality(F) - Cardinality(S \cap F)
        BY <1>2, FS_Union
      <2>2. IsFiniteSet(S \cup F)
        BY <1>2, FS_Union
      <2>3. Cardinality(S \cap F) = 0
        BY <1>3, <1>5
      <2>4. QED BY <1>2, <2>1, <2>2, <2>3
    <1>7. Cardinality((S \cup F) \cup C)
             = Cardinality(S) + Cardinality(F) + Cardinality(C)
      <2>1. Cardinality((S \cup F) \cup C)
               = Cardinality(S \cup F) + Cardinality(C)
                 - Cardinality((S \cup F) \cap C)
        BY <1>2, <1>6, FS_Union
      <2>2. Cardinality((S \cup F) \cap C) = 0
        BY <1>3, <1>5
      <2>3. QED BY <2>1, <2>2, <1>2, <1>6
    <1>8. Ended(counts) = Cardinality((S \cup F) \cup C)
      <2>1. Ended(counts) = Cardinality(S) + Cardinality(F) + Cardinality(C)
        BY <1>1, <1>2 DEF Ended
      <2>2. QED BY <1>7, <2>1
    <1>9. submitted = Cardinality(Bound)
      BY DEF BatchInv, SlotPerJob
    <1>10. Ended(counts) <= submitted
      BY <1>2, <1>4, <1>8, <1>9, FS_Subset
    <1>11. ASSUME Ended(counts) = submitted, counts[FAILED] = 0
           PROVE  AllEndedWell
      <2>1. (S \cup F) \cup C = Bound
        BY <1>2, <1>4, <1>8, <1>9, <1>11, FS_Subset
      <2>2. F = {}
        BY <1>1, <1>2, <1>11, FS_EmptySet
      <2>3. \A j \in Bound : job[j] \in {SUCCEEDED, CANCELLED}
        BY <2>1, <2>2 DEF S, C, Fanned
      <2>4. QED BY <2>3 DEF AllEndedWell, Bound
    <1>12. QED BY <1>10, <1>11 DEF EndedTogether

LEMMA EndedBoundNext == (BatchInv /\ bstatus # "gone" => EndedTogether)'
    BY EndedBound, PTL

LEMMA SlotsFollow ==
    ASSUME BatchInv, CleanInv
    PROVE  SlotsMatchJobs /\ OutcomeIsTruthful
    <1>1. submitted <= Total /\ submitted = Cardinality({j \in Jobs : job[j] # NONE})
      BY DEF BatchInv, TypeOK, SlotPerJob, Bound
    <1>2. SlotsMatchJobs
      BY <1>1, EndedBound DEF SlotsMatchJobs, CleanInv, EndedTogether
    <1>3. bstatus = "cancelled" => \A j \in Jobs \ late : job[j] # FAILED
      <2>1. FAILED \notin {NONE, SUCCEEDED, CANCELLED}
        BY BatchGraph
      <2>2. QED BY <2>1 DEF CleanInv, NoneFailed
    <1>4. OutcomeIsTruthful
      BY <1>3 DEF BatchInv, Truthful, Having, OutcomeIsTruthful
    <1>5. QED BY <1>2, <1>4

(* A status is chosen "cancelled" only from counters without a failure.     *)
LEMMA ResolveClean ==
    ASSUME NEW c \in [Settled -> Nat], resolve_terminal_status(c) = "cancelled"
    PROVE  c[FAILED] = 0
    <1>1. /\ c[SUCCEEDED] \in Nat /\ c[FAILED] \in Nat /\ c[CANCELLED] \in Nat
      BY BatchGraph
    <1>2. CASE c[FAILED] > 0
      BY <1>1, <1>2 DEF resolve_terminal_status
    <1>3. QED BY <1>1, <1>2

LEMMA CleanKept ==
    ASSUME CleanInv, NoneFailed => NoneFailed', AllEndedWell => AllEndedWell',
           submitted' = submitted,
           \A c \in Clients : fin'[c] = fin[c] \/ fin'[c] = Idle,
           wd' = wd \/ wd' = Idle,
           \/ bstatus' = bstatus /\ finalized' = finalized
           \/ bstatus' = "gone"
    PROVE  CleanInv'
    BY DEF CleanInv, Idle

LEMMA BindIsClean ==
    ASSUME BatchInv, CleanInv, NEW j \in Jobs, Bind(j)
    PROVE  CleanInv'
    <1>0. TypeOK /\ submitted \in Nat
      BY DEF BatchInv, TypeOK
    <1>1. /\ bstatus = "submitting" /\ submitted < Total
          /\ bstatus' = bstatus /\ finalized' = finalized
          /\ fin' = fin /\ wd' = wd /\ job' = [job EXCEPT ![j] = QUEUED]
          /\ late' = IF UnderWay(Clients) THEN late \cup {j} ELSE late
      BY DEF Bind, Claims, handlers
    <1>2. UnderWay(Clients) /\ NoneFailed => NoneFailed'
      BY <1>0, <1>1 DEF NoneFailed, TypeOK
    <1>3. ~(wd.pc = "flush" /\ wd.to = "cancelled")
      BY <1>0, <1>1, TotalAssumption DEF CleanInv
    <1>4. ~UnderWay(Clients) => \A c \in Clients : fin'[c] = Idle
      BY <1>1 DEF UnderWay
    <1>5. CASE UnderWay(Clients)
      BY <1>1, <1>2, <1>3, <1>5 DEF CleanInv
    <1>6. CASE ~UnderWay(Clients)
      BY <1>1, <1>3, <1>4, <1>6 DEF CleanInv, Idle
    <1>7. QED BY <1>5, <1>6

LEMMA FanInIsClean ==
    ASSUME BatchInv, BatchInv', CleanInv, NEW j \in Jobs, on_job_terminal(j)
    PROVE  CleanInv'
    <1>1. /\ job' = job /\ late' = late /\ fin' = fin /\ wd' = wd
          /\ submitted' = submitted
      BY DEF on_job_terminal, batch, jobRows, handlers
    <1>2. (NoneFailed => NoneFailed') /\ (AllEndedWell => AllEndedWell')
      BY <1>1 DEF NoneFailed, AllEndedWell
    <1>3. CASE bstatus' = bstatus /\ finalized' = finalized
      BY <1>1, <1>2, <1>3, CleanKept
    <1>4. CASE /\ bstatus # "gone" /\ Ended(counts') = Total /\ submitted = Total
               /\ bstatus' = resolve_terminal_status(counts')
      <2>1. counts' \in [Settled -> Nat]
        BY DEF BatchInv, TypeOK
      <2>2. bstatus' # "submitting" /\ bstatus' # "gone"
        <3>1. \A s \in {SUCCEEDED, FAILED, CANCELLED} : counts'[s] \in Nat
          BY <2>1, BatchGraph
        <3>2. QED BY <1>4, <3>1 DEF resolve_terminal_status
      <2>3. bstatus' = "cancelled" => counts'[FAILED] = 0
        BY <1>4, <2>1, ResolveClean
      <2>4. bstatus' = "cancelled" => NoneFailed'
        BY <1>1, <1>4, <2>2, <2>3, EndedBoundNext
        DEF EndedTogether, AllEndedWell, NoneFailed
      <2>5. QED BY <1>1, <1>2, <2>2, <2>4 DEF CleanInv
    <1>5. QED BY <1>3, <1>4 DEF on_job_terminal, batch

LEMMA FinalizeIsClean ==
    ASSUME BatchInv, CleanInv, NEW c \in Clients, FinalizeLoad(c) \/ Finalize(c)
    PROVE  CleanInv'
    <1>0. TypeOK /\ (bstatus # "gone" => EndedTogether)
      BY EndedBound DEF BatchInv
    <1>1. /\ job' = job /\ submitted' = submitted /\ wd' = wd
          /\ AllEndedWell => AllEndedWell'
      BY DEF AllEndedWell, FinalizeLoad, Finalize, FinalizeCount, FinalizeFlush,
             FinalizeRaises, Flush, batch, jobRows
    <1>2. \A d \in Clients : d # c => fin'[d] = fin[d]
      BY <1>0 DEF TypeOK, FinalizeLoad, Finalize, FinalizeCount, FinalizeFlush,
                  FinalizeRaises
    <1>3. CASE FinalizeLoad(c)
      <2>1. /\ fin'[c] = [pc |-> "count", submitted |-> submitted, counts |-> counts]
            /\ bstatus = "submitting" /\ late' = late
            /\ bstatus' = bstatus /\ finalized' = finalized
        BY <1>0, <1>3 DEF TypeOK, FinalizeLoad, batch
      <2>2. NoneFailed => NoneFailed'
        BY <1>1, <2>1 DEF NoneFailed
      <2>3. Ended(counts) = submitted /\ counts[FAILED] = 0 => NoneFailed'
        BY <1>0, <1>1, <2>1 DEF EndedTogether, AllEndedWell, NoneFailed
      <2>4. QED BY <1>1, <1>2, <2>1, <2>2, <2>3 DEF CleanInv
    <1>4. CASE FinalizeCount(c)
      <2>1. /\ fin[c].pc = "count" /\ late' = late
            /\ fin'[c] = [pc |-> "flush", to |-> FinalStatus(fin[c], InFlight)]
            /\ bstatus' = bstatus /\ finalized' = finalized
        BY <1>0, <1>4 DEF TypeOK, FinalizeCount, batch
      <2>2. NoneFailed => NoneFailed'
        BY <1>1, <2>1 DEF NoneFailed
      <2>3. fin[c].counts \in [Settled -> Nat]
        BY <1>0, <2>1 DEF TypeOK, Idle
      <2>4. ASSUME FinalStatus(fin[c], InFlight) = "cancelled"
            PROVE  NoneFailed'
        <3>1. /\ Ended(fin[c].counts) = fin[c].submitted
              /\ resolve_terminal_status(fin[c].counts) = "cancelled"
          BY <2>4 DEF FinalStatus
        <3>2. fin[c].counts[FAILED] = 0
          BY <2>3, <3>1, ResolveClean
        <3>3. QED BY <2>1, <2>2, <3>1, <3>2 DEF CleanInv
      <2>5. QED BY <1>1, <1>2, <2>1, <2>2, <2>4 DEF CleanInv
    <1>5. CASE FinalizeFlush(c)
      <2>1. /\ fin[c].pc = "flush" /\ fin'[c] = Idle /\ Flush(fin[c].to)
            /\ late' = IF fin[c].to = "cancelled" \/ UnderWay(Clients \ {c})
                       THEN late ELSE {}
        BY <1>0, <1>5 DEF TypeOK, FinalizeFlush
      <2>2. fin[c].to \in Written
        BY <1>0, <2>1 DEF TypeOK, Idle
      <2>3. /\ bstatus' \in {fin[c].to, "gone"}
            /\ finalized' => bstatus' # "submitting"
        BY <2>1, <2>2 DEF Flush, Written, Terminal
      <2>4. late' = late => (NoneFailed => NoneFailed')
        BY <1>1 DEF NoneFailed
      <2>5. CASE fin[c].to = "cancelled" \/ UnderWay(Clients \ {c})
        <3>1. bstatus' = "cancelled" => NoneFailed'
          BY <2>1, <2>3, <2>4, <2>5 DEF CleanInv
        <3>2. QED
          BY <1>1, <1>2, <2>1, <2>3, <2>4, <2>5, <3>1 DEF CleanInv, Idle
      <2>6. CASE ~(fin[c].to = "cancelled" \/ UnderWay(Clients \ {c}))
        <3>1. \A d \in Clients : fin'[d] = Idle
          BY <1>2, <2>1, <2>6 DEF UnderWay
        <3>2. bstatus' # "cancelled"
          BY <2>3, <2>6
        <3>3. QED BY <1>1, <2>3, <3>1, <3>2 DEF CleanInv, Idle
      <2>7. QED BY <2>5, <2>6
    <1>6. CASE FinalizeRaises(c)
      <2>1. /\ late' = late /\ bstatus' = bstatus /\ finalized' = finalized
            /\ fin'[c] = Idle
        BY <1>0, <1>6 DEF TypeOK, FinalizeRaises, batch
      <2>2. NoneFailed => NoneFailed'
        BY <1>1, <2>1 DEF NoneFailed
      <2>3. QED BY <1>1, <1>2, <2>1, <2>2, CleanKept
    <1>7. QED BY <1>3, <1>4, <1>5, <1>6 DEF Finalize

LEMMA WatchdogIsClean ==
    ASSUME BatchInv, CleanInv, Watchdog
    PROVE  CleanInv'
    <1>0. TypeOK /\ (bstatus # "gone" => EndedTogether)
      BY EndedBound DEF BatchInv
    <1>1. /\ job' = job /\ submitted' = submitted /\ fin' = fin /\ late' = late
          /\ AllEndedWell => AllEndedWell'
          /\ NoneFailed => NoneFailed'
      BY DEF AllEndedWell, NoneFailed, Watchdog, WatchdogSelect, WatchdogFlush,
             WatchdogRaises, Flush, batch, jobRows
    <1>2. CASE WatchdogSelect
      <2>1. /\ wd' = [pc |-> "flush", to |-> WatchdogStatus]
            /\ bstatus = "submitting" /\ bstatus' = bstatus /\ finalized' = finalized
        BY <1>2 DEF WatchdogSelect, batch
      <2>2. ASSUME WatchdogStatus = "cancelled"
            PROVE  AllEndedWell /\ submitted = Total
        <3>1. /\ submitted \in Nat /\ submitted <= Total
              /\ counts \in [Settled -> Nat]
          BY <1>0 DEF TypeOK
        <3>2. /\ submitted >= Total /\ Ended(counts) = Total
              /\ resolve_terminal_status(counts) = "cancelled"
          BY <2>2, <3>1 DEF WatchdogStatus
        <3>3. counts[FAILED] = 0
          BY <3>1, <3>2, ResolveClean
        <3>4. QED BY <1>0, <2>1, <3>1, <3>2, <3>3 DEF EndedTogether
      <2>3. QED BY <1>1, <2>1, <2>2 DEF CleanInv
    <1>3. CASE WatchdogFlush
      <2>1. wd.pc = "flush" /\ wd' = Idle /\ Flush(wd.to)
        BY <1>3 DEF WatchdogFlush
      <2>2. wd.to \in Written
        BY <1>0, <2>1 DEF TypeOK, Idle
      <2>3. /\ bstatus' \in {wd.to, "gone"}
            /\ finalized' => bstatus' # "submitting"
        BY <2>1, <2>2 DEF Flush, Written, Terminal
      <2>4. bstatus' = "cancelled" => NoneFailed'
        BY <1>1, <2>1, <2>3 DEF CleanInv, AllEndedWell, NoneFailed
      <2>5. QED BY <1>1, <2>1, <2>3, <2>4 DEF CleanInv, Idle
    <1>4. CASE WatchdogRaises
      BY <1>1, <1>4, CleanKept DEF WatchdogRaises, batch
    <1>5. QED BY <1>2, <1>3, <1>4 DEF Watchdog

(* A job that has ended stays as it is: the other steps break no claim.     *)
LEMMA RestIsClean ==
    ASSUME BatchInv, CleanInv,
           \/ \E j \in Jobs : \/ Advance(j) \/ CancelNext(j) \/ DeleteJob(j)
                             \/ FanInRaises(j)
           \/ Quieten \/ CancelList \/ DeleteBatch \/ Crash \/ UNCHANGED vars
           \/ \E keep \in BOOLEAN : DeleteLoad(keep)
    PROVE  CleanInv'
    <1>0. TypeOK
      BY DEF BatchInv
    <1>1. /\ submitted' = submitted /\ late' = late
          /\ \/ bstatus' = bstatus /\ finalized' = finalized
             \/ bstatus' = "gone"
          /\ \A c \in Clients : fin'[c] = fin[c] \/ fin'[c] = Idle
          /\ wd' = wd \/ wd' = Idle
      BY DEF Advance, CancelNext, DeleteJob, FanInRaises, Quieten, CancelList,
             DeleteBatch, DeleteKeeping, DeleteDropping, DropJob, DropCommit,
             DeleteLoad, Crash, vars, batch, handlers
    <1>2. \A j \in Jobs :
             job[j] \in {NONE, SUCCEEDED, CANCELLED} => job'[j] = job[j]
      <2>1. ASSUME NEW i \in Jobs, NEW j \in Jobs, Advance(i) \/ CancelNext(i),
                   job[j] \in {NONE, SUCCEEDED, CANCELLED}
            PROVE  job'[j] = job[j]
        <3>1. CASE job' = job
          BY <3>1
        <3>2. ASSUME NEW to \in Statuses, Move(i, to), job[i] \in {QUEUED, RUNNING}
              PROVE  job'[j] = job[j]
          BY <1>0, <2>1, <3>2, BatchGraph DEF Move, TypeOK
        <3>3. CASE Advance(i)
          BY <3>2, <3>3 DEF Advance
        <3>4. CASE CancelNext(i) /\ Move(i, CANCELLED)
          <4>1. CANCELLED \in Statuses /\ job[i] \in Statuses
            BY <1>0, BatchGraph DEF TypeOK
          <4>2. job[i] \in {QUEUED, RUNNING}
            BY <3>4, <4>1, BatchGraph DEF Move
          <4>3. QED BY <3>2, <3>4, <4>1, <4>2
        <3>5. QED BY <2>1, <3>1, <3>3, <3>4 DEF CancelNext
      <2>2. CASE job' = job
        BY <2>2
      <2>3. QED
        BY <2>1, <2>2
        DEF DeleteJob, FanInRaises, Quieten, CancelList, DeleteBatch,
            DeleteKeeping, DeleteDropping, DropJob, DropCommit, DeleteLoad,
            Crash, vars, jobRows
    <1>3. (NoneFailed => NoneFailed') /\ (AllEndedWell => AllEndedWell')
      BY <1>1, <1>2 DEF NoneFailed, AllEndedWell
    <1>4. QED BY <1>1, <1>3, CleanKept

LEMMA CleanStep == BatchInv /\ CleanInv /\ [Next]_vars => CleanInv'
    BY BatchStep, BindIsClean, FanInIsClean, FinalizeIsClean, WatchdogIsClean,
       RestIsClean DEF Next, FanIn

LEMMA CleanInit == Init => CleanInv
    BY DEF Init, CleanInv, Idle

LEMMA CleanAlways == Spec => []CleanInv
    BY BatchAlways, CleanInit, CleanStep, PTL DEF Spec

-----------------------------------------------------------------------------
(* Every reachable state of a batch is well-typed.                          *)
THEOREM TypeCorrect == Spec => []TypeOK
    <1>1. BatchInv => TypeOK
      BY DEF BatchInv
    <1>2. QED BY <1>1, BatchAlways, PTL

(* However the POSTs of a set, the fan-ins, the finalizers and the watchdog *)
(* interleave, one slot is taken per bound job and never more than the      *)
(* total, no more outcomes are counted than slots were taken, and a batch   *)
(* that was finalized never takes submissions again.                        *)
THEOREM SlotsExact == Spec => []SlotsMatchJobs
    <1>1. BatchInv /\ CleanInv => SlotsMatchJobs
      BY SlotsFollow
    <1>2. QED BY <1>1, BatchAlways, CleanAlways, PTL

(* A settled job is counted once, under its own outcome, unless its fan-in  *)
(* is pending or lost.                                                      *)
THEOREM CountsExact == Spec => []CountsAreExact
    <1>1. BatchInv => CountsAreExact
      BY DEF BatchInv
    <1>2. QED BY <1>1, BatchAlways, PTL

(* No stale status write makes a batch claim an outcome its jobs do not     *)
(* have: all succeeded when it reads "completed"; one cancelled and none    *)
(* failed, but for jobs bound behind the back of finalize_submission, when  *)
(* it reads "cancelled".                                                    *)
THEOREM OutcomeTruthful == Spec => []OutcomeIsTruthful
    <1>1. BatchInv /\ CleanInv => OutcomeIsTruthful
      BY SlotsFollow
    <1>2. QED BY <1>1, BatchAlways, CleanAlways, PTL

=============================================================================
