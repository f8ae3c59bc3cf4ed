------------------------- MODULE JobPipelineProofs -------------------------
(***************************************************************************)
(* Theorems about JobPipeline, for any number of jobs, requests and stops: *)
(* types, debit, contract and refund of a row, then the scheduler's limits *)
(* and that it forgets no job.                                             *)
(***************************************************************************)
EXTENDS JobPipeline, FiniteSetTheorems, TLAPS

USE JobsAssumption, ActorsAssumption, LimitsAssumption

(* The facts about the status graph that the proofs below rest on.         *)
LEMMA StatusGraph ==
    /\ Over \subseteq Statuses /\ Settled \subseteq Over
    /\ {QUEUED, RUNNING} \subseteq Statuses
    /\ {NONE, QUEUED, RUNNING} \cap Over = {}
    /\ {SUCCEEDED, FAILED, CANCELLED, DELETED} = Over
    /\ NONE # QUEUED /\ NONE # RUNNING /\ QUEUED # RUNNING
    /\ CANCELLED # SUCCEEDED /\ FAILED # SUCCEEDED /\ DELETED # SUCCEEDED
    /\ Allowed[NONE] = {QUEUED}
    /\ RUNNING \in Allowed[QUEUED]
    /\ \A s \in Statuses :
          /\ Allowed[s] \subseteq Statuses
          /\ {CANCELLED, FAILED} \cap Allowed[s] # {} => s \in {QUEUED, RUNNING}
    BY DEF Over, Settled, Statuses, Allowed, NONE, QUEUED, RUNNING, SUCCEEDED,
           FAILED, CANCELLED, DELETED

-----------------------------------------------------------------------------
(* What the shared pieces of the actions do to tx and worker.              *)

LEMMA TxForType ==
    ASSUME TypeOK, NEW a \in Actors, NEW j \in Jobs, NEW to \in Over,
           NEW pc \in {"remove", "read"}, NEW policy \in {"never", "won", "always"},
           tx' = [tx EXCEPT ![a] = TxFor(pc, j, to, policy)]
    PROVE  tx' \in [Actors -> Transitions \cup {Idle}]
    <1>1. TxFor(pc, j, to, policy) \in Transitions
      BY StatusGraph DEF TxFor, Transitions, Statuses
    <1>2. QED BY <1>1 DEF TypeOK

LEMMA ConcludeType ==
    ASSUME TypeOK, NEW a \in Actors, NEW won, tx[a] \in Transitions,
           Conclude(a, won)
    PROVE  /\ tx' \in [Actors -> Transitions \cup {Idle}]
           /\ worker' \in [Jobs -> WorkerPcs]
           /\ sweep' \subseteq Jobs
    <1>1. CASE tx' = [tx EXCEPT ![a].pc = "refund"] /\ UNCHANGED <<worker, sweep>>
      BY <1>1 DEF TypeOK, Transitions
    <1>2. CASE Finish(a)
      BY <1>2 DEF TypeOK, Finish, WorkerPcs
    <1>3. QED BY <1>1, <1>2 DEF Conclude

LEMMA BusyIsTransition ==
    ASSUME TypeOK, NEW a \in Actors, tx[a].pc # "none"
    PROVE  tx[a] \in Transitions
    BY DEF TypeOK, Idle

LEMMA GoDownType ==
    ASSUME TypeOK, GoDown, stops' \in 0 .. MaxStops
    PROVE  TypeOK'
    BY DEF TypeOK, GoDown, rows, WorkerPcs


-----------------------------------------------------------------------------
(* Type correctness.                                                        *)

LEMMA TransitionType ==
    ASSUME TypeOK, NEW a \in Actors, Transition(a)
    PROVE  TypeOK'
    <1> DEFINE B == tx[a].job
    <1>1. tx[a] \in Transitions /\ B \in Jobs
      <2>1. tx[a].pc # "none"
        BY DEF Transition, Read, Cas, Refund, TxRaises
      <2>2. QED BY <2>1, BusyIsTransition DEF Transitions
    <1>2. CASE Read(a)
      <2>1. CASE Conclude(a, FALSE)
        BY <1>1, <1>2, <2>1, ConcludeType DEF TypeOK, Read, rows, loop
      <2> DEFINE t == [tx[a] EXCEPT !.pc = "cas", !.from = status[B]]
      <2>2. CASE tx' = [tx EXCEPT ![a] = t] /\ UNCHANGED <<worker, sweep>>
        <3>1. t \in Transitions
          BY <1>1 DEF TypeOK, Transitions
        <3> HIDE DEF t
        <3>2. tx' \in [Actors -> Transitions \cup {Idle}]
          BY <2>2, <3>1 DEF TypeOK
        <3>3. QED BY <1>2, <2>2, <3>2 DEF TypeOK, Read, rows, loop
      <2>3. QED BY <1>2, <2>1, <2>2 DEF Read
    <1>3. CASE Cas(a)
      <2>1. status' \in [Jobs -> Statuses]
        <3>1. tx[a].to \in Statuses
          BY <1>1, StatusGraph DEF Transitions
        <3>2. QED BY <1>1, <1>3, <3>1 DEF Cas, TypeOK
      <2>2. \E won \in BOOLEAN : Conclude(a, won)
        BY <1>3 DEF Cas
      <2>3. QED BY <1>1, <1>3, <2>1, <2>2, ConcludeType DEF TypeOK, Cas, loop
    <1>4. CASE Refund(a)
      <2>1. counted' \in [Jobs -> Int]
        BY <1>1, <1>4 DEF Refund, TypeOK
      <2>2. QED BY <1>4, <2>1 DEF Refund, Finish, TypeOK, WorkerPcs, loop
    <1>5. CASE TxRaises(a)
      <2>1. CASE Conclude(a, FALSE)
        BY <1>1, <1>5, <2>1, ConcludeType DEF TypeOK, TxRaises, rows, loop
      <2>2. CASE Finish(a)
        BY <1>5, <2>2 DEF TxRaises, Finish, TypeOK, WorkerPcs, rows, loop
      <2>3. QED BY <1>5, <2>1, <2>2 DEF TxRaises
    <1>6. QED BY <1>2, <1>3, <1>4, <1>5 DEF Transition

LEMMA CreateType ==
    ASSUME TypeOK, NEW j \in Jobs,
           Charge(j) \/ InsertUncharged(j) \/ CreateStep(j)
    PROVE  TypeOK'
    <1>1. counted' \in [Jobs -> Int]
      <2>1. CASE Charge(j) BY <2>1 DEF TypeOK, Charge
      <2>2. CASE InsertFails(j) BY <2>2 DEF TypeOK, InsertFails
      <2>3. CASE InsertUncharged(j) \/ Insert(j) \/ Enqueue(j)
        BY <2>3 DEF TypeOK, InsertUncharged, Insert, Enqueue, rows
      <2>4. QED BY <2>1, <2>2, <2>3 DEF CreateStep
    <1>2. status' \in [Jobs -> Statuses]
      BY StatusGraph DEF TypeOK, CreateStep, Charge, InsertUncharged, Insert,
                           InsertFails, Enqueue, rows
    <1>3. QED
      BY <1>1, <1>2 DEF TypeOK, CreateStep, Charge, InsertUncharged, Insert,
                        InsertFails, Enqueue, rows, loop

LEMMA RequestType ==
    ASSUME TypeOK, NEW r \in Requests,
           \/ Remove(r)
           \/ \E j \in Jobs : Cancel(r, j) \/ CancelInBatch(r, j) \/ Delete(r, j)
    PROVE  TypeOK'
    <1>0. r \in Actors BY DEF Actors
    <1>1. CASE Remove(r)
      <2>1. tx[r] \in Transitions
        BY <1>0, <1>1, BusyIsTransition DEF Remove
      <2> DEFINE t == [tx[r] EXCEPT !.pc = "read"]
      <2>2. t \in Transitions
        BY <2>1 DEF Transitions
      <2>3. tx' = [tx EXCEPT ![r] = t]
        BY <1>1 DEF Remove
      <2> HIDE DEF t
      <2>4. tx' \in [Actors -> Transitions \cup {Idle}]
        BY <1>0, <2>2, <2>3 DEF TypeOK
      <2>5. QED BY <1>1, <2>4 DEF Remove, TypeOK, rows
    <1>2. CASE \E j \in Jobs : Cancel(r, j) \/ CancelInBatch(r, j) \/ Delete(r, j)
      <2> PICK j \in Jobs : Cancel(r, j) \/ CancelInBatch(r, j) \/ Delete(r, j)
        BY <1>2
      <2>1. \E pc \in {"remove", "read"}, to \in Over,
               policy \in {"never", "won", "always"} :
               tx' = [tx EXCEPT ![r] = TxFor(pc, j, to, policy)]
        BY StatusGraph DEF Cancel, CancelInBatch, Delete
      <2>2. tx' \in [Actors -> Transitions \cup {Idle}]
        BY <1>0, <2>1, TxForType
      <2>3. QED
        BY <2>2 DEF TypeOK, Cancel, CancelInBatch, Delete, rows, loop
    <1>3. QED BY <1>1, <1>2

LEMMA SchedulerType ==
    ASSUME TypeOK,
           \/ PopBegin \/ Requeue \/ PromoteRaises \/ StopSeen
           \/ \E j \in Jobs : \/ Dispatch(j) \/ PopBlocked(j)
                              \/ Prune(j) \/ TaskDone(j)
    PROVE  TypeOK'
    <1>1. CASE PopBegin \/ Requeue \/ PromoteRaises \/ StopSeen
      BY <1>1 DEF TypeOK, PopBegin, Requeue, PromoteRaises, StopSeen, rows
    <1>2. ASSUME NEW j \in Jobs, Dispatch(j) \/ PopBlocked(j)
          PROVE  TypeOK'
      <2>1. slots' \in [Users -> Nat]
        BY <1>2 DEF TypeOK, Dispatch, PopBlocked
      <2>2. QED
        BY <1>2, <2>1 DEF TypeOK, Dispatch, PopBlocked, CanPop, WorkerPcs, rows
    <1>3. ASSUME NEW j \in Jobs, Prune(j) \/ TaskDone(j)
          PROVE  TypeOK'
      <2>1. slots' \in [Users -> Nat]
        BY <1>3 DEF TypeOK, Prune, TaskDone, OnTaskDone
      <2>2. QED
        BY <1>3, <2>1 DEF TypeOK, Prune, TaskDone, OnTaskDone, WorkerPcs, rows
    <1>4. QED BY <1>1, <1>2, <1>3

LEMMA ExecutorType ==
    ASSUME TypeOK, NEW j \in Jobs, Execute(j) \/ WorkerRaises(j)
    PROVE  TypeOK'
    <1>0. j \in Actors /\ {FAILED, SUCCEEDED} \subseteq Over
      BY StatusGraph DEF Actors
    <1>1. worker' \in [Jobs -> WorkerPcs]
      BY DEF TypeOK, WorkerPcs, Goto, Settle, Fail, Execute, WorkerRaises, Load,
             MarkRunning, SoftPenalty, SelectCandidates, CallAdapter,
             StoreImages, Deduct, Publish
    <1>2. tx' \in [Actors -> Transitions \cup {Idle}]
      <2>1. \/ tx' = tx
            \/ \E to \in Over, policy \in {"never", "won", "always"} :
                  tx' = [tx EXCEPT ![j] = TxFor("read", j, to, policy)]
        BY <1>0 DEF Settle, Fail, Execute, WorkerRaises, Load, MarkRunning,
                    SoftPenalty, SelectCandidates, CallAdapter, StoreImages,
                    Deduct, Publish
      <2>2. CASE tx' = tx BY <2>2 DEF TypeOK
      <2>3. QED BY <1>0, <2>1, <2>2, TxForType
    <1>3. CASE CallAdapter(j)
      <2>1. left' \in [Jobs -> 0 .. MaxAttempts]
        BY <1>3 DEF TypeOK, CallAdapter
      <2>2. QED BY <1>1, <1>2, <1>3, <2>1 DEF TypeOK, CallAdapter, rows, loop
    <1>4. CASE MarkRunning(j)
      BY <1>1, <1>4, StatusGraph DEF TypeOK, MarkRunning, loop
    <1>5. CASE \/ Load(j) \/ SoftPenalty(j) \/ SelectCandidates(j)
               \/ StoreImages(j) \/ Deduct(j) \/ Publish(j) \/ WorkerRaises(j)
      BY <1>1, <1>2, <1>5
      DEF TypeOK, Load, SoftPenalty, SelectCandidates, StoreImages, Deduct,
          Publish, WorkerRaises, rows, loop
    <1>6. QED BY <1>3, <1>4, <1>5 DEF Execute

LEMMA LifespanType ==
    ASSUME TypeOK,
           \/ Crash \/ Drain \/ Lifespan
           \/ \E j \in Jobs : SweepRow(j)
    PROVE  TypeOK'
    <1>1. CASE Crash \/ CancelScheduler \/ Closed
      <2>1. CASE GoDown
        BY <1>1, <2>1, GoDownType DEF TypeOK, Crash, CancelScheduler, Closed
      <2>2. CASE ~GoDown
        BY <1>1, <2>2 DEF TypeOK, Crash, CancelScheduler, Closed, rows
      <2>3. QED BY <2>1, <2>2
    <1>2. CASE Drain \/ SweepBegin \/ Restart \/ StartupDone
      BY <1>2 DEF TypeOK, Drain, SweepBegin, Restart, StartupDone, Rows, rows, loop
    <1>3. ASSUME NEW j \in Jobs, SweepRow(j)
          PROVE  TypeOK'
      <2>1. Sweeper \in Actors /\ FAILED \in Over BY StatusGraph DEF Actors
      <2>2. QED BY <1>3, <2>1, TxForType DEF TypeOK, SweepRow, rows, loop
    <1>4. QED BY <1>1, <1>2, <1>3 DEF Lifespan

(* Every reachable state is well-typed.                                    *)
THEOREM TypeCorrect == Spec => []TypeOK
    <1>1. Init => TypeOK
      BY StatusGraph DEF Init, TypeOK, WorkerPcs, Statuses
    <1>2. TypeOK /\ [Next]_vars => TypeOK'
      <2> SUFFICES ASSUME TypeOK, [Next]_vars PROVE TypeOK'
        OBVIOUS
      <2>1. CASE UNCHANGED vars
        BY <2>1 DEF TypeOK, vars
      <2>2. CASE Next
        BY <2>2, TransitionType, CreateType, RequestType, SchedulerType,
           ExecutorType, LifespanType DEF Next
      <2>3. QED BY <2>1, <2>2
    <1>3. QED BY <1>1, <1>2, PTL DEF Spec

-----------------------------------------------------------------------------
(* A job is debited at most once, and the pipeline implements the contract. *)
(*                                                                         *)
(* The debit is safe because the worker that makes it moved the row out of *)
(* QUEUED itself, no step ever puts a row back, and between that move and  *)
(* the debit the job has not been paid for.                                *)

Unpaid == {"soft", "select", "call", "store", "deduct"}

SpendInv ==
    /\ TypeOK
    /\ SpentAtMostOnce
    /\ \A j \in Jobs :
          /\ debits[j] = 1 => status[j] \notin {NONE, QUEUED}
          /\ worker[j] \in Unpaid =>
                debits[j] = 0 /\ status[j] \notin {NONE, QUEUED}
          /\ worker[j] = "publish" => debits[j] = 1
          /\ create[j] \in {"new", "charged"} => status[j] = NONE
    /\ \A a \in Actors : tx[a] # Idle =>
          /\ tx[a].pc = "cas" => tx[a].to \in Allowed[tx[a].from]
          /\ tx[a].to = SUCCEEDED => debits[tx[a].job] = 1

(* One refund for one charge: a refund follows a won compare-and-swap out   *)
(* of QUEUED or RUNNING, a row leaves those two once, and while it is there *)
(* its charge is held.                                                      *)
RefundInv ==
    /\ SpendInv
    /\ RefundedAtMostOnce
    /\ \A j \in Jobs :
          /\ create[j] = "new" => counted[j] = 0
          /\ create[j] = "charged" => counted[j] = 1
          /\ status[j] \in {QUEUED, RUNNING} => counted[j] = 1
    /\ \A a \in Actors : tx[a] # Idle =>
          /\ tx[a].refund # "always"
          /\ tx[a].refund = "won" => tx[a].to \in {CANCELLED, FAILED}
          /\ tx[a].pc = "refund" => /\ counted[tx[a].job] = 1
                                   /\ status[tx[a].job] \in Over
    /\ \A a, b \in Actors :
          tx[a].pc = "refund" /\ tx[b].pc = "refund" /\ tx[a].job = tx[b].job
             => a = b


(* What the end of a transition leaves of the tx and worker functions.     *)
LEMMA ConcludeFrame ==
    ASSUME TypeOK, NEW a \in Actors, NEW won \in BOOLEAN, tx[a] \in Transitions,
           Conclude(a, won)
    PROVE  /\ \A b \in Actors : b # a => tx'[b] = tx[b]
           /\ \/ tx'[a] = Idle
              \/ /\ tx'[a] = [tx[a] EXCEPT !.pc = "refund"]
                 /\ tx[a].refund = "always" \/ (won /\ tx[a].refund = "won")
           /\ \A j \in Jobs : worker'[j] \in {worker[j], "finished"}
    <1>1. CASE /\ tx' = [tx EXCEPT ![a].pc = "refund"]
               /\ UNCHANGED <<worker, sweep>>
               /\ tx[a].refund \in {"always"} \cup (IF won THEN {"won"} ELSE {})
      BY <1>1 DEF TypeOK
    <1>2. CASE Finish(a)
      BY <1>2 DEF TypeOK, Finish
    <1>3. QED BY <1>1, <1>2 DEF Conclude

LEMMA FinishFrame ==
    ASSUME TypeOK, NEW a \in Actors, Finish(a)
    PROVE  /\ \A b \in Actors : b # a => tx'[b] = tx[b]
           /\ tx'[a] = Idle
           /\ \A j \in Jobs : worker'[j] \in {worker[j], "finished"}
    BY DEF TypeOK, Finish

(* Every case of Read, Cas, Refund and TxRaises, seen from the rows and     *)
(* from the actor's own transition t.                                       *)
LEMMA TransitionFrame ==
    ASSUME TypeOK, NEW a \in Actors, Transition(a)
    PROVE  /\ tx[a] \in Transitions
           /\ debits' = debits /\ create' = create
           /\ \A b \in Actors : b # a => tx'[b] = tx[b]
           /\ \A j \in Jobs : worker'[j] \in {worker[j], "finished"}
           /\ \/ /\ tx[a].pc = "cas" /\ status[tx[a].job] = tx[a].from
                 /\ status' = [status EXCEPT ![tx[a].job] = tx[a].to]
                 /\ counted' = counted
                 /\ \/ tx'[a] = Idle
                    \/ /\ tx'[a] = [tx[a] EXCEPT !.pc = "refund"]
                       /\ tx[a].refund \in {"always", "won"}
              \/ /\ status' = status /\ counted' = counted
                 /\ \/ tx'[a] = Idle
                    \/ /\ tx'[a] = [tx[a] EXCEPT !.pc = "refund"]
                       /\ tx[a].refund = "always"
                    \/ /\ tx[a].to \in Allowed[status[tx[a].job]]
                       /\ tx'[a] = [tx[a] EXCEPT !.pc = "cas",
                                                 !.from = status[tx[a].job]]
              \/ /\ tx[a].pc = "refund" /\ status' = status
                 /\ counted' = [counted EXCEPT ![tx[a].job] = @ - 1]
                 /\ tx'[a] = Idle
    <1>1. tx[a] \in Transitions
      <2>1. tx[a].pc # "none"
        BY DEF Transition, Read, Cas, Refund, TxRaises
      <2>2. QED BY <2>1, BusyIsTransition
    <1>2. CASE Read(a)
      <2>1. CASE Conclude(a, FALSE)
        BY <1>1, <1>2, <2>1, ConcludeFrame DEF Read, rows
      <2> DEFINE t == [tx[a] EXCEPT !.pc = "cas", !.from = status[tx[a].job]]
      <2>2. CASE /\ tx[a].to \in Allowed[status[tx[a].job]]
                 /\ tx' = [tx EXCEPT ![a] = t]
                 /\ UNCHANGED <<worker, sweep>>
        BY <1>1, <1>2, <2>2 DEF Read, rows, TypeOK
      <2>3. QED BY <1>2, <2>1, <2>2 DEF Read
    <1>3. CASE Cas(a)
      <2>1. CASE Conclude(a, TRUE) /\ status[tx[a].job] = tx[a].from
                 /\ status' = [status EXCEPT ![tx[a].job] = tx[a].to]
        BY <1>1, <1>3, <2>1, ConcludeFrame DEF Cas
      <2>2. CASE Conclude(a, FALSE) /\ status' = status
        BY <1>1, <1>3, <2>2, ConcludeFrame DEF Cas
      <2>3. QED BY <1>3, <2>1, <2>2 DEF Cas
    <1>4. CASE Refund(a)
      BY <1>1, <1>4, FinishFrame DEF Refund
    <1>5. CASE TxRaises(a)
      <2>1. CASE Conclude(a, FALSE)
        BY <1>1, <1>5, <2>1, ConcludeFrame DEF TxRaises, rows
      <2>2. CASE Finish(a)
        BY <1>1, <1>5, <2>2, FinishFrame DEF TxRaises, rows
      <2>3. QED BY <1>5, <2>1, <2>2 DEF TxRaises
    <1>6. QED BY <1>2, <1>3, <1>4, <1>5 DEF Transition


(* The step does not make the actor's transition one that is about to win  *)
(* or that claims success.                                                  *)
NoClaim(a) ==
    \/ tx'[a] \in {tx[a], Idle}
    \/ tx'[a].pc # "cas" /\ tx'[a].to # SUCCEEDED

(* Steps that touch neither status nor debits and start no payment.        *)
LEMMA SpendQuiet ==
    ASSUME SpendInv, TypeOK', status' = status, debits' = debits,
           \A j \in Jobs :
              /\ worker'[j] \in Unpaid => worker[j] \in Unpaid
              /\ worker'[j] = "publish" => worker[j] = "publish"
              /\ create'[j] \in {"new", "charged"} => create[j] \in {"new", "charged"},
           \A a \in Actors : NoClaim(a)
    PROVE  SpendInv'
    BY DEF SpendInv, SpentAtMostOnce, NoClaim

(* Starting a transition that does not claim success.                      *)
LEMMA TxForSafe ==
    ASSUME TypeOK, NEW a \in Actors, NEW j, NEW pc \in {"remove", "read"},
           NEW to \in {CANCELLED, DELETED, FAILED}, NEW policy,
           tx' = [tx EXCEPT ![a] = TxFor(pc, j, to, policy)]
    PROVE  \A b \in Actors : NoClaim(b)
    <1>1. tx'[a] = TxFor(pc, j, to, policy) BY DEF TypeOK
    <1>2. \A b \in Actors : b # a => tx'[b] = tx[b] BY DEF TypeOK
    <1>3. tx'[a].pc # "cas" /\ tx'[a].to # SUCCEEDED
      BY <1>1, StatusGraph DEF TxFor
    <1>4. QED BY <1>2, <1>3 DEF NoClaim

LEMMA SpendTransition ==
    ASSUME SpendInv, TypeOK', NEW a \in Actors, Transition(a)
    PROVE  SpendInv'
    <1>0. TypeOK BY DEF SpendInv
    <1>1. tx[a] \in Transitions /\ tx[a] # Idle
      <2>1. tx[a].pc # "none"
        BY DEF Transition, Read, Cas, Refund, TxRaises
      <2>2. QED BY <1>0, <2>1, BusyIsTransition DEF Idle
    <1>2. tx[a].job \in Jobs /\ tx[a].to \in Over
      BY <1>1 DEF Transitions
    <1>3. debits' = debits /\ create' = create
      BY <1>0, TransitionFrame
    <1>4. ASSUME NEW j \in Jobs
          PROVE  \/ status'[j] = status[j]
                 \/ /\ status'[j] \in Over /\ status[j] # NONE
                    /\ tx[a].job = j
      <2>1. CASE /\ tx[a].pc = "cas" /\ status[tx[a].job] = tx[a].from
                 /\ status' = [status EXCEPT ![tx[a].job] = tx[a].to]
        <3>1. tx[a].from # NONE
          BY <1>1, <1>2, <2>1, StatusGraph DEF SpendInv
        <3>2. QED BY <1>0, <1>2, <2>1, <3>1 DEF TypeOK
      <2>2. CASE status' = status BY <2>2
      <2>3. QED BY <1>0, <2>1, <2>2, TransitionFrame
    <1>5. \A j \in Jobs : worker'[j] \in {worker[j], "finished"}
      BY <1>0, TransitionFrame
    <1>6. \A j \in Jobs :
            /\ debits'[j] = 1 => status'[j] \notin {NONE, QUEUED}
            /\ worker'[j] \in Unpaid =>
                  debits'[j] = 0 /\ status'[j] \notin {NONE, QUEUED}
            /\ worker'[j] = "publish" => debits'[j] = 1
            /\ create'[j] \in {"new", "charged"} => status'[j] = NONE
      BY <1>3, <1>4, <1>5, StatusGraph DEF SpendInv, Unpaid
    <1>7. ASSUME NEW b \in Actors, tx'[b] # Idle
          PROVE  /\ tx'[b].pc = "cas" => tx'[b].to \in Allowed[tx'[b].from]
                 /\ tx'[b].to = SUCCEEDED => debits'[tx'[b].job] = 1
      <2>1. CASE b # a
        <3>1. tx'[b] = tx[b]
          BY <1>0, <2>1, TransitionFrame
        <3>2. QED BY <1>3, <1>7, <3>1 DEF SpendInv
      <2>2. CASE b = a /\ tx'[a] = [tx[a] EXCEPT !.pc = "refund"]
        BY <1>1, <1>3, <2>2 DEF SpendInv, Transitions
      <2>3. CASE /\ b = a /\ tx[a].to \in Allowed[status[tx[a].job]]
                 /\ tx'[a] = [tx[a] EXCEPT !.pc = "cas",
                                           !.from = status[tx[a].job]]
        BY <1>1, <1>3, <2>3 DEF SpendInv, Transitions
      <2>4. QED BY <1>0, <1>7, <2>1, <2>2, <2>3, TransitionFrame
    <1>8. QED BY <1>3, <1>6, <1>7 DEF SpendInv, SpentAtMostOnce

LEMMA SpendInsert ==
    ASSUME SpendInv, TypeOK', NEW j \in Jobs, Insert(j) \/ InsertUncharged(j)
    PROVE  SpendInv'
    <1>1. status[j] = NONE /\ debits[j] = 0 /\ worker[j] \notin Unpaid
      BY DEF SpendInv, Insert, InsertUncharged, SpentAtMostOnce
    <1>2. debits' = debits /\ worker' = worker /\ tx' = tx
      BY DEF Insert, InsertUncharged
    <1>3. \A i \in Jobs : i # j => status'[i] = status[i] /\ create'[i] = create[i]
      BY DEF Insert, InsertUncharged, SpendInv, TypeOK
    <1>4. status'[j] = QUEUED /\ create'[j] = "inserted"
      BY DEF Insert, InsertUncharged, SpendInv, TypeOK
    <1>5. QED
      BY <1>1, <1>2, <1>3, <1>4, StatusGraph DEF SpendInv, SpentAtMostOnce

LEMMA SpendMarkRunning ==
    ASSUME SpendInv, TypeOK', NEW j \in Jobs, MarkRunning(j)
    PROVE  SpendInv'
    <1>1. CASE status[j] # QUEUED
      <2>1. worker' = [worker EXCEPT ![j] = "finished"] /\ status' = status
        BY <1>1 DEF MarkRunning, Goto
      <2>2. QED
        BY <2>1, SpendQuiet DEF MarkRunning, SpendInv, TypeOK, Unpaid, NoClaim
    <1>2. CASE status[j] = QUEUED
      <2>1. /\ status' = [status EXCEPT ![j] = RUNNING]
            /\ worker' = [worker EXCEPT ![j] = "soft"]
            /\ debits' = debits /\ create' = create /\ tx' = tx
        BY <1>2 DEF MarkRunning, Goto
      <2>2. debits[j] = 0 /\ create[j] \notin {"new", "charged"}
        BY <1>2, StatusGraph DEF SpendInv, SpentAtMostOnce
      <2>3. \A i \in Jobs : i # j => status'[i] = status[i] /\ worker'[i] = worker[i]
        BY <2>1 DEF SpendInv, TypeOK
      <2>4. status'[j] = RUNNING /\ worker'[j] = "soft"
        BY <2>1 DEF SpendInv, TypeOK
      <2>5. QED
        BY <2>1, <2>2, <2>3, <2>4, StatusGraph DEF SpendInv, SpentAtMostOnce, Unpaid
    <1>3. QED BY <1>1, <1>2

LEMMA SpendDeduct ==
    ASSUME SpendInv, TypeOK', NEW j \in Jobs, Deduct(j)
    PROVE  SpendInv'
    <1>0. j \in Actors BY DEF Actors
    <1>1. CASE Fail(j, "deduct", "never") /\ UNCHANGED debits
      <2>1. /\ tx' = [tx EXCEPT ![j] = TxFor("read", j, FAILED, "never")]
            /\ worker' = [worker EXCEPT ![j] = "tx"]
        BY <1>1 DEF Fail, Settle, Goto
      <2>2. \A a \in Actors : NoClaim(a)
        BY <1>0, <2>1, TxForSafe DEF SpendInv
      <2>3. QED
        BY <1>0, <1>1, <2>1, <2>2, SpendQuiet DEF Deduct, SpendInv, TypeOK, Unpaid
    <1>2. CASE /\ Goto(j, "deduct", "publish") /\ UNCHANGED tx
               /\ debits' = [debits EXCEPT ![j] = @ + 1]
      <2>1. debits[j] = 0 /\ status[j] \notin {NONE, QUEUED}
        BY <1>2 DEF SpendInv, Goto, Unpaid
      <2>2. debits'[j] = 1 /\ worker'[j] = "publish"
        BY <1>2, <2>1 DEF SpendInv, TypeOK, Goto
      <2>3. \A i \in Jobs : i # j => debits'[i] = debits[i] /\ worker'[i] = worker[i]
        BY <1>2 DEF SpendInv, TypeOK, Goto
      <2>4. status' = status /\ create' = create
        BY DEF Deduct
      <2>5. \A a \in Actors : tx'[a] # Idle => tx'[a].job \in Jobs
        BY DEF TypeOK, Transitions
      <2>6. QED
        BY <1>2, <2>1, <2>2, <2>3, <2>4, <2>5 DEF SpendInv, SpentAtMostOnce, Unpaid
    <1>3. QED BY <1>1, <1>2 DEF Deduct

LEMMA SpendPublish ==
    ASSUME SpendInv, TypeOK', NEW j \in Jobs, Publish(j)
    PROVE  SpendInv'
    <1>0. j \in Actors BY DEF Actors
    <1>1. /\ tx' = [tx EXCEPT ![j] = TxFor("read", j, SUCCEEDED, "never")]
          /\ worker' = [worker EXCEPT ![j] = "tx"] /\ worker[j] = "publish"
          /\ status' = status /\ debits' = debits /\ create' = create
      BY DEF Publish, Settle, Goto, rows
    <1>2. tx'[j].pc = "read" /\ tx'[j].job = j
      BY <1>0, <1>1 DEF TxFor, SpendInv, TypeOK
    <1>3. \A a \in Actors : a # j => tx'[a] = tx[a]
      BY <1>0, <1>1 DEF SpendInv, TypeOK
    <1>4. \A i \in Jobs : worker'[i] \in {worker[i], "tx"}
      BY <1>1 DEF SpendInv, TypeOK
    <1>5. QED
      BY <1>1, <1>2, <1>3, <1>4 DEF SpendInv, SpentAtMostOnce, Unpaid


LEMMA SpendStep ==
    ASSUME SpendInv, [Next]_vars
    PROVE  SpendInv'
    <1>0. TypeOK /\ TypeOK'
      <2>1. TypeOK BY DEF SpendInv
      <2>2. CASE Next
        BY <2>1, <2>2, TransitionType, CreateType, RequestType, SchedulerType,
           ExecutorType, LifespanType DEF Next
      <2>3. CASE UNCHANGED vars
        BY <2>1, <2>3 DEF TypeOK, vars
      <2>4. QED BY <2>1, <2>2, <2>3
    <1>1. CASE UNCHANGED vars
      BY <1>0, <1>1, SpendQuiet DEF vars, NoClaim
    <1>2. ASSUME NEW a \in Actors, Transition(a) PROVE SpendInv'
      BY <1>0, <1>2, SpendTransition
    <1>3. ASSUME NEW j \in Jobs, Charge(j) \/ InsertUncharged(j) \/ CreateStep(j)
          PROVE  SpendInv'
      <2>1. CASE Insert(j) \/ InsertUncharged(j)
        BY <1>0, <2>1, SpendInsert
      <2>2. CASE Charge(j) \/ InsertFails(j) \/ Enqueue(j)
        BY <1>0, <2>2, SpendQuiet
        DEF Charge, InsertFails, Enqueue, rows, loop, TypeOK, NoClaim
      <2>3. QED BY <1>3, <2>1, <2>2 DEF CreateStep
    <1>4. ASSUME NEW r \in Requests,
                 \/ Remove(r)
                 \/ \E j \in Jobs : \/ Cancel(r, j) \/ CancelInBatch(r, j)
                                    \/ Delete(r, j)
          PROVE  SpendInv'
      <2>0. r \in Actors BY DEF Actors
      <2>1. /\ status' = status /\ debits' = debits /\ worker' = worker
            /\ create' = create
        BY <1>4 DEF Remove, Cancel, CancelInBatch, Delete, rows
      <2>2. \A a \in Actors : a # r => tx'[a] = tx[a]
        BY <1>0, <1>4, <2>0 DEF Remove, Cancel, CancelInBatch, Delete, TypeOK
      <2>3. CASE Remove(r)
        <3>1. tx[r] \in Transitions
          BY <1>0, <2>0, <2>3, BusyIsTransition DEF Remove
        <3>2. tx'[r] = [tx[r] EXCEPT !.pc = "read"]
          BY <1>0, <2>0, <2>3 DEF Remove, TypeOK
        <3>3. /\ tx'[r].pc = "read" /\ tx'[r].to = tx[r].to
              /\ tx'[r].job = tx[r].job /\ tx[r] # Idle
          BY <3>1, <3>2, <2>3 DEF Transitions, Remove, Idle
        <3>4. QED BY <1>0, <2>1, <2>2, <3>3 DEF SpendInv, SpentAtMostOnce
      <2>4. CASE \E j \in Jobs : \/ Cancel(r, j) \/ CancelInBatch(r, j)
                                 \/ Delete(r, j)
        <3>1. \E j \in Jobs, pc \in {"remove", "read"},
                 to \in {CANCELLED, DELETED}, policy \in {"never", "won", "always"} :
                 tx' = [tx EXCEPT ![r] = TxFor(pc, j, to, policy)]
          BY <2>4 DEF Cancel, CancelInBatch, Delete
        <3>2. \A a \in Actors : NoClaim(a)
          BY <1>0, <2>0, <3>1, TxForSafe
        <3>3. QED BY <1>0, <2>1, <3>2, SpendQuiet
      <2>5. QED BY <1>4, <2>3, <2>4
    <1>5. CASE \/ PopBegin \/ Requeue \/ PromoteRaises \/ StopSeen
               \/ \E j \in Jobs : \/ Dispatch(j) \/ PopBlocked(j)
                                  \/ Prune(j) \/ TaskDone(j)
      <2>1. /\ status' = status /\ debits' = debits /\ create' = create
            /\ tx' = tx
        BY <1>5 DEF PopBegin, Requeue, PromoteRaises, StopSeen, Dispatch,
                    PopBlocked, Prune, TaskDone, rows
      <2>2. \A j \in Jobs : worker'[j] \in {worker[j], "load", "none"}
        BY <1>0, <1>5 DEF PopBegin, Requeue, PromoteRaises, StopSeen, Dispatch,
                    PopBlocked, Prune, TaskDone, TypeOK
      <2>3. QED BY <1>0, <2>1, <2>2, SpendQuiet DEF Unpaid, NoClaim
    <1>6. ASSUME NEW j \in Jobs, Execute(j) \/ WorkerRaises(j) PROVE SpendInv'
      <2>0. j \in Actors BY DEF Actors
      <2>1. CASE MarkRunning(j) \/ Deduct(j) \/ Publish(j)
        BY <1>0, <2>1, SpendMarkRunning, SpendDeduct, SpendPublish
      <2>2. CASE \/ Load(j) \/ SoftPenalty(j) \/ SelectCandidates(j)
                 \/ CallAdapter(j) \/ StoreImages(j) \/ WorkerRaises(j)
        <3>1. status' = status /\ debits' = debits /\ create' = create
          BY <2>2 DEF Load, SoftPenalty, SelectCandidates, CallAdapter,
                      StoreImages, WorkerRaises, rows
        <3>2. \A i \in Jobs :
                 \/ worker'[i] \in {worker[i], "mark", "tx", "finished"}
                 \/ worker[i] \in Unpaid /\ worker'[i] \in Unpaid
          BY <1>0, <2>2 DEF Load, SoftPenalty, SelectCandidates, CallAdapter,
                StoreImages, WorkerRaises, Fail, Settle, Goto, Unpaid, TypeOK
        <3>3. \/ tx' = tx
              \/ \E policy \in {"never", "won"} :
                    tx' = [tx EXCEPT ![j] = TxFor("read", j, FAILED, policy)]
          BY <2>2 DEF Load, SoftPenalty, SelectCandidates, CallAdapter,
                StoreImages, WorkerRaises, Fail, Settle
        <3>4. \A a \in Actors : NoClaim(a)
          <4>1. CASE tx' = tx BY <4>1 DEF NoClaim
          <4>2. QED BY <1>0, <2>0, <3>3, <4>1, TxForSafe
        <3>5. QED BY <1>0, <3>1, <3>2, <3>4, SpendQuiet DEF Unpaid
      <2>3. QED BY <1>6, <2>1, <2>2 DEF Execute
    <1>7. CASE \/ Crash \/ Drain \/ Lifespan
               \/ \E j \in Jobs : SweepRow(j)
      <2>1. CASE GoDown
        BY <1>0, <2>1, SpendQuiet DEF GoDown, rows, Unpaid, NoClaim
      <2>2. CASE \/ Drain \/ SweepBegin \/ Restart \/ StartupDone
                 \/ CancelScheduler /\ ~GoDown
        BY <1>0, <2>2, SpendQuiet
        DEF Drain, SweepBegin, Restart, StartupDone, CancelScheduler, rows, NoClaim
      <2>3. CASE \E j \in Jobs : SweepRow(j)
        <3>0. Sweeper \in Actors BY DEF Actors
        <3>1. PICK j \in Jobs : SweepRow(j) BY <2>3
        <3>2. \A a \in Actors : NoClaim(a)
          BY <1>0, <3>0, <3>1, TxForSafe DEF SweepRow
        <3>3. QED BY <1>0, <3>1, <3>2, SpendQuiet DEF SweepRow, rows
      <2>4. QED BY <1>7, <2>1, <2>2, <2>3 DEF Crash, Lifespan, CancelScheduler, Closed
    <1>8. QED BY <1>1, <1>2, <1>3, <1>4, <1>5, <1>6, <1>7 DEF Next

LEMMA SpendInit == Init => SpendInv
    BY StatusGraph
    DEF Init, SpendInv, SpentAtMostOnce, TypeOK, WorkerPcs, Statuses, Unpaid

(* However the job is cancelled, retried at another provider or swept after *)
(* a crash, its provider is debited at most once.                           *)
THEOREM DebitedOnce == Spec => []SpentAtMostOnce
    <1>1. SpendInv => SpentAtMostOnce BY DEF SpendInv
    <1>2. QED BY <1>1, SpendInit, SpendStep, PTL DEF Spec


-----------------------------------------------------------------------------
(* Refinement.                                                              *)

(* The contract's instance of JobStatus is this module's.                  *)
LEMMA ContractGraph ==
    /\ Contract!NONE = NONE /\ Contract!QUEUED = QUEUED
    /\ Contract!SUCCEEDED = SUCCEEDED
    /\ Contract!Statuses = Statuses /\ Contract!Allowed = Allowed
    BY DEF Contract!NONE, Contract!QUEUED, Contract!RUNNING, Contract!SUCCEEDED,
           Contract!FAILED, Contract!CANCELLED, Contract!DELETED,
           Contract!Statuses, Contract!Settled, Contract!Allowed,
           NONE, QUEUED, RUNNING, SUCCEEDED, FAILED, CANCELLED, DELETED,
           Statuses, Settled, Allowed

LEMMA ContractStep ==
    ASSUME SpendInv, SpendInv', [Next]_vars
    PROVE  [Contract!Next]_(Contract!vars)
    <1> USE DEF Contract!vars
    <1>0. TypeOK BY DEF SpendInv
    <1>1. ASSUME NEW j \in Jobs, NEW to \in Allowed[status[j]], to \in Statuses,
                 to = SUCCEEDED => debits[j] = 1, debits' = debits,
                 status' = [status EXCEPT ![j] = to]
          PROVE  Contract!Next
      BY <1>1, ContractGraph DEF Contract!Next, Contract!Move
    <1>2. CASE UNCHANGED vars
      BY <1>2 DEF vars
    <1>3. ASSUME NEW a \in Actors, Transition(a)
          PROVE  [Contract!Next]_(Contract!vars)
      <2>1. CASE /\ tx[a].pc = "cas" /\ status[tx[a].job] = tx[a].from
                 /\ status' = [status EXCEPT ![tx[a].job] = tx[a].to]
        <3>1. tx[a] \in Transitions /\ debits' = debits
          BY <1>0, <1>3, TransitionFrame
        <3>2. tx[a] # Idle BY <2>1 DEF Idle
        <3>3. /\ tx[a].job \in Jobs /\ tx[a].to \in Statuses
              /\ tx[a].to \in Allowed[status[tx[a].job]]
              /\ tx[a].to = SUCCEEDED => debits[tx[a].job] = 1
          BY <2>1, <3>1, <3>2, StatusGraph DEF SpendInv, Transitions
        <3>4. QED BY <1>1, <2>1, <3>1, <3>3
      <2>2. CASE status' = status
        BY <1>0, <1>3, <2>2, TransitionFrame
      <2>3. QED BY <1>0, <1>3, <2>1, <2>2, TransitionFrame
    <1>4. ASSUME NEW j \in Jobs, Insert(j) \/ InsertUncharged(j)
          PROVE  Contract!Next
      <2>1. status[j] = NONE BY <1>4 DEF Insert, InsertUncharged, SpendInv
      <2>2. QED BY <1>1, <1>4, <2>1, StatusGraph DEF Insert, InsertUncharged
    <1>5. ASSUME NEW j \in Jobs, MarkRunning(j)
          PROVE  [Contract!Next]_(Contract!vars)
      <2>1. CASE status' = status BY <1>5, <2>1 DEF MarkRunning
      <2>2. CASE status[j] = QUEUED /\ status' = [status EXCEPT ![j] = RUNNING]
        BY <1>1, <1>5, <2>2, StatusGraph DEF MarkRunning
      <2>3. QED BY <1>5, <2>1, <2>2 DEF MarkRunning
    <1>6. ASSUME NEW j \in Jobs, Deduct(j)
          PROVE  [Contract!Next]_(Contract!vars)
      <2>1. CASE debits' = debits BY <1>6, <2>1 DEF Deduct
      <2>2. CASE /\ Goto(j, "deduct", "publish")
                 /\ debits' = [debits EXCEPT ![j] = @ + 1]
        <3>1. debits[j] = 0 /\ status[j] \notin {NONE, QUEUED}
          BY <2>2 DEF Goto, SpendInv, Unpaid
        <3>2. debits' = [debits EXCEPT ![j] = 1]
          BY <2>2, <3>1
        <3>3. QED BY <1>6, <3>1, <3>2, ContractGraph
          DEF Deduct, Contract!Next, Contract!Debit
      <2>3. QED BY <1>6, <2>1, <2>2 DEF Deduct
    <1>7. CASE \/ \E j \in Jobs :
                    \/ Charge(j) \/ InsertFails(j) \/ Enqueue(j)
                    \/ Dispatch(j) \/ PopBlocked(j) \/ Prune(j) \/ TaskDone(j)
                    \/ Load(j) \/ SoftPenalty(j) \/ SelectCandidates(j)
                    \/ CallAdapter(j) \/ StoreImages(j) \/ Publish(j)
                    \/ WorkerRaises(j) \/ SweepRow(j)
                    \/ \E r \in Requests :
                          Cancel(r, j) \/ CancelInBatch(r, j) \/ Delete(r, j)
               \/ \E r \in Requests : Remove(r)
               \/ PopBegin \/ Requeue \/ PromoteRaises \/ StopSeen
               \/ Crash \/ Drain \/ Lifespan
      BY <1>7
      DEF Charge, InsertFails, Enqueue, Dispatch, PopBlocked, Prune, TaskDone,
          Load, SoftPenalty, SelectCandidates, CallAdapter, StoreImages, Publish,
          WorkerRaises, SweepRow, Cancel, CancelInBatch, Delete, Remove,
          PopBegin, Requeue, PromoteRaises, StopSeen, Crash, Drain, Lifespan,
          SweepBegin, CancelScheduler, Closed, Restart, StartupDone, GoDown, rows
    <1>8. QED
      BY <1>2, <1>3, <1>4, <1>5, <1>6, <1>7 DEF Next, CreateStep, Execute

(* Whatever the scheduler, the workers, the endpoints and the restarts do, *)
(* each row keeps the contract: its status follows the graph, one debit,   *)
(* and SUCCEEDED only when it is paid for.                                  *)
THEOREM PipelineImplementsContract == Spec => ImplementsContract
    <1>1. Init => Contract!Init
      BY ContractGraph DEF Init, Contract!Init
    <1>2. SpendInv /\ SpendInv' /\ [Next]_vars => [Contract!Next]_(Contract!vars)
      BY ContractStep
    <1>3. QED
      BY <1>1, <1>2, SpendInit, SpendStep, PTL
      DEF Spec, ImplementsContract, Contract!Spec


-----------------------------------------------------------------------------
(* One refund for one charge.                                              *)

(* The step does not bring the actor to a refund.                           *)
NoRefund(a) ==
    \/ tx'[a] \in {tx[a], Idle}
    \/ /\ tx'[a].pc # "refund"
       /\ tx'[a].refund # "always"
       /\ tx'[a].refund = "won" => tx'[a].to \in {CANCELLED, FAILED}

LEMMA RefundQuiet ==
    ASSUME RefundInv, SpendInv', status' = status, counted' = counted,
           \A j \in Jobs :
              create'[j] \in {"new", "charged"} => create'[j] = create[j],
           \A a \in Actors : NoRefund(a)
    PROVE  RefundInv'
    <1>1. \A a \in Actors : tx'[a] # Idle =>
             /\ tx'[a].refund # "always"
             /\ tx'[a].refund = "won" => tx'[a].to \in {CANCELLED, FAILED}
             /\ tx'[a].pc = "refund" => tx'[a] = tx[a]
      BY DEF RefundInv, NoRefund
    <1>2. \A a \in Actors : tx'[a].pc = "refund" => tx'[a] = tx[a]
      BY <1>1 DEF Idle
    <1>3. QED BY <1>1, <1>2 DEF RefundInv, RefundedAtMostOnce

LEMMA TxForNoRefund ==
    ASSUME TypeOK, NEW a \in Actors, NEW j, NEW pc \in {"remove", "read"},
           NEW to, NEW policy \in {"never", "won"},
           policy = "won" => to \in {CANCELLED, FAILED},
           tx' = [tx EXCEPT ![a] = TxFor(pc, j, to, policy)]
    PROVE  \A b \in Actors : NoRefund(b)
    <1>1. tx'[a] = TxFor(pc, j, to, policy) BY DEF TypeOK
    <1>2. \A b \in Actors : b # a => tx'[b] = tx[b] BY DEF TypeOK
    <1>3. QED BY <1>1, <1>2 DEF TxFor, NoRefund

(* The compare-and-swap that leads to a refund takes the row out of QUEUED  *)
(* or RUNNING, so no other actor is at a refund for it.                      *)
LEMMA RefundTransition ==
    ASSUME RefundInv, SpendInv', NEW a \in Actors, Transition(a)
    PROVE  RefundInv'
    <1> DEFINE J == tx[a].job
    <1>0. TypeOK /\ TypeOK' /\ SpendInv BY DEF RefundInv, SpendInv
    <1>1. tx[a] \in Transitions /\ tx[a] # Idle
      <2>1. tx[a].pc # "none"
        BY DEF Transition, Read, Cas, Refund, TxRaises
      <2>2. QED BY <1>0, <2>1, BusyIsTransition DEF Idle
    <1>2. J \in Jobs /\ tx[a].to \in Over /\ tx[a].refund # "always"
      BY <1>1 DEF Transitions, RefundInv
    <1>3. create' = create /\ \A b \in Actors : b # a => tx'[b] = tx[b]
      BY <1>0, TransitionFrame
    <1>4. CASE /\ tx[a].pc = "cas" /\ status[J] = tx[a].from
               /\ status' = [status EXCEPT ![J] = tx[a].to]
               /\ counted' = counted
               /\ \/ tx'[a] = Idle
                  \/ /\ tx'[a] = [tx[a] EXCEPT !.pc = "refund"]
                     /\ tx[a].refund \in {"always", "won"}
      <2>1. /\ status'[J] = tx[a].to
            /\ \A j \in Jobs : j # J => status'[j] = status[j]
        BY <1>0, <1>2, <1>4 DEF TypeOK
      <2>2. create[J] \notin {"new", "charged"}
        BY <1>1, <1>2, <1>4, StatusGraph DEF SpendInv, RefundInv
      <2>3. \A j \in Jobs :
              /\ create'[j] = "new" => counted'[j] = 0
              /\ create'[j] = "charged" => counted'[j] = 1
              /\ status'[j] \in {QUEUED, RUNNING} => counted'[j] = 1
        BY <1>2, <1>3, <1>4, <2>1, StatusGraph DEF RefundInv
      <2>4. tx[a].refund = "won" =>
               /\ status[J] \in {QUEUED, RUNNING} /\ counted[J] = 1
        <3>1. tx[a].from \in Statuses /\ tx[a].to \in Allowed[tx[a].from]
          BY <1>0, <1>1, <1>4 DEF SpendInv, Transitions
        <3>2. tx[a].refund = "won" => tx[a].to \in {CANCELLED, FAILED}
          BY <1>1 DEF RefundInv
        <3>3. tx[a].refund = "won" => status[J] \in {QUEUED, RUNNING}
          BY <1>4, <3>1, <3>2, StatusGraph
        <3>4. QED BY <1>2, <3>3 DEF RefundInv
      <2>5. ASSUME NEW b \in Actors, tx'[b] # Idle
            PROVE  /\ tx'[b].refund # "always"
                   /\ tx'[b].refund = "won" => tx'[b].to \in {CANCELLED, FAILED}
                   /\ tx'[b].pc = "refund" => /\ counted'[tx'[b].job] = 1
                                             /\ status'[tx'[b].job] \in Over
        <3>1. CASE b = a
          <4>1. tx'[a] = [tx[a] EXCEPT !.pc = "refund"] /\ tx[a].refund = "won"
            BY <1>2, <1>4, <2>5, <3>1
          <4>2. /\ tx'[a].refund = "won" /\ tx'[a].to = tx[a].to
                /\ tx'[a].job = J
            BY <1>1, <4>1 DEF Transitions
          <4>3. QED
            BY <1>1, <1>2, <1>4, <2>1, <2>4, <3>1, <4>1, <4>2 DEF RefundInv
        <3>2. CASE b # a
          <4>1. tx'[b] = tx[b] BY <1>3, <3>2
          <4>2. tx[b].job \in Jobs BY <1>0, <2>5, <4>1 DEF TypeOK, Transitions
          <4>3. QED BY <1>2, <1>4, <2>1, <2>5, <4>1, <4>2 DEF RefundInv
        <3>3. QED BY <3>1, <3>2
      <2>6. ASSUME NEW b \in Actors, NEW c \in Actors,
                   tx'[b].pc = "refund", tx'[c].pc = "refund",
                   tx'[b].job = tx'[c].job
            PROVE  b = c
        <3>1. ASSUME NEW d \in Actors, d # a, tx[d].pc = "refund",
                     tx'[a].pc = "refund"
              PROVE  tx[d].job # J
          <4>1. tx[a].refund = "won"
            BY <1>2, <1>4, <3>1 DEF Idle
          <4>2. status[tx[d].job] \in Over
            BY <3>1 DEF RefundInv, Idle
          <4>3. QED BY <2>4, <4>1, <4>2, StatusGraph
        <3>2. tx'[a].pc = "refund" => tx'[a].job = J
          BY <1>1, <1>4 DEF Transitions, Idle
        <3>3. CASE b # a /\ c # a
          BY <1>3, <2>6, <3>3 DEF RefundInv
        <3>4. CASE b = a /\ c # a
          BY <1>3, <2>6, <3>1, <3>2, <3>4
        <3>5. CASE b # a /\ c = a
          BY <1>3, <2>6, <3>1, <3>2, <3>5
        <3>6. QED BY <3>3, <3>4, <3>5
      <2>7. QED BY <1>4, <2>3, <2>5, <2>6 DEF RefundInv, RefundedAtMostOnce
    <1>5. CASE /\ status' = status /\ counted' = counted
               /\ \/ tx'[a] = Idle
                  \/ /\ tx'[a] = [tx[a] EXCEPT !.pc = "refund"]
                     /\ tx[a].refund = "always"
                  \/ tx'[a] = [tx[a] EXCEPT !.pc = "cas", !.from = status[J]]
      <2>1. NoRefund(a)
        BY <1>1, <1>2, <1>5 DEF NoRefund, Transitions, RefundInv
      <2>2. \A b \in Actors : NoRefund(b)
        BY <1>3, <2>1 DEF NoRefund
      <2>3. QED BY <1>3, <1>5, <2>2, RefundQuiet
    <1>6. CASE /\ tx[a].pc = "refund" /\ status' = status
               /\ counted' = [counted EXCEPT ![J] = @ - 1]
               /\ tx'[a] = Idle
      <2>1. counted[J] = 1 /\ status[J] \in Over
        BY <1>1, <1>6 DEF RefundInv
      <2>2. /\ counted'[J] = 0
            /\ \A j \in Jobs : j # J => counted'[j] = counted[j]
        BY <1>0, <1>2, <1>6, <2>1 DEF TypeOK
      <2>3. \A b \in Actors : b # a /\ tx[b].pc = "refund" => tx[b].job # J
        BY <1>6 DEF RefundInv
      <2>4. create[J] \notin {"new", "charged"}
        BY <1>2, <2>1, StatusGraph DEF SpendInv, RefundInv
      <2>5. \A b \in Actors : tx'[b] # Idle => b # a /\ tx'[b] = tx[b]
        BY <1>3, <1>6
      <2>6. \A b \in Actors : tx'[b] # Idle => tx'[b].job \in Jobs
        BY <1>0 DEF TypeOK, Transitions
      <2>7. ASSUME NEW b \in Actors, tx'[b] # Idle
            PROVE  /\ tx'[b].refund # "always"
                   /\ tx'[b].refund = "won" => tx'[b].to \in {CANCELLED, FAILED}
                   /\ tx'[b].pc = "refund" => /\ counted'[tx'[b].job] = 1
                                             /\ status'[tx'[b].job] \in Over
        BY <1>6, <2>2, <2>3, <2>5, <2>6, <2>7 DEF RefundInv
      <2>8. ASSUME NEW b \in Actors, NEW c \in Actors,
                   tx'[b].pc = "refund", tx'[c].pc = "refund",
                   tx'[b].job = tx'[c].job
            PROVE  b = c
        BY <2>5, <2>8 DEF RefundInv, Idle
      <2>9. \A j \in Jobs :
              /\ create'[j] = "new" => counted'[j] = 0
              /\ create'[j] = "charged" => counted'[j] = 1
              /\ status'[j] \in {QUEUED, RUNNING} => counted'[j] = 1
              /\ counted'[j] \in {0, 1}
        BY <1>3, <1>6, <2>1, <2>2, <2>4, StatusGraph
        DEF RefundInv, RefundedAtMostOnce
      <2>10. QED BY <2>7, <2>8, <2>9 DEF RefundInv, RefundedAtMostOnce
    <1>7. QED BY <1>0, <1>4, <1>5, <1>6, TransitionFrame


(* The steps of POST /api/jobs and the executor's claim: they change the    *)
(* charge or the status of one job no refund is under way for.              *)
LEMMA RefundLocal ==
    ASSUME RefundInv, SpendInv', NEW j \in Jobs, tx' = tx,
           \A i \in Jobs : i # j => /\ status'[i] = status[i]
                                   /\ counted'[i] = counted[i]
                                   /\ create'[i] = create[i],
           status[j] \notin Over,
           counted'[j] \in {0, 1},
           create'[j] = "new" => counted'[j] = 0,
           create'[j] = "charged" => counted'[j] = 1,
           status'[j] \in {QUEUED, RUNNING} => counted'[j] = 1
    PROVE  RefundInv'
    <1>1. \A a \in Actors : tx[a].pc = "refund" => tx[a].job # j
      BY DEF RefundInv, Idle
    <1>2. \A a \in Actors : tx[a] # Idle => tx[a].job \in Jobs
      BY DEF RefundInv, SpendInv, TypeOK, Transitions
    <1>3. ASSUME NEW a \in Actors, tx'[a] # Idle
          PROVE  /\ tx'[a].refund # "always"
                 /\ tx'[a].refund = "won" => tx'[a].to \in {CANCELLED, FAILED}
                 /\ tx'[a].pc = "refund" => /\ counted'[tx'[a].job] = 1
                                           /\ status'[tx'[a].job] \in Over
      BY <1>1, <1>2, <1>3 DEF RefundInv
    <1>4. QED BY <1>3 DEF RefundInv, RefundedAtMostOnce

LEMMA RefundCreate ==
    ASSUME RefundInv, SpendInv', NEW j \in Jobs, Charge(j) \/ CreateStep(j)
    PROVE  RefundInv'
    <1>0. TypeOK /\ SpendInv BY DEF RefundInv, SpendInv
    <1>1. CASE Charge(j)
      <2>1. counted[j] = 0 /\ status[j] = NONE
        BY <1>1 DEF Charge, RefundInv, SpendInv
      <2>2. counted'[j] = 1 /\ create'[j] = "charged" /\ status' = status
        BY <1>0, <1>1, <2>1 DEF Charge, TypeOK
      <2>3. \A i \in Jobs : i # j => counted'[i] = counted[i] /\ create'[i] = create[i]
        BY <1>0, <1>1 DEF Charge, TypeOK
      <2>4. tx' = tx BY <1>1 DEF Charge
      <2>5. QED BY <2>1, <2>2, <2>3, <2>4, RefundLocal, StatusGraph
    <1>2. CASE Insert(j)
      <2>1. counted[j] = 1 /\ status[j] = NONE
        BY <1>2 DEF Insert, RefundInv, SpendInv
      <2>2. counted' = counted /\ create'[j] = "inserted"
        BY <1>0, <1>2 DEF Insert, TypeOK
      <2>3. \A i \in Jobs : i # j => status'[i] = status[i] /\ create'[i] = create[i]
        BY <1>0, <1>2 DEF Insert, TypeOK
      <2>4. tx' = tx BY <1>2 DEF Insert
      <2>5. QED BY <2>1, <2>2, <2>3, <2>4, RefundLocal, StatusGraph
    <1>3. CASE InsertFails(j)
      <2>1. counted[j] = 1 /\ status[j] = NONE
        BY <1>3 DEF InsertFails, RefundInv, SpendInv
      <2>2. counted'[j] \in {0, 1} /\ create'[j] = "done" /\ status' = status
        BY <1>0, <1>3, <2>1 DEF InsertFails, TypeOK
      <2>3. \A i \in Jobs : i # j => counted'[i] = counted[i] /\ create'[i] = create[i]
        BY <1>0, <1>3 DEF InsertFails, TypeOK
      <2>4. tx' = tx BY <1>3 DEF InsertFails
      <2>5. QED BY <2>1, <2>2, <2>3, <2>4, RefundLocal, StatusGraph
    <1>4. CASE Enqueue(j)
      <2>1. \A i \in Jobs : create'[i] \in {"new", "charged"} => create'[i] = create[i]
        BY <1>0, <1>4 DEF Enqueue, TypeOK
      <2>2. QED BY <1>4, <2>1, RefundQuiet DEF Enqueue, rows, NoRefund
    <1>5. QED BY <1>1, <1>2, <1>3, <1>4 DEF CreateStep

LEMMA RefundExecute ==
    ASSUME RefundInv, SpendInv', NEW j \in Jobs, Execute(j) \/ WorkerRaises(j)
    PROVE  RefundInv'
    <1>0. TypeOK /\ j \in Actors BY DEF RefundInv, SpendInv, Actors
    <1>1. CASE MarkRunning(j) /\ status' # status
      <2>1. status[j] = QUEUED /\ status' = [status EXCEPT ![j] = RUNNING]
        BY <1>1 DEF MarkRunning
      <2>2. tx' = tx /\ counted' = counted /\ create' = create
        BY <1>1 DEF MarkRunning
      <2>3. counted[j] = 1 /\ create[j] \notin {"new"}
        BY <2>1, StatusGraph DEF RefundInv, SpendInv
      <2>4. \A i \in Jobs : i # j => status'[i] = status[i]
        BY <1>0, <2>1 DEF TypeOK
      <2>5. QED BY <2>1, <2>2, <2>3, <2>4, RefundLocal, StatusGraph
    <1>2. CASE ~(MarkRunning(j) /\ status' # status)
      <2>1. status' = status /\ counted' = counted /\ create' = create
        BY <1>2 DEF Execute, WorkerRaises, Load, MarkRunning, SoftPenalty,
              SelectCandidates, CallAdapter, StoreImages, Deduct, Publish, rows
      <2>2. \/ tx' = tx
            \/ \E to \in Over, policy \in {"never", "won"} :
                  /\ policy = "won" => to \in {CANCELLED, FAILED}
                  /\ tx' = [tx EXCEPT ![j] = TxFor("read", j, to, policy)]
        BY StatusGraph DEF Execute, WorkerRaises, Load, MarkRunning, SoftPenalty,
              SelectCandidates, CallAdapter, StoreImages, Deduct, Publish,
              Fail, Settle
      <2>3. \A a \in Actors : NoRefund(a)
        <3>1. CASE tx' = tx BY <3>1 DEF NoRefund
        <3>2. QED BY <1>0, <2>2, <3>1, TxForNoRefund
      <2>4. QED BY <2>1, <2>3, RefundQuiet
    <1>3. QED BY <1>1, <1>2

LEMMA RefundStep ==
    ASSUME {"bulk", "vary"} \cap RequestKinds = {}, RefundInv, [Next]_vars
    PROVE  RefundInv'
    <1>0. SpendInv /\ SpendInv' /\ TypeOK
      BY SpendStep DEF RefundInv, SpendInv
    <1>1. CASE UNCHANGED vars
      BY <1>0, <1>1, RefundQuiet DEF vars, NoRefund
    <1>2. ASSUME NEW a \in Actors, Transition(a) PROVE RefundInv'
      BY <1>0, <1>2, RefundTransition
    <1>3. ASSUME NEW j \in Jobs, \/ Charge(j) \/ CreateStep(j)
                                 \/ Execute(j) \/ WorkerRaises(j)
          PROVE  RefundInv'
      BY <1>0, <1>3, RefundCreate, RefundExecute
    <1>4. ASSUME NEW r \in Requests, NEW j \in Jobs, Cancel(r, j) \/ Delete(r, j)
          PROVE  RefundInv'
      <2>0. r \in Actors BY DEF Actors
      <2>1. status' = status /\ counted' = counted /\ create' = create
        BY <1>4 DEF Cancel, Delete, rows
      <2>2. \E pc \in {"remove", "read"}, to \in Over, policy \in {"never", "won"} :
               /\ policy = "won" => to \in {CANCELLED, FAILED}
               /\ tx' = [tx EXCEPT ![r] = TxFor(pc, j, to, policy)]
        BY <1>4, StatusGraph DEF Cancel, Delete
      <2>3. \A a \in Actors : NoRefund(a)
        BY <1>0, <2>0, <2>2, TxForNoRefund
      <2>4. QED BY <1>0, <2>1, <2>3, RefundQuiet
    <1>5. ASSUME NEW r \in Requests, Remove(r) PROVE RefundInv'
      <2>0. r \in Actors BY DEF Actors
      <2>1. tx[r] \in Transitions /\ tx[r] # Idle
        BY <1>0, <1>5, <2>0, BusyIsTransition DEF Remove, Idle
      <2>2. tx'[r] = [tx[r] EXCEPT !.pc = "read"]
        BY <1>0, <1>5, <2>0 DEF Remove, TypeOK
      <2>3. \A a \in Actors : a # r => tx'[a] = tx[a]
        BY <1>0, <1>5, <2>0 DEF Remove, TypeOK
      <2>4. NoRefund(r)
        BY <2>0, <2>1, <2>2 DEF NoRefund, RefundInv, Transitions
      <2>5. \A a \in Actors : NoRefund(a)
        BY <2>3, <2>4 DEF NoRefund
      <2>6. QED BY <1>0, <1>5, <2>5, RefundQuiet DEF Remove, rows
    <1>6. CASE \/ PopBegin \/ Requeue \/ PromoteRaises \/ StopSeen
               \/ \E j \in Jobs : \/ Dispatch(j) \/ PopBlocked(j)
                                  \/ Prune(j) \/ TaskDone(j)
      BY <1>0, <1>6, RefundQuiet
      DEF PopBegin, Requeue, PromoteRaises, StopSeen, Dispatch, PopBlocked,
          Prune, TaskDone, rows, NoRefund
    <1>7. CASE GoDown
      BY <1>0, <1>7, RefundQuiet DEF GoDown, rows, NoRefund
    <1>8. CASE \/ Drain \/ SweepBegin \/ Restart \/ StartupDone
               \/ CancelScheduler /\ ~GoDown
      BY <1>0, <1>8, RefundQuiet
      DEF Drain, SweepBegin, Restart, StartupDone, CancelScheduler, rows, NoRefund
    <1>9. ASSUME NEW j \in Jobs, SweepRow(j) PROVE RefundInv'
      <2>0. Sweeper \in Actors BY DEF Actors
      <2>1. \A a \in Actors : NoRefund(a)
        BY <1>0, <1>9, <2>0, TxForNoRefund DEF SweepRow
      <2>2. QED BY <1>0, <1>9, <2>1, RefundQuiet DEF SweepRow, rows
    <1>10. \A j \in Jobs : /\ ~InsertUncharged(j)
                          /\ \A r \in Requests : ~CancelInBatch(r, j)
      BY DEF CancelInBatch, InsertUncharged
    <1>11. QED
      BY <1>1, <1>2, <1>3, <1>4, <1>5, <1>6, <1>7, <1>8, <1>9, <1>10
      DEF Next, Lifespan, Crash, CancelScheduler, Closed

LEMMA RefundInit == Init => RefundInv
    BY SpendInit, StatusGraph DEF Init, RefundInv, RefundedAtMostOnce, Idle

(* Without the batch-cancel endpoint, which refunds even when its           *)
(* transition failed, and without the endpoints that charge nothing for     *)
(* their job, a charge is given back at most once.                          *)
THEOREM RefundedOnce ==
        {"bulk", "vary"} \cap RequestKinds = {} => (Spec => []RefundedAtMostOnce)
    <1> SUFFICES ASSUME {"bulk", "vary"} \cap RequestKinds = {}
                 PROVE  Spec => []RefundedAtMostOnce
      OBVIOUS
    <1>1. RefundInv /\ [Next]_vars => RefundInv' BY RefundStep
    <1>2. RefundInv => RefundedAtMostOnce BY DEF RefundInv
    <1>3. QED BY <1>1, <1>2, RefundInit, PTL DEF Spec

-----------------------------------------------------------------------------
(* The scheduler: the two concurrency limits, and that no accepted job is  *)
(* lost or left RUNNING by itself.                                         *)

TasksOf(u) == {j \in tasks : Owner[j] = u}

(* Where a job is: created, then in the queue or held, then a task.  A live *)
(* worker has its task, a worker that is gone has none, and a worker's      *)
(* transition is about its own job.                                         *)
PlaceInv ==
    /\ SpendInv
    /\ \A j \in Jobs :
          /\ create[j] # "done" => j \notin queue \cup held /\ worker[j] = "none"
          /\ j \in queue \cup held => worker[j] = "none"
          /\ \/ create[j] = "inserted" \/ worker[j] # "none"
             \/ j \in queue \cup held
             => status[j] # NONE
          /\ worker[j] = "none" => j \notin tasks
          /\ Live(j) => j \in tasks
          /\ tx[j] # Idle => worker[j] = "tx" /\ tx[j].job = j
    /\ held # {} => sched \in {"requeue", "stopped"}
    /\ phase \in {"down", "starting"} => sched = "off"
    /\ phase = "down" =>
          \A j \in Jobs : worker[j] = "none" /\ create[j] \in {"new", "done"}

(* The accounting: a user's slots are its tasks, and neither a user's tasks *)
(* nor all of them exceed their limit; a loop that suspended in pop_next    *)
(* still has the worker it counted on.                                      *)
SlotInv ==
    /\ PlaceInv
    /\ \A u \in Users : /\ slots[u] = Cardinality(TasksOf(u))
                        /\ slots[u] <= MaxConcurrency
    /\ Cardinality(tasks) <= GlobalMaxWorkers
    /\ sched = "popping" => Cardinality(tasks) < GlobalMaxWorkers

(* Why a transition that ends leaves a row that is neither QUEUED nor, if   *)
(* a worker or the sweep made it, RUNNING: the row it read can only have    *)
(* moved on, and what it asked for was allowed.  Only a request's row may   *)
(* have been claimed by a worker in between.                                *)
Claimed(a) == IF a \in Requests THEN {RUNNING} ELSE {}

TxTruth(a) ==
    tx[a] # Idle =>
        /\ status[tx[a].job] # NONE
        /\ tx[a].to = DELETED => status[tx[a].job] \in Over
        /\ tx[a].pc = "cas" =>
              \/ status[tx[a].job] \in {tx[a].from} \cup Over
              \/ tx[a].from = QUEUED /\ status[tx[a].job] \in Claimed(a)
        /\ tx[a].pc = "refund" => status[tx[a].job] \in Over \cup Claimed(a)

OwnTx(j) ==
    tx[j] # Idle => tx[j].pc # "remove" /\ tx[j].to \in {FAILED, SUCCEEDED}

SweeperTx ==
    tx[Sweeper] # Idle =>
        /\ tx[Sweeper].pc # "remove" /\ tx[Sweeper].to = FAILED
        /\ status[tx[Sweeper].job] \notin {NONE, QUEUED}

TrackInv ==
    /\ PlaceInv
    /\ \A j \in sweep : status[j] \notin {NONE, QUEUED}
    /\ \A a \in Actors : TxTruth(a)
    /\ \A j \in Jobs : OwnTx(j)
    /\ SweeperTx
    /\ QueuedIsTracked
    /\ RunningIsOwned

-----------------------------------------------------------------------------
(* What a step of a transition did, with the reason it came to its end:     *)
(* the graph refused it, it won the compare-and-swap, it lost it.           *)

Ended(a) ==
    \/ DbMayFail
    \/ /\ tx[a].pc = "read" /\ tx[a].to \notin Allowed[status[tx[a].job]]
       /\ status' = status
    \/ /\ tx[a].pc = "cas" /\ status[tx[a].job] = tx[a].from
       /\ status' = [status EXCEPT ![tx[a].job] = tx[a].to]
    \/ /\ tx[a].pc = "cas" /\ status[tx[a].job] # tx[a].from
       /\ status' = status

LEMMA TransitionCases ==
    ASSUME TypeOK, NEW a \in Actors, Transition(a)
    PROVE  /\ tx[a] \in Transitions /\ tx[a] # Idle
           /\ UNCHANGED <<phase, create, loop>>
           /\ \/ status' = status
              \/ /\ tx[a].pc = "cas" /\ status[tx[a].job] = tx[a].from
                 /\ status' = [status EXCEPT ![tx[a].job] = tx[a].to]
           /\ \/ /\ tx[a].pc = "read" /\ status' = status
                 /\ tx[a].to \in Allowed[status[tx[a].job]]
                 /\ tx' = [tx EXCEPT ![a] =
                              [@ EXCEPT !.pc = "cas", !.from = status[tx[a].job]]]
                 /\ worker' = worker /\ sweep' = sweep
              \/ /\ tx' = [tx EXCEPT ![a].pc = "refund"]
                 /\ worker' = worker /\ sweep' = sweep /\ Ended(a)
              \/ Finish(a) /\ (Ended(a) \/ (tx[a].pc = "refund" /\ status' = status))
    <1>1. tx[a] \in Transitions /\ tx[a] # Idle
      <2>1. tx[a].pc # "none"
        BY DEF Transition, Read, Cas, Refund, TxRaises
      <2>2. QED BY <2>1, BusyIsTransition DEF Idle
    <1>2. CASE Read(a)
      BY <1>1, <1>2 DEF Read, Conclude, Ended, rows
    <1>3. CASE Cas(a)
      <2>1. /\ tx[a].pc = "cas" /\ Ended(a)
            /\ \/ status' = status
               \/ /\ status[tx[a].job] = tx[a].from
                  /\ status' = [status EXCEPT ![tx[a].job] = tx[a].to]
        BY <1>3 DEF Cas, Ended
      <2>2. \/ Finish(a)
            \/ tx' = [tx EXCEPT ![a].pc = "refund"] /\ worker' = worker /\ sweep' = sweep
        BY <1>3 DEF Cas, Conclude
      <2>3. UNCHANGED <<phase, create, loop>>
        BY <1>3 DEF Cas
      <2>4. QED BY <1>1, <2>1, <2>2, <2>3
    <1>4. CASE Refund(a)
      BY <1>1, <1>4 DEF Refund
    <1>5. CASE TxRaises(a)
      BY <1>1, <1>5 DEF TxRaises, Conclude, Ended, rows
    <1>6. QED BY <1>2, <1>3, <1>4, <1>5 DEF Transition

-----------------------------------------------------------------------------
(* PlaceInv.                                                                *)

(* Steps that move no job between create, queue, held and tasks, except out *)
(* of the queue, and neither start nor remove a worker.                     *)
LEMMA PlaceQuiet ==
    ASSUME PlaceInv, SpendInv',
           queue' \subseteq queue, held' = held, tasks' = tasks,
           \A j \in Jobs :
              /\ create'[j] = create[j] \/ (create[j] # "done" /\ phase # "down")
              /\ worker'[j] = "none" <=> worker[j] = "none"
              /\ worker'[j] = "finished" \/ worker[j] # "finished"
              /\ tx'[j] # Idle => worker'[j] = "tx" /\ tx'[j].job = j
              /\ status'[j] = NONE => status[j] = NONE
              /\ create'[j] = "inserted" =>
                    status'[j] # NONE \/ create[j] = "inserted",
           sched' = sched \/ (held = {} /\ sched' # "off") \/ sched' = "stopped",
           phase' \in {"down", "starting"} => phase' = phase /\ sched' = sched
    PROVE  PlaceInv'
    <1>1. \A j \in Jobs :
            /\ create'[j] # "done" => j \notin queue' \cup held' /\ worker'[j] = "none"
            /\ j \in queue' \cup held' => worker'[j] = "none"
            /\ \/ create'[j] = "inserted" \/ worker'[j] # "none"
               \/ j \in queue' \cup held'
               => status'[j] # NONE
            /\ worker'[j] = "none" => j \notin tasks'
            /\ worker'[j] \notin {"none", "finished"} => j \in tasks'
            /\ tx'[j] # Idle => worker'[j] = "tx" /\ tx'[j].job = j
      BY DEF PlaceInv, Live
    <1>2. /\ held' # {} => sched' \in {"requeue", "stopped"}
          /\ phase' \in {"down", "starting"} => sched' = "off"
          /\ phase' = "down" =>
                \A j \in Jobs : worker'[j] = "none" /\ create'[j] \in {"new", "done"}
      BY DEF PlaceInv
    <1>3. QED BY <1>1, <1>2 DEF PlaceInv, Live

LEMMA PlaceTransition ==
    ASSUME PlaceInv, SpendInv', NEW a \in Actors, Transition(a)
    PROVE  PlaceInv'
    <1>0. TypeOK /\ TypeOK' BY DEF PlaceInv, SpendInv
    <1>1. /\ tx[a] \in Transitions /\ tx[a] # Idle
          /\ UNCHANGED <<phase, create, loop>>
      BY <1>0, TransitionCases
    <1>2. \A j \in Jobs : status'[j] = NONE => status[j] = NONE
      <2>1. tx[a].to # NONE BY <1>1, StatusGraph DEF Transitions
      <2>2. \/ status' = status
            \/ status' = [status EXCEPT ![tx[a].job] = tx[a].to]
        BY <1>0, TransitionCases
      <2>3. QED BY <1>0, <2>1, <2>2 DEF TypeOK
    <1>3. \A j \in Jobs :
            /\ worker'[j] = "none" <=> worker[j] = "none"
            /\ worker'[j] = "finished" \/ worker[j] # "finished"
            /\ tx'[j] # Idle => worker'[j] = "tx" /\ tx'[j].job = j
      <2>1. CASE Finish(a)
        BY <1>0, <1>1, <2>1 DEF Finish, PlaceInv, TypeOK
      <2>2. CASE /\ tx' = [tx EXCEPT ![a] = [@ EXCEPT !.pc = "cas",
                                                      !.from = status[tx[a].job]]]
                 /\ worker' = worker
        BY <1>0, <1>1, <2>2 DEF PlaceInv, TypeOK, Transitions
      <2>3. CASE tx' = [tx EXCEPT ![a].pc = "refund"] /\ worker' = worker
        BY <1>0, <1>1, <2>3 DEF PlaceInv, TypeOK, Transitions
      <2>4. QED BY <1>0, <2>1, <2>2, <2>3, TransitionCases
    <1>4. UNCHANGED <<queue, held, tasks, sched, phase, create>>
      BY <1>1 DEF loop
    <1>5. QED BY <1>2, <1>3, <1>4, PlaceQuiet

LEMMA PlaceCreate ==
    ASSUME PlaceInv, SpendInv', NEW j \in Jobs,
           Charge(j) \/ InsertUncharged(j) \/ CreateStep(j)
    PROVE  PlaceInv'
    <1>0. TypeOK /\ TypeOK' BY DEF PlaceInv, SpendInv
    <1>1. CASE Enqueue(j)
      <2>1. /\ worker[j] = "none" /\ phase # "down"
            /\ create[j] = "inserted" /\ create'[j] = "done"
        BY <1>0, <1>1 DEF Enqueue, PlaceInv, TypeOK
      <2>2. status[j] # NONE /\ held' = held /\ queue' = queue \cup {j}
        BY <1>1, <2>1 DEF PlaceInv, Enqueue
      <2>3. \A i \in Jobs : i # j => create'[i] = create[i]
        BY <1>0, <1>1 DEF Enqueue, TypeOK
      <2>4. UNCHANGED <<status, worker, tasks, tx, sched, phase>>
        BY <1>1 DEF Enqueue, rows
      <2>5. j \notin tasks
        BY <2>1 DEF PlaceInv
      <2>6. QED BY <2>1, <2>2, <2>3, <2>4, <2>5 DEF PlaceInv, Live
    <1>2. CASE ~Enqueue(j)
      <2>1. /\ UNCHANGED <<phase, loop, worker, tx>>
            /\ create[j] # "done" /\ phase # "down"
            /\ \A i \in Jobs : i # j => create'[i] = create[i]
        BY <1>0, <1>2 DEF Charge, InsertUncharged, CreateStep, Insert, InsertFails,
                          PlaceInv, TypeOK
      <2>2. \A i \in Jobs : /\ status'[i] = NONE => status[i] = NONE
                            /\ create'[i] = "inserted" =>
                                  status'[i] # NONE \/ create[i] = "inserted"
        BY <1>0, <1>2, StatusGraph
        DEF Charge, InsertUncharged, CreateStep, Insert, InsertFails, rows, TypeOK
      <2>3. UNCHANGED <<queue, held, tasks, sched>>
        BY <2>1 DEF loop
      <2>4. \A i \in Jobs : create'[i] = create[i] \/ (create[i] # "done" /\ phase # "down")
        BY <2>1
      <2>5. \A i \in Jobs : tx'[i] # Idle => worker'[i] = "tx" /\ tx'[i].job = i
        BY <2>1 DEF PlaceInv
      <2>6. QED BY <2>1, <2>2, <2>3, <2>4, <2>5, PlaceQuiet
    <1>3. QED BY <1>1, <1>2

LEMMA PlaceRequest ==
    ASSUME PlaceInv, SpendInv', NEW r \in Requests,
           \/ Remove(r)
           \/ \E j \in Jobs : Cancel(r, j) \/ CancelInBatch(r, j) \/ Delete(r, j)
    PROVE  PlaceInv'
    <1>0. TypeOK BY DEF PlaceInv, SpendInv
    <1>1. /\ UNCHANGED <<status, phase, create, held, sched, tasks, worker>>
          /\ queue' \subseteq queue
      BY DEF Remove, Cancel, CancelInBatch, Delete, rows, loop
    <1>2. \A j \in Jobs : tx'[j] = tx[j]
      BY <1>0 DEF Remove, Cancel, CancelInBatch, Delete, TypeOK, Actors
    <1>3. \A j \in Jobs : tx'[j] # Idle => worker'[j] = "tx" /\ tx'[j].job = j
      BY <1>1, <1>2 DEF PlaceInv
    <1>4. QED BY <1>1, <1>3, PlaceQuiet

LEMMA PlaceExecute ==
    ASSUME PlaceInv, SpendInv', NEW j \in Jobs, Execute(j) \/ WorkerRaises(j)
    PROVE  PlaceInv'
    <1>0. TypeOK /\ TypeOK' /\ j \in Actors
      BY DEF PlaceInv, SpendInv, Actors
    <1>1. UNCHANGED <<phase, create, queue, held, sched, tasks>>
      BY DEF Execute, WorkerRaises, Load, MarkRunning, SoftPenalty,
             SelectCandidates, CallAdapter, StoreImages, Deduct, Publish, loop
    <1>2. /\ worker[j] \notin {"none", "finished", "tx"}
          /\ \E w \in WorkerPcs \ {"none"} :
                /\ worker' = [worker EXCEPT ![j] = w]
                /\ \/ tx' = tx
                   \/ /\ w = "tx"
                      /\ \E to, policy : tx' = [tx EXCEPT ![j] = TxFor("read", j, to, policy)]
      BY DEF Execute, WorkerRaises, Load, MarkRunning, SoftPenalty, Goto, Settle, Fail,
             SelectCandidates, CallAdapter, StoreImages, Deduct, Publish, WorkerPcs
    <1>3. \A i \in Jobs :
            /\ worker'[i] = "none" <=> worker[i] = "none"
            /\ worker'[i] = "finished" \/ worker[i] # "finished"
      BY <1>0, <1>2 DEF TypeOK
    <1>4. ASSUME NEW i \in Jobs, tx'[i] # Idle
          PROVE  worker'[i] = "tx" /\ tx'[i].job = i
      <2>1. i \in Actors BY DEF Actors
      <2>2. CASE i = j
        <3>1. tx[j] = Idle BY <1>2 DEF PlaceInv
        <3>2. QED BY <1>0, <1>2, <1>4, <2>2, <3>1 DEF TypeOK, TxFor
      <2>3. CASE i # j
        BY <1>0, <1>2, <1>4, <2>1, <2>3 DEF TypeOK, PlaceInv
      <2>4. QED BY <2>2, <2>3
    <1>5. \A i \in Jobs : status'[i] = NONE => status[i] = NONE
      <2>1. status' = status \/ status' = [status EXCEPT ![j] = RUNNING]
        BY DEF Execute, WorkerRaises, Load, MarkRunning, SoftPenalty,
               SelectCandidates, CallAdapter, StoreImages, Deduct, Publish, rows
      <2>2. QED BY <1>0, <2>1, StatusGraph DEF TypeOK
    <1>6. QED BY <1>1, <1>3, <1>4, <1>5, PlaceQuiet

LEMMA PlaceDispatch ==
    ASSUME PlaceInv, SpendInv', NEW j \in Jobs, Dispatch(j) \/ PopBlocked(j)
    PROVE  PlaceInv'
    <1>0. TypeOK /\ TypeOK' BY DEF PlaceInv, SpendInv
    <1>1. /\ j \in queue /\ sched \in {"idle", "popping"} /\ sched # "off"
          /\ held = {} /\ queue' = queue \ {j}
          /\ UNCHANGED <<status, phase, create, tx>>
          /\ sched' \in {"idle", "stopped", "requeue"}
      BY DEF Dispatch, PopBlocked, CanPop, PlaceInv, rows
    <1>2. worker[j] = "none" /\ status[j] # NONE /\ j \notin tasks /\ create[j] = "done"
      BY <1>1 DEF PlaceInv
    <1>3. phase \notin {"down", "starting"} BY <1>1 DEF PlaceInv
    <1>4. tx[j] = Idle BY <1>2 DEF PlaceInv
    <1>5. CASE Dispatch(j)
      <2>1. /\ tasks' = tasks \cup {j} /\ held' = {}
            /\ worker'[j] = "load"
            /\ \A i \in Jobs : i # j => worker'[i] = worker[i]
        BY <1>0, <1>1, <1>5 DEF Dispatch, TypeOK
      <2>2. QED BY <1>1, <1>2, <1>3, <1>4, <2>1 DEF PlaceInv, Live
    <1>6. CASE PopBlocked(j)
      <2>1. held' = {j} /\ sched' = "requeue" /\ UNCHANGED <<tasks, worker>>
        BY <1>6 DEF PopBlocked
      <2>2. QED BY <1>1, <1>2, <1>3, <2>1 DEF PlaceInv, Live
    <1>7. QED BY <1>5, <1>6

LEMMA PlaceTaskDone ==
    ASSUME PlaceInv, SpendInv', NEW j \in Jobs, Prune(j) \/ TaskDone(j)
    PROVE  PlaceInv'
    <1>0. TypeOK /\ TypeOK' BY DEF PlaceInv, SpendInv
    <1>1. /\ worker[j] = "finished" /\ tasks' = tasks \ {j}
          /\ UNCHANGED <<status, phase, create, queue, held, sched, tx>>
      BY DEF Prune, TaskDone, OnTaskDone, rows
    <1>2. /\ worker'[j] \in {"none", "finished"}
          /\ \A i \in Jobs : i # j => worker'[i] = worker[i]
      BY <1>0 DEF Prune, TaskDone, TypeOK
    <1>3. /\ create[j] = "done" /\ j \notin queue \cup held /\ tx[j] = Idle
          /\ status[j] # NONE /\ phase # "down"
      BY <1>1 DEF PlaceInv
    <1>4. QED BY <1>1, <1>2, <1>3 DEF PlaceInv, Live

LEMMA PlaceLoop ==
    ASSUME PlaceInv, SpendInv', PopBegin \/ Requeue \/ PromoteRaises \/ StopSeen
    PROVE  PlaceInv'
    <1>0. TypeOK /\ TypeOK' BY DEF PlaceInv, SpendInv
    <1>1. UNCHANGED <<status, phase, create, tasks, worker, tx>>
      BY DEF PopBegin, Requeue, PromoteRaises, StopSeen, rows
    <1>2. CASE Requeue
      <2>1. queue' = queue \cup held /\ held' = {} /\ sched' = "idle"
            /\ phase \notin {"down", "starting"}
        BY <1>2 DEF Requeue, PlaceInv
      <2>2. QED BY <1>1, <2>1 DEF PlaceInv, Live
    <1>3. CASE PopBegin \/ PromoteRaises \/ StopSeen
      <2>1. /\ queue' \subseteq queue /\ held' = held /\ held = {}
            /\ sched' # "off" /\ phase \notin {"down", "starting"}
        BY <1>3 DEF PopBegin, PromoteRaises, StopSeen, PlaceInv
      <2>2. \A j \in Jobs : tx'[j] # Idle => worker'[j] = "tx" /\ tx'[j].job = j
        BY <1>1 DEF PlaceInv
      <2>3. QED BY <1>1, <2>1, <2>2, PlaceQuiet
    <1>4. QED BY <1>2, <1>3

LEMMA PlaceGoDown ==
    ASSUME PlaceInv, SpendInv', GoDown
    PROVE  PlaceInv'
    <1>0. TypeOK /\ TypeOK' BY DEF PlaceInv, SpendInv
    <1>1. /\ queue' = {} /\ held' = {} /\ tasks' = {} /\ sched' = "off"
          /\ \A j \in Jobs : /\ worker'[j] = "none" /\ tx'[j] = Idle
                             /\ create'[j] \in {"new", "done"}
      BY DEF GoDown, Actors
    <1>2. QED BY <1>1 DEF PlaceInv, Live

LEMMA PlaceLifespan ==
    ASSUME PlaceInv, SpendInv',
           \/ Drain \/ SweepBegin \/ Restart \/ StartupDone
           \/ CancelScheduler /\ ~GoDown
           \/ \E j \in Jobs : SweepRow(j)
    PROVE  PlaceInv'
    <1>0. TypeOK /\ TypeOK' BY DEF PlaceInv, SpendInv
    <1>1. \A j \in Jobs : tx'[j] = tx[j]
      BY <1>0 DEF Drain, SweepBegin, Restart, StartupDone, CancelScheduler, SweepRow,
                  TypeOK, Actors
    <1>2. UNCHANGED <<status, create, tasks, worker, held>>
      BY DEF Drain, SweepBegin, Restart, StartupDone, CancelScheduler, SweepRow,
             rows, loop
    <1>3. \A j \in Jobs : tx'[j] # Idle => worker'[j] = "tx" /\ tx'[j].job = j
      BY <1>1, <1>2 DEF PlaceInv
    <1>4. CASE Restart
      <2>1. /\ phase = "down" /\ phase' = "starting" /\ sched' = sched
            /\ queue' = Rows(QUEUED) /\ held = {}
        BY <1>4 DEF Restart, PlaceInv
      <2>2. \A j \in Rows(QUEUED) : /\ worker[j] = "none" /\ create[j] = "done"
                                    /\ status[j] # NONE
        BY <2>1, StatusGraph DEF PlaceInv, SpendInv, Rows
      <2>3. QED BY <1>1, <1>2, <2>1, <2>2 DEF PlaceInv, Live
    <1>5. CASE StartupDone
      <2>1. /\ phase' = "up" /\ sched' = "idle" /\ queue' = queue /\ held = {}
        BY <1>5 DEF StartupDone, PlaceInv
      <2>2. QED BY <1>2, <1>3, <2>1, PlaceQuiet
    <1>6. CASE \/ Drain \/ SweepBegin
               \/ CancelScheduler /\ ~GoDown
               \/ \E j \in Jobs : SweepRow(j)
      <2>1. /\ queue' = queue /\ (sched' = sched \/ sched' = "stopped")
            /\ \/ phase' = phase /\ sched' = sched
               \/ phase' \in {"draining", "sweeping", "closing"}
        BY <1>6 DEF Drain, SweepBegin, CancelScheduler, SweepRow, loop
      <2>2. QED BY <1>2, <1>3, <2>1, PlaceQuiet
    <1>7. QED BY <1>4, <1>5, <1>6

LEMMA PlaceStep ==
    ASSUME PlaceInv, [Next]_vars
    PROVE  PlaceInv'
    <1>0. SpendInv' BY SpendStep DEF PlaceInv
    <1>1. CASE UNCHANGED vars
      BY <1>0, <1>1 DEF PlaceInv, Live, vars
    <1>2. CASE Next
      BY <1>0, <1>2, PlaceTransition, PlaceCreate, PlaceRequest, PlaceExecute,
         PlaceDispatch, PlaceTaskDone, PlaceLoop, PlaceGoDown, PlaceLifespan
      DEF Next, Lifespan, Crash, CancelScheduler, Closed
    <1>3. QED BY <1>1, <1>2

LEMMA PlaceInit == Init => PlaceInv
    BY SpendInit DEF Init, PlaceInv, Live, Actors

-----------------------------------------------------------------------------
(* SlotInv.                                                                 *)

LEMMA TasksFinite ==
    ASSUME TypeOK
    PROVE  IsFiniteSet(tasks) /\ \A u \in Users : IsFiniteSet(TasksOf(u))
    <1>1. tasks \in SUBSET Jobs /\ \A u \in Users : TasksOf(u) \in SUBSET Jobs
      BY DEF TypeOK, TasksOf
    <1>2. QED BY <1>1, FS_Subset, JobsAssumption

LEMMA SlotQuiet ==
    ASSUME SlotInv, PlaceInv', tasks' = tasks, slots' = slots,
           sched' = "popping" => sched = "popping" \/ HasFreeSlot
    PROVE  SlotInv'
    BY DEF SlotInv, TasksOf, HasFreeSlot

LEMMA SlotDispatch ==
    ASSUME SlotInv, PlaceInv', NEW j \in Jobs, Dispatch(j)
    PROVE  SlotInv'
    <1> DEFINE U == Owner[j]
    <1>0. TypeOK /\ TypeOK' BY DEF SlotInv, PlaceInv, SpendInv
    <1>1. /\ tasks' = tasks \cup {j} /\ sched' # "popping" /\ j \notin tasks
          /\ slots[U] < MaxConcurrency /\ Cardinality(tasks) < GlobalMaxWorkers
      BY DEF Dispatch, CanPop, UserHasSlot, HasFreeSlot, SlotInv, PlaceInv
    <1>2. U \in Users BY JobsAssumption
    <1>3. /\ slots'[U] = slots[U] + 1
          /\ \A u \in Users : u # U => slots'[u] = slots[u]
      BY <1>0, <1>2 DEF Dispatch, TypeOK
    <1>4. Cardinality(tasks') = Cardinality(tasks) + 1
      BY <1>0, <1>1, TasksFinite, FS_AddElement
    <1>5. Cardinality(tasks') <= GlobalMaxWorkers
      BY <1>0, <1>1, <1>4, TasksFinite, FS_CardinalityType
    <1>6. ASSUME NEW u \in Users
          PROVE  slots'[u] = Cardinality(TasksOf(u)') /\ slots'[u] <= MaxConcurrency
      <2>1. CASE u = U
        <3>1. TasksOf(u)' = TasksOf(u) \cup {j} /\ j \notin TasksOf(u)
          BY <1>1, <2>1 DEF TasksOf
        <3>2. Cardinality(TasksOf(u)') = Cardinality(TasksOf(u)) + 1
          BY <1>0, <3>1, TasksFinite, FS_AddElement
        <3>3. QED BY <1>0, <1>1, <1>3, <2>1, <3>2 DEF SlotInv, TypeOK
      <2>2. CASE u # U
        <3>1. TasksOf(u)' = TasksOf(u)
          BY <1>1, <2>2 DEF TasksOf
        <3>2. QED BY <1>3, <2>2, <3>1 DEF SlotInv
      <2>3. QED BY <2>1, <2>2
    <1>7. QED BY <1>1, <1>5, <1>6 DEF SlotInv

(* The second of the two runs of _on_task_done finds the task gone and      *)
(* gives nothing back.                                                      *)
LEMMA SlotTaskDone ==
    ASSUME SlotInv, PlaceInv', NEW j \in Jobs, OnTaskDone(j), sched' = sched
    PROVE  SlotInv'
    <1> DEFINE U == Owner[j]
    <1>0. TypeOK /\ TypeOK' BY DEF SlotInv, PlaceInv, SpendInv
    <1>1. CASE j \notin tasks
      BY <1>1, SlotQuiet DEF OnTaskDone
    <1>2. CASE j \in tasks
      <2>1. tasks' = tasks \ {j} /\ U \in Users
        BY JobsAssumption DEF OnTaskDone
      <2>2. /\ slots'[U] = IF slots[U] <= 1 THEN 0 ELSE slots[U] - 1
            /\ \A u \in Users : u # U => slots'[u] = slots[u]
        BY <1>0, <1>2, <2>1 DEF OnTaskDone, TypeOK
      <2>3. /\ Cardinality(tasks') = Cardinality(tasks) - 1
            /\ Cardinality(tasks) \in Nat
        BY <1>0, <1>2, <2>1, TasksFinite, FS_RemoveElement, FS_CardinalityType
      <2>4. ASSUME NEW u \in Users
            PROVE  slots'[u] = Cardinality(TasksOf(u)') /\ slots'[u] <= MaxConcurrency
        <3>1. CASE u = U
          <4>1. TasksOf(u)' = TasksOf(u) \ {j} /\ j \in TasksOf(u)
            BY <1>2, <2>1, <3>1 DEF TasksOf
          <4> DEFINE B == TasksOf(u)
          <4>2. Cardinality(TasksOf(u)') = Cardinality(TasksOf(u)) - 1
            <5>1. IsFiniteSet(B) BY <1>0, TasksFinite
            <5>2. TasksOf(u)' = B \ {j} /\ j \in B BY <4>1
            <5> HIDE DEF B
            <5>3. Cardinality(B \ {j}) = Cardinality(B) - 1
              BY ONLY <5>1, <5>2, FS_RemoveElement
            <5> QED BY <5>2, <5>3 DEF B
          <4>3. Cardinality(TasksOf(u)) # 0
            BY <1>0, <4>1, TasksFinite, FS_EmptySet
          <4>4. slots[u] \in Nat /\ slots[u] # 0 /\ slots[u] <= MaxConcurrency
                /\ slots[u] = Cardinality(TasksOf(u))
            BY <1>0, <4>3 DEF SlotInv, TypeOK
          <4>5. QED BY <2>2, <3>1, <4>2, <4>4, LimitsAssumption
        <3>2. CASE u # U
          <4>1. TasksOf(u)' = TasksOf(u)
            BY <2>1, <3>2 DEF TasksOf
          <4>2. QED BY <2>2, <3>2, <4>1 DEF SlotInv
        <3>3. QED BY <3>1, <3>2
      <2>5. /\ Cardinality(tasks') <= GlobalMaxWorkers
            /\ sched' = "popping" => Cardinality(tasks') < GlobalMaxWorkers
        BY <2>3, LimitsAssumption DEF SlotInv
      <2>6. QED BY <2>4, <2>5 DEF SlotInv
    <1>3. QED BY <1>1, <1>2

LEMMA SlotGoDown ==
    ASSUME SlotInv, PlaceInv', GoDown
    PROVE  SlotInv'
    <1>1. tasks' = {} /\ sched' = "off" /\ \A u \in Users : slots'[u] = 0
      BY DEF GoDown
    <1>2. \A u \in Users : TasksOf(u)' = {}
      BY <1>1 DEF TasksOf
    <1>3. /\ Cardinality(tasks') = 0
          /\ \A u \in Users : Cardinality(TasksOf(u)') = 0
      BY <1>1, <1>2, FS_EmptySet
    <1>4. 0 <= MaxConcurrency /\ 0 <= GlobalMaxWorkers BY LimitsAssumption
    <1>5. QED BY <1>1, <1>3, <1>4 DEF SlotInv

LEMMA SlotStep ==
    ASSUME SlotInv, [Next]_vars
    PROVE  SlotInv'
    <1>0. PlaceInv' /\ TypeOK
      BY PlaceStep DEF SlotInv, PlaceInv, SpendInv
    <1>1. CASE UNCHANGED vars
      BY <1>0, <1>1, SlotQuiet DEF vars
    <1>2. ASSUME NEW a \in Actors, Transition(a) PROVE SlotInv'
      BY <1>0, <1>2, TransitionCases, SlotQuiet DEF loop
    <1>3. ASSUME NEW j \in Jobs,
                 Charge(j) \/ InsertUncharged(j) \/ CreateStep(j)
          PROVE  SlotInv'
      BY <1>0, <1>3, SlotQuiet
      DEF Charge, InsertUncharged, CreateStep, Insert, InsertFails, Enqueue, loop
    <1>4. ASSUME NEW j \in Jobs, Execute(j) \/ WorkerRaises(j) \/ SweepRow(j)
          PROVE  SlotInv'
      BY <1>0, <1>4, SlotQuiet
      DEF Execute, WorkerRaises, SweepRow, Load, MarkRunning, SoftPenalty,
          SelectCandidates, CallAdapter, StoreImages, Deduct, Publish, loop
    <1>5. ASSUME NEW r \in Requests, NEW j \in Jobs,
                 Remove(r) \/ Cancel(r, j) \/ CancelInBatch(r, j) \/ Delete(r, j)
          PROVE  SlotInv'
      BY <1>0, <1>5, SlotQuiet DEF Remove, Cancel, CancelInBatch, Delete, loop
    <1>6. ASSUME NEW j \in Jobs, Prune(j) \/ TaskDone(j) PROVE SlotInv'
      BY <1>0, <1>6, SlotTaskDone DEF Prune, TaskDone
    <1>7. ASSUME NEW j \in Jobs, PopBlocked(j) PROVE SlotInv'
      BY <1>0, <1>7, SlotQuiet DEF PopBlocked
    <1>8. CASE PopBegin \/ Requeue \/ PromoteRaises \/ StopSeen
      BY <1>0, <1>8, SlotQuiet DEF PopBegin, Requeue, PromoteRaises, StopSeen
    <1>9. CASE \/ Drain \/ SweepBegin \/ Restart \/ StartupDone
               \/ CancelScheduler /\ ~GoDown
      BY <1>0, <1>9, SlotQuiet
      DEF Drain, SweepBegin, Restart, StartupDone, CancelScheduler, loop
    <1>10. ASSUME NEW r \in Requests, Remove(r) PROVE SlotInv'
      BY <1>0, <1>10, SlotQuiet DEF Remove
    <1>11. QED
      BY <1>0, <1>1, <1>2, <1>3, <1>4, <1>5, <1>6, <1>7, <1>8, <1>9, <1>10,
         SlotDispatch, SlotGoDown
      DEF Next, Lifespan, Crash, CancelScheduler, Closed

LEMMA SlotInit == Init => SlotInv
    <1> SUFFICES ASSUME Init PROVE SlotInv OBVIOUS
    <1>1. PlaceInv BY PlaceInit
    <1>2. tasks = {} /\ sched = "idle" /\ \A u \in Users : slots[u] = 0
      BY DEF Init
    <1>3. \A u \in Users : TasksOf(u) = {} BY <1>2 DEF TasksOf
    <1>4. QED BY <1>1, <1>2, <1>3, FS_EmptySet, LimitsAssumption DEF SlotInv

LEMMA SlotsBound ==
    ASSUME SlotInv
    PROVE  ConcurrencyRespected
    <1>0. TypeOK /\ PlaceInv BY DEF SlotInv, PlaceInv, SpendInv
    <1>1. ASSUME NEW u \in Users
          PROVE  Cardinality({j \in Jobs : Live(j) /\ Owner[j] = u}) <= MaxConcurrency
      <2> DEFINE L == {j \in Jobs : Live(j) /\ Owner[j] = u}
      <2>1. L \in SUBSET TasksOf(u) BY <1>0 DEF PlaceInv, TasksOf
      <2>2. /\ Cardinality(L) <= Cardinality(TasksOf(u))
            /\ Cardinality(L) \in Nat /\ Cardinality(TasksOf(u)) \in Nat
        BY <1>0, <2>1, TasksFinite, FS_Subset, FS_CardinalityType
      <2>3. Cardinality(TasksOf(u)) <= MaxConcurrency
        BY DEF SlotInv
      <2>4. QED BY <2>2, <2>3, LimitsAssumption
    <1>2. Cardinality({j \in Jobs : Live(j)}) <= GlobalMaxWorkers
      <2> DEFINE L == {j \in Jobs : Live(j)}
      <2>1. L \in SUBSET tasks BY <1>0 DEF PlaceInv
      <2>2. /\ Cardinality(L) <= Cardinality(tasks)
            /\ Cardinality(L) \in Nat /\ Cardinality(tasks) \in Nat
        BY <1>0, <2>1, TasksFinite, FS_Subset, FS_CardinalityType
      <2>3. Cardinality(tasks) <= GlobalMaxWorkers
        BY DEF SlotInv
      <2>4. QED BY <2>2, <2>3, LimitsAssumption
    <1>3. QED BY <1>1, <1>2 DEF ConcurrencyRespected

(* Whatever is cancelled, swept, raised or restarted, and although a task's *)
(* end is accounted for in two places, no user has more than MaxConcurrency *)
(* live workers, and the process no more than GlobalMaxWorkers.             *)
THEOREM LimitsHold == Spec => []ConcurrencyRespected
    <1>1. SlotInv /\ [Next]_vars => SlotInv' BY SlotStep
    <1>2. QED BY <1>1, SlotInit, SlotsBound, PTL DEF Spec

-----------------------------------------------------------------------------
(* TrackInv, where no statement raises.                                     *)

(* The ways a row moves, seen by the transitions under way.                 *)
Moves(j) ==
    \/ status'[j] = status[j]
    \/ status'[j] \in Over /\ status[j] # NONE
    \/ status[j] = NONE /\ status'[j] = QUEUED
    \/ status[j] = QUEUED /\ status'[j] = RUNNING /\ tx[j] = Idle

LEMMA TxKept ==
    ASSUME TrackInv, \A j \in Jobs : Moves(j), NEW b \in Actors, tx'[b] = tx[b]
    PROVE  TxTruth(b)'
    <1> SUFFICES ASSUME tx[b] # Idle
                 PROVE  /\ status'[tx[b].job] # NONE
                        /\ tx[b].to = DELETED => status'[tx[b].job] \in Over
                        /\ tx[b].pc = "cas" =>
                              \/ status'[tx[b].job] \in {tx[b].from} \cup Over
                              \/ /\ tx[b].from = QUEUED
                                 /\ status'[tx[b].job] \in Claimed(b)
                        /\ tx[b].pc = "refund" =>
                              status'[tx[b].job] \in Over \cup Claimed(b)
      BY DEF TxTruth, Claimed
    <1> DEFINE J == tx[b].job
    <1>1. TypeOK /\ SpendInv /\ PlaceInv BY DEF TrackInv, PlaceInv, SpendInv
    <1>2. tx[b] \in Transitions /\ J \in Jobs
      BY <1>1 DEF TypeOK, Transitions
    <1>3. /\ status[J] # NONE
          /\ tx[b].to = DELETED => status[J] \in Over
          /\ tx[b].pc = "cas" =>
                \/ status[J] \in {tx[b].from} \cup Over
                \/ tx[b].from = QUEUED /\ status[J] \in Claimed(b)
          /\ tx[b].pc = "refund" => status[J] \in Over \cup Claimed(b)
      BY DEF TrackInv, TxTruth
    <1>4. CASE status'[J] = status[J]
      BY <1>3, <1>4
    <1>5. CASE status'[J] \in Over
      BY <1>5, StatusGraph
    <1>6. CASE status[J] = QUEUED /\ status'[J] = RUNNING /\ tx[J] = Idle
      <2>1. b # J BY <1>6
      <2>2. b # Sweeper
        BY <1>6 DEF TrackInv, SweeperTx
      <2>3. b \notin Jobs
        BY <1>1, <2>1 DEF PlaceInv
      <2>4. b \in Requests /\ Claimed(b) = {RUNNING}
        BY <2>2, <2>3 DEF Actors, Claimed
      <2>5. tx[b].pc = "cas" => tx[b].from = QUEUED
        BY <1>3, <1>6, <2>4, StatusGraph
      <2>6. QED BY <1>3, <1>6, <2>4, <2>5, StatusGraph
    <1>7. QED BY <1>2, <1>3, <1>4, <1>5, <1>6 DEF Moves

(* A transition that came to its end has settled its row, unless it is a    *)
(* request's and a worker claimed the row first.                            *)
LEMMA EndedSettles ==
    ASSUME TrackInv, ~DbMayFail, NEW a \in Actors, tx[a] # Idle,
           Ended(a) \/ (tx[a].pc = "refund" /\ status' = status)
    PROVE  status'[tx[a].job] \in Over \cup Claimed(a)
    <1> DEFINE J == tx[a].job
    <1>1. TypeOK /\ SpendInv BY DEF TrackInv, PlaceInv, SpendInv
    <1>2. /\ tx[a] \in Transitions /\ J \in Jobs /\ tx[a].to \in Over
          /\ status[J] \in Statuses
      BY <1>1 DEF TypeOK, Transitions
    <1>3. TxTruth(a) BY DEF TrackInv
    <1>4. CASE /\ tx[a].pc = "read" /\ tx[a].to \notin Allowed[status[J]]
               /\ status' = status
      <2>1. status[J] # NONE BY <1>3 DEF TxTruth
      <2>2. tx[a].to = DELETED => status[J] \in Over BY <1>3 DEF TxTruth
      <2>3. tx[a].to = SUCCEEDED => status[J] # QUEUED
        BY <1>1, <1>2 DEF SpendInv
      <2>4. /\ Allowed[QUEUED] = {RUNNING, CANCELLED, FAILED}
            /\ Allowed[RUNNING] = {SUCCEEDED, FAILED, CANCELLED}
        BY DEF Allowed, Statuses, Settled, NONE, QUEUED, RUNNING, SUCCEEDED,
               FAILED, CANCELLED, DELETED
      <2>5. status[J] \notin {QUEUED, RUNNING}
        BY <1>2, <1>4, <2>2, <2>3, <2>4, StatusGraph
      <2>6. status[J] \in Over
        BY <1>2, <2>1, <2>5, StatusGraph DEF Statuses
      <2>7. QED BY <1>4, <2>6
    <1>5. CASE tx[a].pc = "cas" /\ status' = [status EXCEPT ![J] = tx[a].to]
      BY <1>1, <1>2, <1>5 DEF TypeOK
    <1>6. CASE tx[a].pc = "cas" /\ status[J] # tx[a].from /\ status' = status
      BY <1>3, <1>6 DEF TxTruth
    <1>7. CASE tx[a].pc = "refund" /\ status' = status
      BY <1>3, <1>7 DEF TxTruth
    <1>8. QED BY <1>4, <1>5, <1>6, <1>7 DEF Ended

LEMMA TrackTransition ==
    ASSUME TrackInv, PlaceInv', ~DbMayFail, NEW a \in Actors, Transition(a)
    PROVE  TrackInv'
    <1> DEFINE J == tx[a].job
    <1>0. TypeOK /\ TypeOK' /\ SpendInv /\ PlaceInv
      BY DEF TrackInv, PlaceInv, SpendInv
    <1>1. /\ tx[a] \in Transitions /\ tx[a] # Idle /\ J \in Jobs
          /\ UNCHANGED <<phase, create, queue, held>>
      BY <1>0, TransitionCases DEF loop, Transitions
    <1>2. ASSUME NEW j \in Jobs
          PROVE  \/ status'[j] = status[j]
                 \/ status'[j] \in Over /\ status[j] # NONE
      <2>1. CASE /\ tx[a].pc = "cas" /\ status[J] = tx[a].from
                 /\ status' = [status EXCEPT ![J] = tx[a].to]
        <3>1. status[J] # NONE BY <1>1 DEF TrackInv, TxTruth
        <3>2. tx[a].to \in Over BY <1>1 DEF Transitions
        <3>3. QED BY <1>0, <1>1, <2>1, <3>1, <3>2 DEF TypeOK
      <2>2. QED BY <1>0, <2>1, TransitionCases
    <1>3. \A j \in Jobs : Moves(j) BY <1>2 DEF Moves
    <1>4. \A b \in Actors : b # a => tx'[b] = tx[b]
      BY <1>0, TransitionFrame
    <1>5. \/ /\ tx'[a] = [tx[a] EXCEPT !.pc = "cas", !.from = status[J]]
             /\ status' = status /\ UNCHANGED <<worker, sweep>>
          \/ /\ tx'[a] = [tx[a] EXCEPT !.pc = "refund"] /\ UNCHANGED <<worker, sweep>>
             /\ status'[J] \in Over \cup Claimed(a)
          \/ /\ tx'[a] = Idle /\ status'[J] \in Over \cup Claimed(a)
             /\ \A j \in Jobs : j # a => worker'[j] = worker[j]
             /\ a # Sweeper => sweep' = sweep
             /\ sweep' \subseteq sweep /\ sweep \ sweep' \subseteq {J}
      <2>1. CASE /\ tx' = [tx EXCEPT ![a] = [@ EXCEPT !.pc = "cas",
                                                     !.from = status[J]]]
                 /\ status' = status /\ worker' = worker /\ sweep' = sweep
        BY <1>0, <2>1 DEF TypeOK
      <2>2. CASE /\ tx' = [tx EXCEPT ![a].pc = "refund"]
                 /\ worker' = worker /\ sweep' = sweep /\ Ended(a)
        BY <1>0, <1>1, <2>2, EndedSettles DEF TypeOK
      <2>3. CASE Finish(a) /\ (Ended(a) \/ (tx[a].pc = "refund" /\ status' = status))
        <3>1. status'[J] \in Over \cup Claimed(a)
          BY <1>1, <2>3, EndedSettles
        <3>2. QED BY <1>0, <2>3, <3>1 DEF Finish, TypeOK
      <2>4. QED BY <1>0, <2>1, <2>2, <2>3, TransitionCases
    <1>6. TxTruth(a)'
      <2>1. TxTruth(a) BY DEF TrackInv
      <2>2. CASE tx'[a] = Idle BY <2>2 DEF TxTruth
      <2>3. CASE /\ tx'[a] = [tx[a] EXCEPT !.pc = "cas", !.from = status[J]]
                 /\ status' = status
        <3>1. /\ tx'[a].pc = "cas" /\ tx'[a].from = status[J]
              /\ tx'[a].job = J /\ tx'[a].to = tx[a].to
          BY <1>1, <2>3 DEF Transitions
        <3>2. QED BY <1>1, <2>1, <2>3, <3>1 DEF TxTruth
      <2>4. CASE /\ tx'[a] = [tx[a] EXCEPT !.pc = "refund"]
                 /\ status'[J] \in Over \cup Claimed(a)
        <3>1. /\ tx'[a].pc = "refund" /\ tx'[a].job = J /\ tx'[a].to = tx[a].to
          BY <1>1, <2>4 DEF Transitions
        <3>2. status'[J] # NONE
          BY <2>4, StatusGraph DEF Claimed
        <3>3. tx[a].to = DELETED => status'[J] \in Over
          BY <1>1, <1>2, <2>1 DEF TxTruth
        <3>4. QED BY <2>4, <3>1, <3>2, <3>3 DEF TxTruth, Claimed
      <2>5. QED BY <1>5, <2>2, <2>3, <2>4
    <1>7. \A b \in Actors : TxTruth(b)'
      BY <1>3, <1>4, <1>6, TxKept
    <1>8. \/ tx'[a] = Idle /\ status'[J] \in Over \cup Claimed(a)
          \/ /\ tx'[a] # Idle /\ tx'[a].job = J
             /\ tx'[a].to = tx[a].to /\ tx'[a].pc # "remove"
      BY <1>1, <1>5 DEF Transitions, Idle
    <1>9. \A j \in Jobs : OwnTx(j)'
      BY <1>1, <1>4, <1>8 DEF OwnTx, TrackInv, Actors
    <1>10. /\ SweeperTx'
           /\ \A j \in sweep' : status'[j] \notin {NONE, QUEUED}
      <2>1. sweep' \subseteq sweep /\ sweep \subseteq Jobs
        BY <1>0, <1>5 DEF TypeOK
      <2>2. \A j \in sweep' : status'[j] \notin {NONE, QUEUED}
        BY <1>2, <2>1, StatusGraph DEF TrackInv
      <2>3. Sweeper \in Actors /\ SweeperTx BY DEF Actors, TrackInv
      <2>4. tx[Sweeper] # Idle => tx[Sweeper].job \in Jobs
        BY <1>0, <2>3 DEF TypeOK, Transitions
      <2>5. SweeperTx'
        BY <1>1, <1>2, <1>4, <1>8, <2>3, <2>4, StatusGraph DEF SweeperTx
      <2>6. QED BY <2>2, <2>5
    <1>11. QueuedIsTracked'
      <2> SUFFICES ASSUME phase # "down", NEW j \in Jobs, status'[j] = QUEUED
                   PROVE  \/ create[j] = "inserted"
                          \/ j \in queue \cup held
                          \/ worker'[j] \in {"load", "mark", "tx"}
                          \/ \E r \in Requests : tx'[r] # Idle /\ tx'[r].job = j
        BY <1>1 DEF QueuedIsTracked, Rows
      <2>1. status[j] = QUEUED BY <1>2, StatusGraph
      <2>2. CASE worker[j] \in {"load", "mark", "tx"} /\ worker'[j] # worker[j]
        <3>1. a = j /\ status'[J] \in Over \cup Claimed(a)
          BY <1>5, <2>2
        <3>2. J = j /\ a \notin Requests
          BY <1>0, <1>1, <3>1, ActorsAssumption DEF PlaceInv
        <3>3. QED BY <3>1, <3>2, StatusGraph DEF Claimed
      <2>3. ASSUME NEW r \in Requests, tx[r] # Idle, tx[r].job = j
            PROVE  tx'[r] # Idle /\ tx'[r].job = j
        <3>0. r \in Actors BY DEF Actors
        <3>1. CASE r # a BY <1>4, <2>3, <3>0, <3>1
        <3>2. CASE r = a /\ tx'[a] = Idle
          <4>1. status'[j] \in Over \cup Claimed(a)
            BY <1>8, <2>3, <3>2
          <4>2. QED BY <4>1, StatusGraph DEF Claimed
        <3>3. QED BY <1>8, <2>3, <3>1, <3>2
      <2>4. QED BY <2>1, <2>2, <2>3 DEF TrackInv, QueuedIsTracked, Rows
    <1>12. RunningIsOwned'
      <2> SUFFICES ASSUME phase # "down", NEW j \in Jobs, status'[j] = RUNNING
                   PROVE  \/ worker'[j] \in Executing
                          \/ phase = "starting" /\ j \in sweep'
        BY <1>1 DEF RunningIsOwned, Rows
      <2>1. status[j] = RUNNING BY <1>2, StatusGraph
      <2>2. worker'[j] = worker[j]
        <3>1. SUFFICES ASSUME worker'[j] # worker[j] PROVE FALSE OBVIOUS
        <3>2. a = j /\ status'[J] \in Over \cup Claimed(a)
          BY <1>5, <3>1
        <3>3. J = j /\ a \notin Requests
          BY <1>0, <1>1, <3>2, ActorsAssumption DEF PlaceInv
        <3>4. QED BY <3>2, <3>3, StatusGraph DEF Claimed
      <2>3. j \in sweep => j \in sweep'
        <3>1. SUFFICES ASSUME j \in sweep, j \notin sweep' PROVE FALSE OBVIOUS
        <3>2. a = Sweeper /\ j = J /\ status'[J] \in Over \cup Claimed(a)
          BY <1>5, <3>1
        <3>3. QED BY <3>2, ActorsAssumption, StatusGraph DEF Claimed
      <2>4. QED BY <2>1, <2>2, <2>3 DEF TrackInv, RunningIsOwned, Rows
    <1>13. QED BY <1>7, <1>9, <1>10, <1>11, <1>12 DEF TrackInv

(* Steps that leave the rows alone, start and end no transition and keep    *)
(* every job where it is tracked.                                           *)
LEMMA TrackQuiet ==
    ASSUME TrackInv, PlaceInv', status' = status, tx' = tx, sweep' = sweep,
           phase' = phase \/ (phase' # "down" /\ phase \notin {"down", "starting"}),
           \A j \in Jobs :
              /\ \/ create[j] = "inserted" \/ j \in queue \cup held
                 \/ worker[j] \in {"load", "mark", "tx"} /\ status[j] = QUEUED
                 => \/ create'[j] = "inserted" \/ j \in queue' \cup held'
                    \/ worker'[j] \in {"load", "mark", "tx"}
                    \/ status[j] # QUEUED
              /\ worker[j] \in Executing => worker'[j] \in Executing
    PROVE  TrackInv'
    <1>1. \A a \in Actors : TxTruth(a)'
      BY DEF TrackInv, TxTruth, Claimed
    <1>2. SweeperTx' /\ \A j \in Jobs : OwnTx(j)'
      BY DEF TrackInv, SweeperTx, OwnTx
    <1>3. QueuedIsTracked'
      <2> SUFFICES ASSUME phase' # "down", NEW j \in Jobs, status[j] = QUEUED
                   PROVE  \/ create'[j] = "inserted"
                          \/ j \in queue' \cup held'
                          \/ worker'[j] \in {"load", "mark", "tx"}
                          \/ \E r \in Requests : tx'[r] # Idle /\ tx'[r].job = j
        BY DEF QueuedIsTracked, Rows
      <2>1. phase # "down" OBVIOUS
      <2>2. QED BY <2>1 DEF TrackInv, QueuedIsTracked, Rows
    <1>4. RunningIsOwned'
      BY DEF TrackInv, RunningIsOwned, Rows
    <1>5. QED BY <1>1, <1>2, <1>3, <1>4 DEF TrackInv

LEMMA TrackCreate ==
    ASSUME TrackInv, PlaceInv', NEW j \in Jobs,
           Charge(j) \/ InsertUncharged(j) \/ CreateStep(j)
    PROVE  TrackInv'
    <1>0. TypeOK /\ TypeOK' /\ SpendInv /\ PlaceInv
      BY DEF TrackInv, PlaceInv, SpendInv
    <1>1. CASE Insert(j) \/ InsertUncharged(j)
      <2>1. /\ status[j] = NONE /\ status'[j] = QUEUED /\ create'[j] = "inserted"
            /\ \A i \in Jobs : i # j => status'[i] = status[i] /\ create'[i] = create[i]
            /\ UNCHANGED <<phase, queue, held, worker, tx, sweep>>
        BY <1>0, <1>1 DEF Insert, InsertUncharged, SpendInv, TypeOK, loop
      <2>2. \A i \in Jobs : Moves(i) BY <2>1 DEF Moves
      <2>3. \A a \in Actors : TxTruth(a)' BY <2>1, <2>2, TxKept
      <2>4. j \notin sweep /\ sweep \subseteq Jobs
        BY <1>0, <2>1 DEF TrackInv, TypeOK
      <2>5. tx[Sweeper] # Idle => tx[Sweeper].job \in Jobs /\ tx[Sweeper].job # j
        BY <1>0, <2>1 DEF TrackInv, SweeperTx, TypeOK, Transitions, Actors
      <2>6. SweeperTx' BY <2>1, <2>5 DEF TrackInv, SweeperTx
      <2>7. QueuedIsTracked' BY <2>1 DEF TrackInv, QueuedIsTracked, Rows
      <2>8. RunningIsOwned' BY <2>1, StatusGraph DEF TrackInv, RunningIsOwned, Rows
      <2>9. QED BY <2>1, <2>3, <2>4, <2>6, <2>7, <2>8 DEF TrackInv, OwnTx
    <1>2. CASE Charge(j) \/ InsertFails(j) \/ Enqueue(j)
      <2>1. /\ UNCHANGED <<status, phase, worker, tx, sweep, held>>
            /\ queue \subseteq queue'
            /\ create[j] = "inserted" => j \in queue'
            /\ \A i \in Jobs : i # j => create'[i] = create[i]
        BY <1>0, <1>2 DEF Charge, InsertFails, Enqueue, TypeOK, rows, loop
      <2>2. QED BY <2>1, TrackQuiet
    <1>3. QED BY <1>1, <1>2 DEF CreateStep

(* The steps by which a request starts a transition or goes on from the     *)
(* queue; the sweep starts one for its next row.                            *)
LEMMA TrackRequest ==
    ASSUME TrackInv, PlaceInv', NEW r \in Requests,
           \/ Remove(r)
           \/ \E j \in Jobs : Cancel(r, j) \/ CancelInBatch(r, j) \/ Delete(r, j)
    PROVE  TrackInv'
    <1>0. TypeOK /\ TypeOK' /\ PlaceInv /\ r \in Actors /\ r # Sweeper
      BY ActorsAssumption DEF TrackInv, PlaceInv, SpendInv, Actors
    <1>1. /\ UNCHANGED <<status, phase, create, held, worker, sweep>>
          /\ queue' \subseteq queue
          /\ \A a \in Actors : a # r => tx'[a] = tx[a]
      BY <1>0 DEF Remove, Cancel, CancelInBatch, Delete, rows, loop, TypeOK
    <1> DEFINE Started == /\ tx'[r] # Idle
                          /\ tx'[r].pc \in {"remove", "read"}
                          /\ status[tx'[r].job] # NONE
                          /\ tx'[r].to = DELETED => status[tx'[r].job] \in Over
                          /\ tx[r] # Idle => tx'[r].job = tx[r].job
                          /\ queue \ queue' \subseteq {tx'[r].job}
    <1>2. Started
      <2>1. CASE Remove(r)
        <3>1. tx[r] \in Transitions /\ tx[r] # Idle
          BY <1>0, <2>1, BusyIsTransition DEF Remove, Idle
        <3>2. tx'[r] = [tx[r] EXCEPT !.pc = "read"] /\ queue' = queue \ {tx[r].job}
          BY <1>0, <2>1 DEF Remove, TypeOK
        <3>3. /\ tx'[r].pc = "read" /\ tx'[r].job = tx[r].job /\ tx'[r].to = tx[r].to
              /\ tx'[r] # Idle
          BY <3>1, <3>2 DEF Transitions, Idle
        <3>4. TxTruth(r) BY <1>0 DEF TrackInv
        <3>5. QED BY <3>1, <3>2, <3>3, <3>4 DEF TxTruth
      <2>2. ASSUME NEW j \in Jobs, Cancel(r, j) \/ CancelInBatch(r, j) \/ Delete(r, j)
            PROVE  /\ queue' = queue /\ tx[r] = Idle
                   /\ \E pc, to, policy :
                         /\ tx'[r] = TxFor(pc, j, to, policy)
                         /\ pc \in {"remove", "read"} /\ status[j] # NONE
                         /\ to = DELETED => status[j] \in Over
        <3>1. CASE Cancel(r, j) \/ CancelInBatch(r, j)
          BY <1>0, <3>1, StatusGraph
          DEF Cancel, CancelInBatch, loop, TypeOK, CANCELLED, DELETED
        <3>2. CASE Delete(r, j)
          BY <1>0, <3>2, StatusGraph DEF Delete, loop, TypeOK
        <3>3. QED BY <2>2, <3>1, <3>2
      <2>3. ASSUME NEW j \in Jobs, Cancel(r, j) \/ CancelInBatch(r, j) \/ Delete(r, j)
            PROVE  Started
        <3>1. PICK pc, to, policy : /\ tx'[r] = TxFor(pc, j, to, policy)
                                    /\ pc \in {"remove", "read"} /\ status[j] # NONE
                                    /\ to = DELETED => status[j] \in Over
          BY <2>2, <2>3
        <3>2. /\ tx'[r].pc = pc /\ tx'[r].job = j /\ tx'[r].to = to
              /\ tx'[r] # Idle
          BY <3>1 DEF TxFor, Idle
        <3>3. queue' = queue /\ tx[r] = Idle BY <2>2, <2>3
        <3>4. QED BY <3>1, <3>2, <3>3
      <2>4. QED BY <2>1, <2>3
    <1>3. \A a \in Actors : TxTruth(a)'
      <2>1. TxTruth(r)' BY <1>1, <1>2 DEF TxTruth
      <2>2. \A j \in Jobs : Moves(j) BY <1>1 DEF Moves
      <2>3. QED BY <1>1, <2>1, <2>2, TxKept
    <1>4. SweeperTx' /\ \A j \in Jobs : OwnTx(j)'
      BY <1>0, <1>1, ActorsAssumption DEF TrackInv, SweeperTx, OwnTx, Actors
    <1>5. QueuedIsTracked'
      <2> SUFFICES ASSUME phase # "down", NEW j \in Jobs, status[j] = QUEUED
                   PROVE  \/ create[j] = "inserted"
                          \/ j \in queue' \cup held
                          \/ worker[j] \in {"load", "mark", "tx"}
                          \/ \E q \in Requests : tx'[q] # Idle /\ tx'[q].job = j
        BY <1>1 DEF QueuedIsTracked, Rows
      <2>1. ASSUME NEW q \in Requests, tx[q] # Idle, tx[q].job = j
            PROVE  tx'[q] # Idle /\ tx'[q].job = j
        BY <1>1, <1>2, <2>1 DEF Actors
      <2>2. QED BY <1>2, <2>1 DEF TrackInv, QueuedIsTracked, Rows
    <1>6. RunningIsOwned' BY <1>1 DEF TrackInv, RunningIsOwned, Rows
    <1>7. QED BY <1>1, <1>3, <1>4, <1>5, <1>6 DEF TrackInv

LEMMA TrackSweepRow ==
    ASSUME TrackInv, PlaceInv', NEW j \in Jobs, SweepRow(j)
    PROVE  TrackInv'
    <1>0. TypeOK /\ TypeOK' /\ Sweeper \in Actors
      BY DEF TrackInv, PlaceInv, SpendInv, Actors
    <1>1. /\ UNCHANGED <<status, phase, create, queue, held, worker, sweep>>
          /\ \A a \in Actors : a # Sweeper => tx'[a] = tx[a]
          /\ tx'[Sweeper] = TxFor("read", j, FAILED, "won")
          /\ status[j] \notin {NONE, QUEUED}
      BY <1>0 DEF SweepRow, rows, loop, TypeOK, TrackInv
    <1>2. /\ tx'[Sweeper].pc = "read" /\ tx'[Sweeper].job = j
          /\ tx'[Sweeper].to = FAILED /\ FAILED # DELETED
      BY <1>1 DEF TxFor, FAILED, DELETED
    <1>3. \A a \in Actors : TxTruth(a)'
      <2>1. TxTruth(Sweeper)' BY <1>1, <1>2 DEF TxTruth
      <2>2. \A i \in Jobs : Moves(i) BY <1>1 DEF Moves
      <2>3. QED BY <1>1, <2>1, <2>2, TxKept
    <1>4. SweeperTx' BY <1>1, <1>2 DEF SweeperTx
    <1>5. /\ \A i \in Jobs : tx'[i] = tx[i]
          /\ \A r \in Requests : tx'[r] = tx[r]
      BY <1>1, ActorsAssumption DEF Actors
    <1>6. QueuedIsTracked' /\ RunningIsOwned'
      BY <1>1, <1>5 DEF TrackInv, QueuedIsTracked, RunningIsOwned, Rows
    <1>7. QED BY <1>1, <1>3, <1>4, <1>5, <1>6 DEF TrackInv, OwnTx

LEMMA TrackExecute ==
    ASSUME TrackInv, PlaceInv', ~DbMayFail, NEW j \in Jobs,
           Execute(j) \/ WorkerRaises(j)
    PROVE  TrackInv'
    <1>0. /\ TypeOK /\ TypeOK' /\ SpendInv /\ PlaceInv
          /\ j \in Actors /\ j # Sweeper /\ j \notin Requests
      BY ActorsAssumption DEF TrackInv, PlaceInv, SpendInv, Actors
    <1>1. /\ UNCHANGED <<phase, create, queue, held, sweep>>
          /\ worker[j] \notin {"none", "finished", "tx"}
      BY DEF Execute, WorkerRaises, Load, MarkRunning, SoftPenalty, Goto, Settle,
             Fail, SelectCandidates, CallAdapter, StoreImages, Deduct, Publish, loop
    <1>2. tx[j] = Idle /\ status[j] # NONE
      BY <1>0, <1>1 DEF PlaceInv
    <1>3. \A i \in Jobs : i # j => worker'[i] = worker[i]
      BY <1>0 DEF Execute, WorkerRaises, Load, MarkRunning, SoftPenalty, Goto, Settle,
             Fail, SelectCandidates, CallAdapter, StoreImages, Deduct, Publish, TypeOK
    <1>4. CASE MarkRunning(j)
      <2>1. /\ tx' = tx /\ worker[j] = "mark"
            /\ \/ status[j] = QUEUED /\ status'[j] = RUNNING /\ worker'[j] = "soft"
               \/ status[j] # QUEUED /\ status'[j] = status[j]
            /\ \A i \in Jobs : i # j => status'[i] = status[i]
        BY <1>0, <1>4 DEF MarkRunning, Goto, TypeOK
      <2>2. \A i \in Jobs : Moves(i) BY <1>2, <2>1 DEF Moves
      <2>3. \A a \in Actors : TxTruth(a)' BY <2>1, <2>2, TxKept
      <2>4. \A i \in sweep : status'[i] \notin {NONE, QUEUED}
        BY <1>0, <2>1, StatusGraph DEF TrackInv, TypeOK
      <2>5. tx[Sweeper] # Idle => tx[Sweeper].job \in Jobs
        BY <1>0 DEF TypeOK, Transitions, Actors
      <2>6. SweeperTx' BY <2>1, <2>5, StatusGraph DEF TrackInv, SweeperTx
      <2>7. QueuedIsTracked'
        BY <1>1, <1>3, <2>1, StatusGraph DEF TrackInv, QueuedIsTracked, Rows
      <2>8. RunningIsOwned'
        BY <1>1, <1>3, <2>1, StatusGraph DEF TrackInv, RunningIsOwned, Rows, Executing
      <2>9. QED BY <1>1, <2>1, <2>3, <2>4, <2>6, <2>7, <2>8 DEF TrackInv, OwnTx
    <1>5. CASE ~MarkRunning(j)
      <2>1. /\ status' = status
            /\ \/ /\ worker[j] = "load" /\ worker'[j] \in {"mark", "tx"}
               \/ /\ worker[j] \in Unpaid \cup {"publish"}
                  /\ worker'[j] \in Executing
        BY <1>0, <1>5
        DEF Execute, WorkerRaises, Load, SoftPenalty, Goto, Settle, Fail,
            SelectCandidates, CallAdapter, StoreImages, Deduct, Publish, TypeOK,
            Unpaid, Executing, rows
      <2>2. worker[j] \in Unpaid \cup {"publish"} => status[j] # QUEUED
        BY <1>0 DEF SpendInv
      <2>3. \/ tx' = tx
            \/ \E to \in {FAILED, SUCCEEDED} : \E policy :
                  tx' = [tx EXCEPT ![j] = TxFor("read", j, to, policy)]
        BY <1>5 DEF Execute, WorkerRaises, Load, SoftPenalty, Settle, Fail,
            SelectCandidates, CallAdapter, StoreImages, Deduct, Publish
      <2>4. CASE tx' = tx
        BY <1>1, <1>3, <2>1, <2>2, <2>4, TrackQuiet DEF Executing
      <2>5. CASE \E to \in {FAILED, SUCCEEDED} : \E policy :
                    tx' = [tx EXCEPT ![j] = TxFor("read", j, to, policy)]
        <3>1. /\ \A a \in Actors : a # j => tx'[a] = tx[a]
              /\ tx'[j].pc = "read" /\ tx'[j].job = j /\ tx'[j].to \in {FAILED, SUCCEEDED}
          BY <1>0, <2>5 DEF TypeOK, TxFor
        <3>2. DELETED \notin {FAILED, SUCCEEDED}
          BY DEF DELETED, FAILED, SUCCEEDED
        <3>3. TxTruth(j)' BY <1>2, <2>1, <3>1, <3>2 DEF TxTruth
        <3>4. \A i \in Jobs : Moves(i) BY <2>1 DEF Moves
        <3>5. \A a \in Actors : TxTruth(a)' BY <3>1, <3>3, <3>4, TxKept
        <3>6. \A i \in Jobs : OwnTx(i)'
          BY <3>1 DEF TrackInv, OwnTx, Actors
        <3>7. SweeperTx' BY <1>0, <2>1, <3>1 DEF TrackInv, SweeperTx, Actors
        <3>8. \A r \in Requests : tx'[r] = tx[r] BY <1>0, <3>1 DEF Actors
        <3>9. QueuedIsTracked'
          BY <1>1, <1>3, <2>1, <2>2, <3>8 DEF TrackInv, QueuedIsTracked, Rows
        <3>10. RunningIsOwned'
          BY <1>1, <1>3, <2>1 DEF TrackInv, RunningIsOwned, Rows, Executing
        <3>11. QED
          BY <1>1, <2>1, <3>5, <3>6, <3>7, <3>9, <3>10 DEF TrackInv
      <2>6. QED BY <2>3, <2>4, <2>5
    <1>6. QED BY <1>4, <1>5

LEMMA TrackLoop ==
    ASSUME TrackInv, PlaceInv', ~DbMayFail,
           \/ PopBegin \/ Requeue \/ PromoteRaises \/ StopSeen
           \/ \E j \in Jobs : Dispatch(j) \/ PopBlocked(j) \/ Prune(j) \/ TaskDone(j)
    PROVE  TrackInv'
    <1>0. TypeOK /\ PlaceInv BY DEF TrackInv, PlaceInv, SpendInv
    <1>1. UNCHANGED <<status, tx, sweep, phase, create>>
      BY DEF PopBegin, Requeue, PromoteRaises, StopSeen, Dispatch, PopBlocked,
             Prune, TaskDone, rows
    <1>2. CASE PopBegin \/ Requeue \/ PromoteRaises \/ StopSeen
      <2>1. queue \cup held \subseteq queue' \cup held' /\ worker' = worker
        BY <1>2 DEF PopBegin, Requeue, PromoteRaises, StopSeen
      <2>2. QED BY <1>1, <2>1, TrackQuiet
    <1>3. ASSUME NEW j \in Jobs, Dispatch(j) PROVE TrackInv'
      <2>1. /\ worker[j] = "none" /\ worker'[j] = "load"
            /\ \A i \in Jobs : i # j => worker'[i] = worker[i]
            /\ queue \subseteq queue' \cup {j} /\ held' = held
        BY <1>0, <1>3 DEF Dispatch, CanPop, PlaceInv, TypeOK
      <2>2. QED BY <1>1, <2>1, TrackQuiet DEF Executing
    <1>4. ASSUME NEW j \in Jobs, PopBlocked(j) PROVE TrackInv'
      <2>1. worker' = worker /\ queue \cup held \subseteq queue' \cup held'
        BY <1>0, <1>4 DEF PopBlocked, PlaceInv
      <2>2. QED BY <1>1, <2>1, TrackQuiet
    <1>5. ASSUME NEW j \in Jobs, Prune(j) \/ TaskDone(j) PROVE TrackInv'
      <2>1. /\ worker[j] = "finished" /\ UNCHANGED <<queue, held>>
            /\ \A i \in Jobs : i # j => worker'[i] = worker[i]
        BY <1>0, <1>5 DEF Prune, TaskDone, TypeOK
      <2>2. QED BY <1>1, <2>1, TrackQuiet DEF Executing
    <1>6. QED BY <1>2, <1>3, <1>4, <1>5

LEMMA TrackGoDown ==
    ASSUME TrackInv, PlaceInv', GoDown
    PROVE  TrackInv'
    <1>1. phase' = "down" /\ sweep' = {} /\ \A a \in Actors : tx'[a] = Idle
      BY DEF GoDown
    <1>2. QED
      BY <1>1 DEF TrackInv, TxTruth, OwnTx, SweeperTx, QueuedIsTracked,
                  RunningIsOwned, Actors

LEMMA TrackLifespan ==
    ASSUME TrackInv, PlaceInv',
           \/ Drain \/ SweepBegin \/ Restart \/ StartupDone
           \/ CancelScheduler /\ ~GoDown
    PROVE  TrackInv'
    <1>0. TypeOK /\ PlaceInv BY DEF TrackInv, PlaceInv, SpendInv
    <1>1. UNCHANGED <<status, tx, create, held, worker>>
      BY DEF Drain, SweepBegin, Restart, StartupDone, CancelScheduler, rows, loop
    <1>2. /\ \A a \in Actors : TxTruth(a)'
          /\ \A j \in Jobs : OwnTx(j)'
          /\ SweeperTx'
      BY <1>1 DEF TrackInv, TxTruth, OwnTx, SweeperTx, Claimed
    <1>3. CASE Drain \/ (CancelScheduler /\ ~GoDown)
      <2>1. /\ UNCHANGED <<queue, sweep>>
            /\ phase' # "down" /\ phase \notin {"down", "starting"}
        BY <1>3 DEF Drain, CancelScheduler, loop
      <2>2. QED BY <1>1, <2>1, TrackQuiet
    <1>4. CASE SweepBegin
      <2>1. /\ queue' = queue /\ sweep' = Rows(RUNNING)
            /\ phase = "draining" /\ phase' = "sweeping"
        BY <1>4 DEF SweepBegin, loop
      <2>2. QueuedIsTracked' /\ RunningIsOwned'
        BY <1>1, <2>1 DEF TrackInv, QueuedIsTracked, RunningIsOwned, Rows
      <2>3. QED BY <1>1, <1>2, <2>1, <2>2, StatusGraph DEF TrackInv, Rows
    <1>5. CASE Restart
      <2>1. /\ queue' = Rows(QUEUED) /\ sweep' = Rows(RUNNING)
            /\ phase' = "starting"
        BY <1>5 DEF Restart
      <2>2. QueuedIsTracked' /\ RunningIsOwned'
        BY <1>1, <2>1 DEF QueuedIsTracked, RunningIsOwned, Rows
      <2>3. QED BY <1>1, <1>2, <2>1, <2>2, StatusGraph DEF TrackInv, Rows
    <1>6. CASE StartupDone
      <2>1. /\ queue' = queue /\ sweep = {} /\ sweep' = {}
            /\ phase = "starting" /\ phase' = "up"
        BY <1>6 DEF StartupDone
      <2>2. QueuedIsTracked' /\ RunningIsOwned'
        BY <1>1, <2>1 DEF TrackInv, QueuedIsTracked, RunningIsOwned, Rows
      <2>3. QED BY <1>1, <1>2, <2>1, <2>2 DEF TrackInv
    <1>7. QED BY <1>3, <1>4, <1>5, <1>6

LEMMA TrackStep ==
    ASSUME ~DbMayFail, TrackInv, [Next]_vars
    PROVE  TrackInv'
    <1>0. PlaceInv' BY PlaceStep DEF TrackInv
    <1>1. CASE UNCHANGED vars
      BY <1>0, <1>1, TrackQuiet DEF vars
    <1>2. CASE Next
      BY <1>0, <1>2, TrackTransition, TrackCreate, TrackRequest, TrackSweepRow,
         TrackExecute, TrackLoop, TrackGoDown, TrackLifespan
      DEF Next, Lifespan, Crash, CancelScheduler, Closed
    <1>3. QED BY <1>1, <1>2

LEMMA TrackInit == Init => TrackInv
    BY PlaceInit, StatusGraph
    DEF Init, TrackInv, TxTruth, OwnTx, SweeperTx, QueuedIsTracked, RunningIsOwned,
        Rows, Actors

(* Where no statement raises, an accepted job is never forgotten, for any   *)
(* interleaving of create, cancel, delete, batch cancel and vary with       *)
(* dispatch, shutdowns, crashes and restarts.                               *)
THEOREM QueuedTracked == ~DbMayFail => (Spec => []QueuedIsTracked)
    <1> SUFFICES ASSUME ~DbMayFail PROVE Spec => []QueuedIsTracked
      OBVIOUS
    <1>1. TrackInv /\ [Next]_vars => TrackInv' BY TrackStep
    <1>2. TrackInv => QueuedIsTracked BY DEF TrackInv
    <1>3. QED BY <1>1, <1>2, TrackInit, PTL DEF Spec

(* Likewise no job is left RUNNING by itself.                               *)
THEOREM RunningOwned == ~DbMayFail => (Spec => []RunningIsOwned)
    <1> SUFFICES ASSUME ~DbMayFail PROVE Spec => []RunningIsOwned
      OBVIOUS
    <1>1. TrackInv /\ [Next]_vars => TrackInv' BY TrackStep
    <1>2. TrackInv => RunningIsOwned BY DEF TrackInv
    <1>3. QED BY <1>1, <1>2, TrackInit, PTL DEF Spec

=============================================================================
