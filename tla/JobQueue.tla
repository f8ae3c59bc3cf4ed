------------------------------ MODULE JobQueue ------------------------------
(***************************************************************************)
(* The four lanes of JobQueue, in the order JobPipeline abstracts from:    *)
(* virtual times, the starvation guard, deadline promotion, positions, and *)
(* the scheduler that pops a job and puts it back when its user is at the  *)
(* ceiling.                                                                *)
(*                                                                         *)
(* A lane is known by its rank, 1 (free) to TopLane (vip).  Virtual times  *)
(* are Fractions in the code and multiples of 1/Unit here.  A value of     *)
(* Jobs stands for one job at a time: it is submitted anew once the        *)
(* previous one has left.                                                  *)
(***************************************************************************)
EXTENDS Integers, FiniteSets, SequencesExt, Filter

CONSTANTS
    Jobs, Tier,          \* Tier[j] is the rank of tier_at_submit
    Varied,              \* jobs that vary_seed may create
    Users, Owner,
    TopLane,
    Unit,                \* a multiple of every weight
    Weights,             \* the weights an admin may configure
    MaxConcurrency,      \* TierSpec.max_concurrency
    GlobalMaxWorkers,
    WindowSize,          \* maxlen of _dispatch_window: 200
    GuardFrom,           \* the guard needs that many dispatches: 20
    ShareOf,             \* min_share_per_lane is 1 / ShareOf: 20
    NormalizeEvery,      \* 10000
    Promotes,            \* deadline_promotion_seconds > 0
    MaxPops,             \* bound: pops explored
    MaxRestarts,         \* bound: restarts explored
    DbMayFail            \* whether the flag update may raise

Lanes == 1 .. TopLane

ASSUME QueueAssumption ==
    /\ {TopLane, Unit, MaxConcurrency, GlobalMaxWorkers, WindowSize, ShareOf, NormalizeEvery,
        MaxPops, MaxRestarts} \subseteq Nat
    /\ Tier \in [Jobs -> Lanes] /\ Owner \in [Jobs -> Users]
    /\ \A w \in Weights : w \in [Lanes -> 1 .. Unit]
    /\ \A w \in Weights, l \in Lanes : Unit % w[l] = 0
    /\ MaxConcurrency > 0 /\ GlobalMaxWorkers > 0
    /\ TopLane < WindowSize /\ GuardFrom \in 1 .. WindowSize
    /\ TopLane <= ShareOf /\ NormalizeEvery > 0

VARIABLES
    lanes,     \* Lane.queue
    vt,        \* Lane.virtual_time
    weight,    \* Lane.weight, as of the last refresh
    window,    \* _dispatch_window
    pops,      \* _ticks
    promoting, \* promotions taken out of their lanes and not yet appended
    promoted,  \* QueuedJob.promoted
    sched,     \* JobScheduler.run_forever
    held,      \* popped, and waiting for the lock to be requeued
    running,   \* jobs dispatched
    queued,    \* QUEUED rows, by queued_at
    flagged,   \* rows whose flags_json says promoted
    expired,   \* jobs past deadline_promotion_seconds
    restarts,
    passed     \* history: pops of other lanes while the lane was not empty

lane  == <<lanes, vt, weight, window, pops, promoting, promoted, passed>>
rows  == <<queued, flagged, expired>>
vars == <<lanes, vt, weight, window, pops, promoting, promoted, sched,
          held, running, queued, flagged, expired, restarts, passed>>

NonEmpty == {l \in Lanes : lanes[l] # <<>>}
Queued   == ToSet(queued)

TypeOK ==
    /\ lanes \in [Lanes -> Seq(Jobs)]
    /\ vt \in [Lanes -> Int]
    /\ weight \in Weights
    /\ window \in Seq(Lanes) /\ Len(window) <= WindowSize
    /\ pops \in 0 .. MaxPops
    /\ promoting \in Seq([job : Jobs, to : Lanes])
    /\ sched \in {"idle", "promoting", "requeue", "dead"}
    /\ held \subseteq [job : Jobs, to : Lanes] /\ Cardinality(held) <= 1
    /\ running \subseteq Jobs
    /\ queued \in Seq(Jobs)
    /\ promoted \subseteq Jobs /\ flagged \subseteq Jobs /\ expired \subseteq Jobs
    /\ restarts \in 0 .. MaxRestarts
    /\ passed \in [Lanes -> Nat]

Init ==
    /\ lanes = [l \in Lanes |-> <<>>]
    /\ vt = [l \in Lanes |-> 0]
    /\ weight \in Weights
    /\ window = <<>> /\ pops = 0
    /\ promoting = <<>> /\ promoted = {}
    /\ sched = "idle" /\ held = {} /\ running = {}
    /\ queued = <<>> /\ flagged = {} /\ expired = {}
    /\ restarts = 0
    /\ passed = [l \in Lanes |-> 0]

\* The queue lock is held across an await only while promotions are marked.
Locked == sched = "promoting"

\* _refresh_lane_weights: what an admin has configured by now.
RefreshWeights == weight' \in Weights

-----------------------------------------------------------------------------
(* What the lanes contain and which is next                                *)

\* A lane that was popped, or is empty, has not been passed over.
Passing(l) == passed' = [m \in Lanes |->
                  IF m = l \/ lanes'[m] = <<>> THEN 0
                  ELSE IF lanes[m] = <<>> THEN 0 ELSE passed[m] + 1]
Emptied == passed' = [m \in Lanes |-> IF lanes'[m] = <<>> THEN 0 ELSE passed[m]]

Dispatched(l) == Cardinality({i \in DOMAIN window : window[i] = l})

\* Mutant of Starved: the share is not compared.
StarvedNever == {}

\* _starved_lane_locked
Starved ==
    {l \in NonEmpty : /\ Len(window) >= GuardFrom
                      /\ Dispatched(l) * ShareOf < Len(window)}

\* The key (virtual_time, -rank): lane l at s goes before lane m at t.
Sooner(l, s, m, t) == s < t \/ (s = t /\ l > m)

\* _pick_lane_locked: among starved lanes the lowest share, then the lowest
\* tier; else the least virtual time, then the highest tier.
NextLane ==
    IF Starved # {}
    THEN CHOOSE l \in Starved : \A m \in Starved :
           \/ Dispatched(l) < Dispatched(m)
           \/ Dispatched(l) = Dispatched(m) /\ l <= m
    ELSE CHOOSE l \in NonEmpty : \A m \in NonEmpty \ {l} :
           Sooner(l, vt[l], m, vt[m])

\* Mutant of Least: position ignores that a pop moves the lane's virtual time.
LeastStatic(gone) ==
    LET rest == {l \in Lanes : gone[l] < Len(lanes[l])}
    IN  CHOOSE l \in rest : \A m \in rest \ {l} : Sooner(l, vt[l], m, vt[m])

\* The lane that pops next once gone[l] jobs of each lane l have been popped.
Least(gone) ==
    LET rest  == {l \in Lanes : gone[l] < Len(lanes[l])}
        at(l) == vt[l] + gone[l] * (Unit \div weight[l])
    IN  CHOOSE l \in rest : \A m \in rest \ {l} : Sooner(l, at(l), m, at(m))

\* position, of every job in a lane: gone[n] is what n simulated pops take.
Places == UNION {{l} \X DOMAIN lanes[l] : l \in Lanes}

Position ==
    LET n == Cardinality(Places)
        gone[k \in 0 .. n] ==
            IF k = 0 THEN [l \in Lanes |-> 0]
            ELSE [gone[k - 1] EXCEPT ![Least(gone[k - 1])] = @ + 1]
    IN  [j \in {lanes[p[1]][p[2]] : p \in Places} |->
            CHOOSE k \in 1 .. n :
                LET l == Least(gone[k - 1])
                IN  lanes[l][gone[k - 1][l] + 1] = j]

-----------------------------------------------------------------------------
(* Callers                                                                 *)

Enqueued(ls, l, j) == [ls EXCEPT ![l] = Append(@, j)]

InLanes == UNION {ToSet(lanes[l]) : l \in Lanes}
Held    == {h.job : h \in held}

\* The row is no longer QUEUED.
Forget(j) ==
    /\ queued' = Kept(queued, Jobs \ {j})
    /\ flagged' = flagged \ {j} /\ expired' = expired \ {j}

\* Insert the row and enqueue it (two steps in JobPipeline); requests that wait for the lock get it in
\* the order they asked.  vary_seed copies the flags of its source into the
\* new row, a promotion included.
Submit(j) ==
    /\ ~Locked /\ j \notin Queued \cup running \cup InLanes \cup Held
    /\ queued' = Append(queued, j)
    /\ \/ UNCHANGED flagged
       \/ j \in Varied /\ flagged' = flagged \cup {j}
    /\ lanes' = Enqueued(lanes, Tier[j], j)
    /\ RefreshWeights
    /\ Emptied
    /\ UNCHANGED <<vt, window, pops, promoting, promoted, sched, held,
                   running, expired, restarts>>

\* remove, and the caller's transition to CANCELLED (two steps in JobPipeline).
\* A job in no lane is not found; the caller cancels its row all the same.
Cancel(j) ==
    /\ ~Locked /\ j \in Queued
    /\ lanes' = [l \in Lanes |-> Kept(lanes[l], Jobs \ {j})]
    /\ Forget(j)
    /\ promoted' = IF j \in InLanes THEN promoted \ {j} ELSE promoted
    /\ Emptied
    /\ UNCHANGED <<vt, weight, window, pops, promoting, sched, held,
                   running, restarts>>

\* deadline_promotion_seconds have passed: the older row first.
Expire(j) ==
    /\ Promotes /\ j \in Queued \ expired
    /\ \A i \in DOMAIN queued :
         queued[i] = j => \A k \in 1 .. i - 1 : queued[k] \in expired
    /\ expired' = expired \cup {j}
    /\ UNCHANGED <<lane, sched, held, running, queued, flagged, restarts>>

\* A job worker ends.
Done(j) ==
    /\ j \in running
    /\ running' = running \ {j}
    /\ UNCHANGED <<lane, sched, held, rows, restarts>>

-----------------------------------------------------------------------------
(* pop_next and the scheduler's loop                                       *)

\* Mutant of Overdue: a job may be promoted again.
OverdueAgain(j, l) == j \in expired /\ l < TopLane

Overdue(j, l) == j \in expired \ promoted /\ l < TopLane

Due(l) == Kept(lanes[l], {j \in Jobs : Overdue(j, l)})

\* _promote_expired_locked: free, then standard, then premium.
Promotions ==
    FlattenSeq([l \in Lanes |->
        [i \in 1 .. Len(Due(l)) |-> [job |-> Due(l)[i], to |-> l + 1]]])

Busy(u) == Cardinality({j \in running : Owner[j] = u}) >= MaxConcurrency

HasFreeWorker == Cardinality(running) < GlobalMaxWorkers

\* _normalize_virtual_times_locked
Normalized(v, ls) ==
    LET full == {l \in Lanes : ls[l] # <<>>}
    IN  [l \in Lanes |-> IF full = {} THEN 0 ELSE v[l] - Min({v[m] : m \in full})]

\* The deque of maxlen WindowSize.
Recorded(l) ==
    IF Len(window) < WindowSize THEN Append(window, l) ELSE Append(Tail(window), l)

\* Take the head of the next lane and charge the lane for it.
Pop(w) ==
    LET l  == NextLane
        v  == [vt EXCEPT ![l] = @ + (Unit \div w[l])]
        ls == [lanes EXCEPT ![l] = Tail(@)]
    IN  /\ pops < MaxPops /\ pops' = pops + 1
        /\ vt' = IF pops' % NormalizeEvery = 0 THEN Normalized(v, ls) ELSE v
        /\ window' = Recorded(l)

NextJob == Head(lanes[NextLane])

DispatchHead ==
    /\ ~Busy(Owner[NextJob])
    /\ lanes' = [lanes EXCEPT ![NextLane] = Tail(@)]
    /\ running' = running \cup {NextJob}
    /\ Forget(NextJob)
    /\ promoted' = promoted \ {NextJob}

Ready == sched = "idle" /\ HasFreeWorker /\ NonEmpty # {}

\* Nothing to promote: pop_next does not suspend.
PopDispatch ==
    /\ Ready /\ Promotions = <<>>
    /\ RefreshWeights
    /\ Pop(weight')
    /\ DispatchHead
    /\ Passing(NextLane)
    /\ UNCHANGED <<promoting, sched, held, restarts>>

\* The user is at the ceiling: no one waits for the lock, so the job is
\* requeued at once, at the tail of the lane it was in.
PopRequeue ==
    /\ Ready /\ Promotions = <<>> /\ Busy(Owner[NextJob])
    /\ RefreshWeights
    /\ Pop(weight')
    /\ lanes' = Enqueued([lanes EXCEPT ![NextLane] = Tail(@)], NextLane, NextJob)
    /\ Passing(NextLane)
    /\ UNCHANGED <<promoting, promoted, sched, held, running, rows, restarts>>

\* Mutant of PromoteBegin: the promotions stay in their lanes too.
PromoteBeginKeeping ==
    /\ Ready /\ Promotions # <<>>
    /\ promoting' = Promotions
    /\ sched' = "promoting"
    /\ RefreshWeights
    /\ UNCHANGED <<lanes, passed, vt, window, pops, promoted, held, running,
                   rows, restarts>>

PromoteBegin ==
    /\ Ready /\ Promotions # <<>>
    /\ promoting' = Promotions
    /\ lanes' = [l \in Lanes |-> Kept(lanes[l], {j \in Jobs : ~Overdue(j, l)})]
    /\ sched' = "promoting"
    /\ RefreshWeights
    /\ Emptied
    /\ UNCHANGED <<vt, window, pops, promoted, held, running, rows, restarts>>

\* Mutant of Promoted: a promoted job goes to the head of its new lane.
PromotedFirst(p) == [lanes EXCEPT ![p.to] = <<p.job>> \o @]

Promoted(p) == Enqueued(lanes, p.to, p.job)

\* Append the next promotion, then _mark_promoted.
Promote ==
    /\ sched = "promoting" /\ promoting # <<>>
    /\ LET p == Head(promoting) IN
         /\ lanes' = Promoted(p)
         /\ promoted' = promoted \cup {p.job}
         /\ flagged' = flagged \cup {p.job}
    /\ promoting' = Tail(promoting)
    /\ UNCHANGED <<vt, weight, window, pops, passed, sched, held, running,
                   queued, expired, restarts>>

\* _mark_promoted raises: the promotions after it are lost, and the loop ends.
PromoteRaises ==
    /\ DbMayFail
    /\ sched = "promoting" /\ promoting # <<>>
    /\ LET p == Head(promoting) IN
         /\ lanes' = Promoted(p)
         /\ promoted' = promoted \cup {p.job}
    /\ promoting' = <<>>
    /\ sched' = "dead"
    /\ UNCHANGED <<vt, weight, window, pops, passed, held, running, rows, restarts>>

\* The pop after the promotions.  Who waited for the lock gets it before a
\* requeue does.
PopPromoted ==
    /\ sched = "promoting" /\ promoting = <<>>
    /\ Pop(weight)
    /\ \/ DispatchHead /\ sched' = "idle" /\ UNCHANGED held
       \/ /\ Busy(Owner[NextJob])
          /\ lanes' = [lanes EXCEPT ![NextLane] = Tail(@)]
          /\ held' = {[job |-> NextJob, to |-> NextLane]} /\ sched' = "requeue"
          /\ UNCHANGED <<running, rows, promoted>>
    /\ Passing(NextLane)
    /\ UNCHANGED <<weight, promoting, restarts>>

Requeue ==
    /\ sched = "requeue"
    /\ \E h \in held : lanes' = Enqueued(lanes, h.to, h.job)
    /\ held' = {} /\ sched' = "idle"
    /\ RefreshWeights
    /\ UNCHANGED <<vt, window, pops, promoting, promoted, passed, running,
                   rows, restarts>>

-----------------------------------------------------------------------------
\* The process ends, by a shutdown or a crash, and the next one restores the
\* QUEUED rows (restore_queued_jobs, QueuedJob.from_job).
Restart ==
    /\ restarts < MaxRestarts
    /\ restarts' = restarts + 1
    /\ lanes' = [l \in Lanes |-> Kept(queued, {j \in Jobs : Tier[j] = l})]
    /\ promoted' = flagged
    /\ vt' = [l \in Lanes |-> 0] /\ RefreshWeights
    /\ window' = <<>> /\ pops' = 0
    /\ promoting' = <<>> /\ sched' = "idle" /\ held' = {} /\ running' = {}
    /\ passed' = [l \in Lanes |-> 0]
    /\ UNCHANGED rows

Next ==
    \/ \E j \in Jobs : Submit(j) \/ Cancel(j) \/ Expire(j) \/ Done(j)
    \/ PopDispatch \/ PopRequeue
    \/ PromoteBegin \/ Promote \/ PromoteRaises \/ PopPromoted
    \/ Requeue
    \/ Restart

Spec == Init /\ [][Next]_vars

-----------------------------------------------------------------------------
(* Properties                                                              *)

Copies(j) ==
    Cardinality({p \in Places : lanes[p[1]][p[2]] = j})
      + Cardinality({i \in DOMAIN promoting : promoting[i].job = j})
      + Cardinality({h \in held : h.job = j})

\* While the loop lives every QUEUED row is in the queue exactly once, through
\* promotions, requeues, cancels and restarts (pop_next, requeue, remove).
EachJobOnce ==
    /\ \A j \in Jobs : Copies(j) <= 1
    /\ sched # "dead" => \A j \in Queued : Copies(j) = 1

\* A job is promoted one tier at most, however long it waits and however often
\* it is requeued (PROMOTION_TARGET, QueuedJob.promoted).
OneTierUp ==
    \A l \in Lanes : \A j \in ToSet(lanes[l]) :
        l = Tier[j] \/ (l = Tier[j] + 1 /\ j \in promoted)

\* The starvation guard: no lane with jobs is passed over for longer than the
\* window, and a turn of each other lane (_starved_lane_locked).
NoLaneStarves == \A l \in Lanes : passed[l] < WindowSize + TopLane

\* position says when a job is dispatched: with nothing promoted, no lane
\* starved and the weights unchanged, a dispatch takes the job at position 1
\* and every other job moves up by one, normalisation or not.
PositionCountsDown ==
    [][ pops' = pops + 1 /\ sched = "idle" /\ running' # running
          /\ Starved = {} /\ weight' = weight
        => LET left == DOMAIN Position'
           IN  /\ \A j \in DOMAIN Position \ left : Position[j] = 1
               /\ \A j \in left : Position'[j] = Position[j] - 1 ]_vars

Place(j) == CHOOSE p \in Places : lanes[p[1]][p[2]] = j

\* Within a lane no step puts a job behind another one, but its own requeue:
\* promotions and submissions go to the tail (class Lane: one FIFO lane).
NeverPushedBack ==
    [][ restarts' = restarts =>
          \A j \in InLanes \cap InLanes' :
              LET p == Place(j)  q == Place(j)'
              IN  p[1] = q[1] /\ q[2] > p[2] => pops' = pops + 1 /\ p[2] = 1 ]_vars

\* Refuted: a restart keeps the tier a job was promoted to.  QueuedJob.from_job
\* restores the flag that forbids another promotion, but not lane_tier.
PromotionSurvivesRestart ==
    \A l \in Lanes : \A j \in ToSet(lanes[l]) : j \in promoted => l = Tier[j] + 1

=============================================================================
