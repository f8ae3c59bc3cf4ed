------------------------------ MODULE JobStatus ------------------------------
(***************************************************************************)
(* The six values of jobs.status and the transition graph that             *)
(* JobLifecycle enforces as data (job_lifecycle.py).  The pseudo status    *)
(* NONE is the dictionary key None: the row has not been inserted yet.     *)
(***************************************************************************)

NONE      == "NONE"
QUEUED    == "QUEUED"
RUNNING   == "RUNNING"
SUCCEEDED == "SUCCEEDED"
FAILED    == "FAILED"
CANCELLED == "CANCELLED"
DELETED   == "DELETED"

Statuses == {NONE, QUEUED, RUNNING, SUCCEEDED, FAILED, CANCELLED, DELETED}

Settled == {SUCCEEDED, FAILED, CANCELLED}  \* the work is over, the row is kept
Over    == Settled \cup {DELETED}

\* _ALLOWED_TRANSITIONS
Allowed ==
    [s \in Statuses |->
        CASE s = NONE       -> {QUEUED}
          [] s = QUEUED     -> {RUNNING, CANCELLED, FAILED}
          [] s = RUNNING    -> {SUCCEEDED, FAILED, CANCELLED}
          [] s \in Settled  -> {DELETED}
          [] s = DELETED    -> {}]

=============================================================================
