----------------------------- MODULE JobContract -----------------------------
(***************************************************************************)
(* What the job pipeline promises about one durable row, whatever the      *)
(* scheduler, the workers, the HTTP handlers and the restarts do:          *)
(*   - its status only moves along the graph of JobStatus;                 *)
(*   - the provider balance is debited for it at most once, and only for   *)
(*     a job that a worker had taken out of QUEUED;                        *)
(*   - it becomes SUCCEEDED only after that debit.                         *)
(***************************************************************************)
EXTENDS Naturals, JobStatus

CONSTANT Jobs

VARIABLES status,   \* jobs.status
          debits    \* rows of billing_ledger for the job

vars == <<status, debits>>

Init == /\ status = [j \in Jobs |-> NONE]
        /\ debits = [j \in Jobs |-> 0]

Move(j, to) ==
    /\ to \in Allowed[status[j]]
    /\ to = SUCCEEDED => debits[j] = 1
    /\ status' = [status EXCEPT ![j] = to]
    /\ UNCHANGED debits

Debit(j) ==
    /\ status[j] \notin {NONE, QUEUED}
    /\ debits[j] = 0
    /\ debits' = [debits EXCEPT ![j] = 1]
    /\ UNCHANGED status

Next == \E j \in Jobs : Debit(j) \/ \E to \in Statuses : Move(j, to)

Spec == Init /\ [][Next]_vars

=============================================================================
