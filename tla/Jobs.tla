-------------------------------- MODULE Jobs --------------------------------
(***************************************************************************)
(* The jobs table of apps/common: one row per (job_type, idempotency_key), *)
(* and the transitions JobsRepository makes on a row.  Every mark_* method *)
(* reads the row FOR UPDATE, writes it and commits, so each is one atomic  *)
(* function from a row to a row; the modules that own a jobs variable      *)
(* apply them inside their own actions.                                    *)
(*                                                                         *)
(* Timestamps, duration_ms, trace_id and last_error are left out: no       *)
(* decision of the program reads them.                                     *)
(***************************************************************************)
EXTENDS Naturals

JobStatus == {"pending", "running", "completed", "failed", "dead_letter"}

Job == [status : JobStatus, attempts : Nat]

\* A job key with no row yet.  "none" is not a value of the status column.
NoJob == [status |-> "none", attempts |-> 0]

\* The row get_or_create_job inserts.
NewJob == [status |-> "pending", attempts |-> 0]

\* Mutant of mark_running: the guard on a completed row is missing.
mark_running_unguarded(j) ==
    [status |-> "running", attempts |-> j.attempts + 1]

\* A worker has started an execution: a completed row is left alone.
mark_running(j) ==
    IF j.status # "completed"
    THEN [status |-> "running", attempts |-> j.attempts + 1]
    ELSE j

\* An execution failed and will be retried: a completed row is left alone.
mark_pending_retry(j) ==
    IF j.status # "completed" THEN [j EXCEPT !.status = "pending"] ELSE j

\* These two have no guard: they overwrite whatever the row holds.
mark_completed(j) == [j EXCEPT !.status = "completed"]

mark_failed(j, dead_letter) ==
    [j EXCEPT !.status = IF dead_letter THEN "dead_letter" ELSE "failed"]

\* The outcomes after which no execution is owed to the user any more.
Settled(j) == j.status \in {"completed", "failed", "dead_letter"}
=============================================================================
