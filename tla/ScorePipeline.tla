--------------------------- MODULE ScorePipeline ----------------------------
(***************************************************************************)
(* The whole life of an assessment: AssessmentsApi publishes tasks, Celery *)
(* workers run process_assessment_task, and both share the assessments and *)
(* jobs tables.                                                            *)
(*                                                                         *)
(* A worker acknowledges a message when it takes it (acks_late is never    *)
(* set), so a message that is being executed exists only in the worker.    *)
(* A task runs in several sessions: one for mark_running and               *)
(* process_assessment, one for each later mark_* call.  Its actions are    *)
(* cut at the commits, as in AssessmentsApi.  The ORM writes a column only *)
(* when it differs from the value this session loaded or last wrote, so    *)
(* the worker carries that value (loaded) along.                           *)
(***************************************************************************)
EXTENDS AssessmentsApi

CONSTANTS
    Workers,        \* Celery worker processes
    MaxRetries,     \* score_task_max_retries
    MaxInterrupts,  \* bound: transient errors and soft time limits
    MaxCrashes      \* bound: workers killed in the middle of a task

ASSUME PipelineAssumption ==
    MaxRetries \in Nat /\ MaxInterrupts \in Nat /\ MaxCrashes \in Nat

VARIABLES
    results,        \* the assessment_results row of each assessment
    deadLetters,    \* events published to dead_letter_queue
    wrk,            \* the task each worker is running
    interrupts, crashes

workVars == <<results, deadLetters, wrk, interrupts, crashes>>
vars     == <<used, snapshots, assessments, jobs, queue, dispatches, req,
              posts, faults, results, deadLetters, wrk, interrupts, crashes>>

-----------------------------------------------------------------------------
(***************************************************************************)
(* A result row with its assessment_result_items abstracted to whether     *)
(* there are any: a program version whose groups have no outcome gives a   *)
(* "bare" result.  gen tells a row from the one that replaced it.          *)
(***************************************************************************)
ResultKind == {"none", "bare", "itemized"}

Result == [gen : Nat, kind : ResultKind]

NoResult == [gen |-> 0, kind |-> "none"]

\* What a task can raise, by the classes app/core/retry.py tells apart.
Error == {"none", "ValueError", "IntegrityError", "PendingRollbackError",
          "Transient"}

NoMessage == << >>

WorkerPc == {"idle", "start", "load", "set_running", "compute", "refresh",
             "mark_completed", "failure", "republish", "emit"}

Task == [pc     : WorkerPc,
         msg    : Message \cup {NoMessage},
         status : AssessmentStatus \cup {"absent"},  \* assessment.status
         row    : Result,               \* assessment.result, then result
         cause  : Error,                             \* the first error
         exc    : Error]                             \* what reached the task

IdleTask == [pc |-> "idle", msg |-> NoMessage, status |-> "absent",
             row |-> NoResult, cause |-> "none", exc |-> "none"]

TypeOK ==
    /\ ApiTypeOK
    /\ results \in [Ids -> Result]
    /\ deadLetters \subseteq Message
    /\ wrk \in [Workers -> Task]
    /\ \A w \in Workers : wrk[w].pc # "idle" => wrk[w].msg \in Message
    /\ interrupts \in 0 .. MaxInterrupts
    /\ crashes \in 0 .. MaxCrashes

Init ==
    /\ ApiInit
    /\ results = [id \in Ids |-> NoResult]
    /\ deadLetters = {}
    /\ wrk = [w \in Workers |-> IdleTask]
    /\ interrupts = 0
    /\ crashes = 0

-----------------------------------------------------------------------------
Target(w) == wrk[w].msg.id

Advance(w, p) == wrk' = [wrk EXCEPT ![w].pc = p]

\* The task of w ends.
Release(w) == wrk' = [wrk EXCEPT ![w] = IdleTask]

\* An exception leaves _run_assessment_job or _mark_job_completed.
Raise(w, cause, exc) ==
    wrk' = [wrk EXCEPT ![w] =
              [@ EXCEPT !.pc = "failure", !.cause = cause, !.exc = exc]]

\* set_assessment_status: the UPDATE is emitted only for a changed status.
WriteStatus(w, s) ==
    assessments' = IF wrk[w].status # s
                   THEN [assessments EXCEPT ![Target(w)] = s]
                   ELSE assessments

\* What every worker action leaves alone.
apiOwned == <<used, snapshots, dispatches, req, posts, faults>>

\* Mutant of Take: the message stays in the queue until the task ends.
Take_unacknowledged(w, m) ==
    /\ wrk[w].pc = "idle"
    /\ m \in queue
    /\ wrk' = [wrk EXCEPT ![w] = [IdleTask EXCEPT !.pc = "start", !.msg = m]]
    /\ UNCHANGED <<apiOwned, assessments, jobs, queue, results, deadLetters,
                   interrupts, crashes>>

\* The broker hands a message to an idle worker, which acknowledges it.
Take(w, m) ==
    /\ wrk[w].pc = "idle"
    /\ m \in queue
    /\ queue' = queue \ {m}
    /\ wrk' = [wrk EXCEPT ![w] = [IdleTask EXCEPT !.pc = "start", !.msg = m]]
    /\ UNCHANGED <<apiOwned, assessments, jobs, results, deadLetters,
                   interrupts, crashes>>

MarkRunning(w) ==
    /\ wrk[w].pc = "start"
    /\ jobs' = [jobs EXCEPT ![Target(w)] = mark_running(@)]
    /\ Advance(w, "load")
    /\ UNCHANGED <<apiOwned, assessments, queue, results, deadLetters,
                   interrupts, crashes>>

\* Mutant of LoadAssessment: whatever is past pending counts as done.
LoadAssessment_started_is_done(w) ==
    LET id   == Target(w)
        done == assessments[id] # "pending"
    IN  /\ wrk[w].pc = "load"
        /\ wrk' = [wrk EXCEPT ![w] =
                     [@ EXCEPT
                        !.pc = IF done THEN "mark_completed" ELSE "set_running",
                        !.status = assessments[id],
                        !.row = results[id]]]
        /\ UNCHANGED <<apiOwned, assessments, jobs, queue, results,
                       deadLetters, interrupts, crashes>>

(***************************************************************************)
(* process_assessment loads the assessment with its result in one SELECT   *)
(* and returns at once when both say that the work is done.                *)
(***************************************************************************)
LoadAssessment(w) ==
    LET id   == Target(w)
        done == results[id].kind # "none" /\ assessments[id] = "completed"
    IN  /\ wrk[w].pc = "load"
        /\ wrk' = [wrk EXCEPT ![w] =
                     [@ EXCEPT
                        !.pc = IF done THEN "mark_completed" ELSE "set_running",
                        !.status = assessments[id],
                        !.row = results[id]]]
        /\ UNCHANGED <<apiOwned, assessments, jobs, queue, results,
                       deadLetters, interrupts, crashes>>

SetRunning(w) ==
    /\ wrk[w].pc = "set_running"
    /\ WriteStatus(w, "running")
    /\ wrk' = [wrk EXCEPT ![w] =
                     [@ EXCEPT !.pc = "compute", !.status = "running"]]
    /\ UNCHANGED <<apiOwned, jobs, queue, results, deadLetters, interrupts,
                   crashes>>

\* Mutant of ComputeFails: a status of the job written to the assessment.
ComputeFails_dead_letter(w) ==
    /\ wrk[w].pc = "compute"
    /\ WriteStatus(w, "dead_letter")
    /\ Raise(w, "ValueError", "ValueError")
    /\ UNCHANGED <<apiOwned, jobs, queue, results, deadLetters, interrupts,
                   crashes>>

(***************************************************************************)
(* _compute_and_persist_assessment finds no active version for the         *)
(* requested date or no rules, or the engine refuses the profile: the      *)
(* status is set to failed and the ValueError goes on to the task.         *)
(***************************************************************************)
ComputeFails(w) ==
    /\ wrk[w].pc = "compute"
    /\ WriteStatus(w, "failed")
    /\ Raise(w, "ValueError", "ValueError")
    /\ UNCHANGED <<apiOwned, jobs, queue, results, deadLetters, interrupts,
                   crashes>>

\* Mutant of FlushFails: the delete of a result cascades to its items.
FlushFails_cascade(w) ==
    LET cur == results[Target(w)]
    IN  cur.kind # "none" /\ cur # wrk[w].row

(***************************************************************************)
(* replace_assessment_result.  Deleting the loaded row first sets the      *)
(* foreign key of its items to NULL, which the column forbids; a row that  *)
(* the session did not load is not deleted and collides with the new one   *)
(* on uq_assessment_results_assessment_id.                                 *)
(***************************************************************************)
FlushFails(w) ==
    LET row == wrk[w].row
        cur == results[Target(w)]
    IN  \/ row.kind = "itemized"
        \/ cur.kind # "none" /\ cur # row

\* Mutant of PersistResult: the status has a commit of its own, before.
PersistResult_status_first(w, kind) ==
    LET id  == Target(w)
        new == [gen |-> results[id].gen + 1, kind |-> kind]
    IN  /\ wrk[w].pc = "compute"
        /\ ~FlushFails(w)
        /\ \/ /\ wrk[w].status # "completed"
              /\ WriteStatus(w, "completed")
              /\ wrk' = [wrk EXCEPT ![w].status = "completed"]
              /\ UNCHANGED results
           \/ /\ wrk[w].status = "completed"
              /\ results' = [results EXCEPT ![id] = new]
              /\ wrk' = [wrk EXCEPT ![w] =
                           [@ EXCEPT !.pc = "refresh", !.row = new]]
              /\ UNCHANGED assessments
        /\ UNCHANGED <<apiOwned, jobs, queue, deadLetters, interrupts,
                       crashes>>

\* Result, items and status completed are committed together.
PersistResult(w, kind) ==
    LET id  == Target(w)
        new == [gen |-> results[id].gen + 1, kind |-> kind]
    IN  /\ wrk[w].pc = "compute"
        /\ ~FlushFails(w)
        /\ results' = [results EXCEPT ![id] = new]
        /\ WriteStatus(w, "completed")
        /\ wrk' = [wrk EXCEPT ![w] =
                     [@ EXCEPT !.pc = "refresh", !.status = "completed",
                               !.row = new]]
        /\ UNCHANGED <<apiOwned, jobs, queue, deadLetters, interrupts,
                       crashes>>

(***************************************************************************)
(* The flush raises IntegrityError and leaves the session unusable: the    *)
(* commit that should set the status to failed raises                      *)
(* PendingRollbackError, which takes the place of the first error.         *)
(***************************************************************************)
PersistCollides(w) ==
    /\ wrk[w].pc = "compute"
    /\ FlushFails(w)
    /\ Raise(w, "IntegrityError", "PendingRollbackError")
    /\ UNCHANGED <<apiOwned, assessments, jobs, queue, results, deadLetters,
                   interrupts, crashes>>

(***************************************************************************)
(* A rule outcome or condition named by an item has been deleted since it  *)
(* was read.  The items are flushed by the commit itself, and that flush   *)
(* leaves the session waiting for a rollback like any other: again the     *)
(* status stays and PendingRollbackError takes the error's place.          *)
(***************************************************************************)
PersistRejected(w) ==
    /\ wrk[w].pc = "compute"
    /\ ~FlushFails(w)
    /\ Raise(w, "IntegrityError", "PendingRollbackError")
    /\ UNCHANGED <<apiOwned, assessments, jobs, queue, results, deadLetters,
                   interrupts, crashes>>

(***************************************************************************)
(* The refresh of the new row, which ends process_assessment.  A row that  *)
(* another task has replaced since the commit cannot be refreshed: the     *)
(* error leaves through the except clause of process_assessment.           *)
(***************************************************************************)
RefreshResult(w) ==
    /\ wrk[w].pc = "refresh"
    /\ \/ /\ results[Target(w)] = wrk[w].row
          /\ Advance(w, "mark_completed")
          /\ UNCHANGED assessments
       \/ /\ results[Target(w)] # wrk[w].row
          /\ WriteStatus(w, "failed")
          /\ Raise(w, "Transient", "Transient")
    /\ UNCHANGED <<apiOwned, jobs, queue, results, deadLetters, interrupts,
                   crashes>>

MarkCompleted(w) ==
    /\ wrk[w].pc = "mark_completed"
    /\ jobs' = [jobs EXCEPT ![Target(w)] = mark_completed(@)]
    /\ Release(w)
    /\ UNCHANGED <<apiOwned, assessments, queue, results, deadLetters,
                   interrupts, crashes>>

(***************************************************************************)
(* A database error, or the soft time limit, outside the try block of      *)
(* process_assessment.  mark_completed still has to refresh the row when   *)
(* its commit is done, so the job may be completed and the task fail.      *)
(***************************************************************************)
InterruptOutside(w) ==
    /\ wrk[w].pc \in {"start", "load", "set_running", "mark_completed"}
    /\ interrupts < MaxInterrupts
    /\ interrupts' = interrupts + 1
    /\ Raise(w, "Transient", "Transient")
    /\ \/ UNCHANGED jobs
       \/ /\ wrk[w].pc = "mark_completed"
          /\ jobs' = [jobs EXCEPT ![Target(w)] = mark_completed(@)]
    /\ UNCHANGED <<apiOwned, assessments, queue, results, deadLetters,
                   crashes>>

(***************************************************************************)
(* The same inside the try block, which is left only after the refresh.    *)
(* The except clause sets the status to failed, unless the database is     *)
(* still unreachable or the signal hit the event loop, which cancels the   *)
(* coroutine: then the status stays as it is.                              *)
(***************************************************************************)
InterruptInside(w) ==
    /\ wrk[w].pc \in {"compute", "refresh"}
    /\ interrupts < MaxInterrupts
    /\ interrupts' = interrupts + 1
    /\ WriteStatus(w, "failed") \/ UNCHANGED assessments
    /\ Raise(w, "Transient", "Transient")
    /\ UNCHANGED <<apiOwned, jobs, queue, results, deadLetters, crashes>>

\* app/core/retry.py: everything that is not definitive is transient.
is_definitive_error(exc) == exc \in {"ValueError", "IntegrityError"}

GivesUp(w) ==
    is_definitive_error(wrk[w].exc) \/ wrk[w].msg.retries >= MaxRetries

\* _handle_failure, up to the commit of the job's row.
HandleFailure(w) ==
    /\ wrk[w].pc = "failure"
    /\ \/ /\ GivesUp(w)
          /\ jobs' = [jobs EXCEPT ![Target(w)] = mark_failed(@, TRUE)]
          /\ Advance(w, "emit")
       \/ /\ ~GivesUp(w)
          /\ jobs' = [jobs EXCEPT ![Target(w)] = mark_pending_retry(@)]
          /\ Advance(w, "republish")
    /\ UNCHANGED <<apiOwned, assessments, queue, results, deadLetters,
                   interrupts, crashes>>

\* Mutant of Republish: the task ends without task.retry.
Republish_forgotten(w) ==
    /\ wrk[w].pc = "republish"
    /\ Release(w)
    /\ UNCHANGED <<apiOwned, assessments, jobs, queue, results, deadLetters,
                   interrupts, crashes>>

\* task.retry publishes the same task with one more retry.
Republish(w) ==
    /\ wrk[w].pc = "republish"
    /\ queue' = queue \cup {[wrk[w].msg EXCEPT !.retries = @ + 1]}
    /\ Release(w)
    /\ UNCHANGED <<apiOwned, assessments, jobs, results, deadLetters,
                   interrupts, crashes>>

\* _emit_dead_letter swallows the error of a publish that fails.
EmitDeadLetter(w) ==
    /\ wrk[w].pc = "emit"
    /\ \/ deadLetters' = deadLetters \cup {wrk[w].msg}
       \/ UNCHANGED deadLetters
    /\ Release(w)
    /\ UNCHANGED <<apiOwned, assessments, jobs, queue, results, interrupts,
                   crashes>>

(***************************************************************************)
(* The hard time limit or the loss of the worker, at any point, or an      *)
(* error of the database or the broker inside _handle_failure: the task is *)
(* gone and so is its message.                                             *)
(***************************************************************************)
Crash(w) ==
    /\ wrk[w].pc # "idle"
    /\ crashes < MaxCrashes
    /\ crashes' = crashes + 1
    /\ Release(w)
    /\ UNCHANGED <<apiOwned, assessments, jobs, queue, results, deadLetters,
                   interrupts>>

\* The steps a worker takes by itself.
WorkerStep(w) ==
    \/ \E m \in queue : Take(w, m)
    \/ MarkRunning(w)
    \/ LoadAssessment(w)
    \/ SetRunning(w)
    \/ ComputeFails(w)
    \/ \E kind \in {"bare", "itemized"} : PersistResult(w, kind)
    \/ PersistCollides(w)
    \/ PersistRejected(w)
    \/ RefreshResult(w)
    \/ MarkCompleted(w)
    \/ HandleFailure(w)
    \/ Republish(w)
    \/ EmitDeadLetter(w)

Next ==
    \/ ApiNext /\ UNCHANGED workVars
    \/ \E w \in Workers : WorkerStep(w)
    \/ \E w \in Workers : InterruptOutside(w) \/ InterruptInside(w)
    \/ \E w \in Workers : Crash(w)

Spec == Init /\ [][Next]_vars

(***************************************************************************)
(* Accepted requests run to their end and workers keep consuming.  Nothing *)
(* is assumed of clients, errors or crashes.                               *)
(***************************************************************************)
FairSpec ==
    /\ Spec
    /\ \A c \in Clients : WF_vars(RequestStep(c) /\ UNCHANGED workVars)
    /\ \A w \in Workers : WF_vars(WorkerStep(w))

-----------------------------------------------------------------------------
(***************************************************************************)
(* The status an assessment shows as completed is backed by a result the   *)
(* breakdown endpoint can serve, in every interleaving of duplicate tasks, *)
(* retries, time limits and crashes.                                       *)
(***************************************************************************)
CompletedHasResult ==
    \A id \in Ids :
        assessments[id] = "completed" => results[id].kind # "none"

(***************************************************************************)
(* The job is marked completed in another session than the one that        *)
(* persisted the result; a completed job still always has a result.        *)
(***************************************************************************)
CompletedJobHasResult ==
    \A id \in Ids : jobs[id].status = "completed" => results[id].kind # "none"

(***************************************************************************)
(* The audit trail of a score is never lost: a later execution of the same *)
(* assessment can replace a result without items, but never leaves none    *)
(* and never touches a result that has its items.                          *)
(***************************************************************************)
AuditTrailKept ==
    [][\A id \in Ids :
          /\ results[id].kind # "none" => results'[id].kind # "none"
          /\ results[id].kind = "itemized" => results'[id] = results[id]
      ]_vars

\* Where an apply_async of the API has got to: its message is waiting, or a
\* worker executes it, or it ended in the dead letter queue.
Waiting(id, d)   == {m \in queue : m.id = id /\ m.dispatch = d}
Executing(id, d) == {w \in Workers : /\ wrk[w].pc # "idle"
                                     /\ wrk[w].msg.id = id
                                     /\ wrk[w].msg.dispatch = d}
Dead(id, d)      == {m \in deadLetters : m.id = id /\ m.dispatch = d}

(***************************************************************************)
(* Retries never multiply work: of all the messages that descend from one  *)
(* apply_async, at most one exists at any time, waiting, executing or      *)
(* dead-lettered.                                                          *)
(***************************************************************************)
OneCarrierPerDispatch ==
    \A id \in Ids : \A d \in 0 .. dispatches[id] :
        Cardinality(Waiting(id, d)) + Cardinality(Executing(id, d))
            + Cardinality(Dead(id, d)) <= 1

\* Somebody will still write the job of id.
HasCarrier(id) ==
    \/ \E m \in queue : m.id = id
    \/ \E w \in Workers : wrk[w].pc \notin {"idle", "emit"} /\ Target(w) = id
    \/ \E c \in Clients : /\ req[c].pc = "enqueue" /\ req[c].id = id
                          /\ req[c].seen \in {"pending", "failed"}

(***************************************************************************)
(* As long as no request and no worker has died, a job that is pending or  *)
(* running is being worked on or waits in the queue: no interleaving of    *)
(* duplicate executions, retries and guarded status updates orphans it.    *)
(***************************************************************************)
UnsettledHasCarrier ==
    faults = 0 /\ crashes = 0 =>
        \A id \in Ids :
            jobs[id].status \in {"pending", "running"} => HasCarrier(id)

(***************************************************************************)
(* A job that was completed is never started or scheduled again; only the  *)
(* failure of a duplicate execution may still overwrite it.                *)
(***************************************************************************)
CompletedJobNotRestarted ==
    [][\A id \in Ids : jobs[id].status = "completed" =>
          jobs'[id].status \in {"completed", "dead_letter"}]_vars

(***************************************************************************)
(* Assessments, jobs and results implement what ResultLedger promises,     *)
(* seen through get_assessment_status and get_assessment_breakdown.        *)
(***************************************************************************)
Ledger == INSTANCE ResultLedger WITH
    Assessments <- Ids,
    ledger      <- [id \in Ids |-> [status |-> assessments[id],
                                    job    |-> jobs[id].status,
                                    result |-> results[id]]]

ResultLedgerKept == Ledger!Spec

(***************************************************************************)
(* While nobody dies, every job that is created settles, whatever          *)
(* transient errors and duplicate requests it meets.                       *)
(***************************************************************************)
JobsSettle ==
    \A id \in Ids :
        jobs[id] # NoJob ~> Settled(jobs[id]) \/ faults > 0 \/ crashes > 0

=============================================================================
