------------------------ MODULE ScorePipelineProofs -------------------------
(***************************************************************************)
(* What ScorePipeline guarantees for every number of users, keys, clients, *)
(* workers, retries, interrupts and crashes.                               *)
(*                                                                         *)
(* The properties are not inductive by themselves.  Inv adds what links    *)
(* the rows of the database with the messages, requests and tasks that     *)
(* refer to them; Lone, apart from it, follows one dispatch through its    *)
(* retries.                                                                *)
(***************************************************************************)
EXTENDS ScorePipeline, AssessmentsApiProofs

(***************************************************************************)
(* Whoever refers to an assessment or a job refers to a committed row.     *)
(***************************************************************************)
RowsExist ==
    /\ PublishedRowsExist
    /\ \A w \in Workers :
          wrk[w].pc # "idle" =>
              assessments[Target(w)] # "absent" /\ jobs[Target(w)] # NoJob
    /\ \A c \in Clients :
          req[c].pc \in {"refresh", "find_job", "insert_job", "enqueue"} =>
              assessments[req[c].id] # "absent"
    /\ \A c \in Clients :
          req[c].pc = "enqueue" => jobs[req[c].id] # NoJob

(***************************************************************************)
(* Before its job exists nobody works on an assessment, so a request that  *)
(* may still create the job has seen the status pending and will publish.  *)
(***************************************************************************)
JoblessIsPending ==
    /\ \A id \in Ids :
          jobs[id] = NoJob => assessments[id] \in {"absent", "pending"}
    /\ \A c \in Clients :
          /\ req[c].pc \in {"find_job", "insert_job"}
          /\ jobs[req[c].id] = NoJob
          => req[c].seen = "pending"

(***************************************************************************)
(* A task that is past the commit of its result, or found one when it      *)
(* loaded the assessment, can rely on a result being there.                *)
(***************************************************************************)
FinisherHasResult ==
    \A w \in Workers :
        wrk[w].pc \in {"refresh", "mark_completed"} =>
            results[Target(w)].kind # "none"

Inv ==
    /\ TypeOK
    /\ ApiInv
    /\ RowsExist
    /\ JoblessIsPending
    /\ CompletedHasResult
    /\ CompletedJobHasResult
    /\ FinisherHasResult

\* Every action of a worker, the involuntary ones included.
WorkerAction(w) ==
    WorkerStep(w) \/ InterruptOutside(w) \/ InterruptInside(w) \/ Crash(w)

-----------------------------------------------------------------------------
LEMMA NextSplit ==
    Next => \/ ApiNext /\ UNCHANGED workVars
            \/ \E w \in Workers : WorkerAction(w)
BY DEF Next, WorkerAction

(***************************************************************************)
(* The transitions of a job's row lead from a row to a row.                *)
(***************************************************************************)
LEMMA JobTransitions ==
    ASSUME NEW j \in Job
    PROVE  /\ mark_running(j) \in Job
           /\ mark_pending_retry(j) \in Job
           /\ mark_completed(j) \in Job
           /\ mark_failed(j, TRUE) \in Job
BY DEF Job, JobStatus, mark_running, mark_pending_retry, mark_completed,
       mark_failed

LEMMA JobIsNotNoJob == \A j \in Job \cup {NoJob} : j \in Job <=> j # NoJob
BY DEF Job, JobStatus, NoJob

LEMMA InvInit == Init => Inv
<1> SUFFICES ASSUME Init PROVE Inv
  OBVIOUS
<1>1. ApiInv
  BY ApiInvInit DEF Init
<1>2. TypeOK
  BY <1>1, PipelineAssumption DEF Init, TypeOK, ApiInv, Result, ResultKind,
     NoResult, Task, IdleTask, WorkerPc, Error
<1>3. RowsExist /\ JoblessIsPending /\ FinisherHasResult
  BY DEF Init, ApiInit, RowsExist, PublishedRowsExist, JoblessIsPending,
         FinisherHasResult, IdleTask, IdleRequest
<1>4. CompletedHasResult /\ CompletedJobHasResult
  BY DEF Init, ApiInit, CompletedHasResult, CompletedJobHasResult, NoJob
<1> QED
  BY <1>1, <1>2, <1>3, <1>4 DEF Inv

-----------------------------------------------------------------------------
(***************************************************************************)
(* The types are kept by every action of a worker: first its task, then    *)
(* the tables and queues it writes.                                        *)
(***************************************************************************)
TasksOK ==
    /\ wrk \in [Workers -> Task]
    /\ \A w \in Workers : wrk[w].pc # "idle" => wrk[w].msg \in Message

TablesOK ==
    /\ assessments \in [Ids -> AssessmentStatus \cup {"absent"}]
    /\ jobs \in [Ids -> Job \cup {NoJob}]
    /\ queue \subseteq Message
    /\ results \in [Ids -> Result]
    /\ deadLetters \subseteq Message
    /\ interrupts \in 0 .. MaxInterrupts
    /\ crashes \in 0 .. MaxCrashes

\* A running task stays well-typed when it moves on with the same message.
LEMMA TaskUpdate ==
    ASSUME TasksOK, NEW w \in Workers, wrk[w].pc # "idle",
           NEW t \in Task, t.msg = wrk[w].msg,
           wrk' = [wrk EXCEPT ![w] = t]
    PROVE  TasksOK'
BY DEF TasksOK

LEMMA TaskAdvance ==
    ASSUME TasksOK, NEW w \in Workers, wrk[w].pc # "idle",
           NEW p \in WorkerPc, Advance(w, p)
    PROVE  TasksOK'
BY DEF TasksOK, Task, Advance

LEMMA TaskRelease ==
    ASSUME TasksOK, NEW w \in Workers, Release(w)
    PROVE  TasksOK'
BY DEF TasksOK, Task, Release, IdleTask, WorkerPc, Error, NoResult, Result,
       ResultKind

LEMMA TaskRaise ==
    ASSUME TasksOK, NEW w \in Workers, wrk[w].pc # "idle",
           NEW cause \in Error, NEW exc \in Error, Raise(w, cause, exc)
    PROVE  TasksOK'
<1> DEFINE t == [wrk[w] EXCEPT !.pc = "failure", !.cause = cause, !.exc = exc]
<1>1. wrk' = [wrk EXCEPT ![w] = t]
  BY DEF Raise
<1>2. t \in Task /\ t.msg = wrk[w].msg
  BY DEF TasksOK, Task, WorkerPc
<1> QED
  BY <1>1, <1>2, TaskUpdate

LEMMA TasksStep ==
    ASSUME TypeOK, NEW w \in Workers, WorkerAction(w)
    PROVE  TasksOK'
<1>0. TasksOK
  BY DEF TypeOK, TasksOK
<1>1. ASSUME NEW m \in queue, Take(w, m) PROVE TasksOK'
  BY <1>0, <1>1 DEF TypeOK, ApiTypeOK, Take, NoResult, Result, ResultKind,
     TasksOK, Task, WorkerPc, Error, IdleTask
<1>2. CASE MarkRunning(w)
  BY <1>0, <1>2, TaskAdvance DEF MarkRunning, WorkerPc
<1>3. CASE LoadAssessment(w)
  <2> DEFINE id == Target(w)
             done == results[id].kind # "none" /\ assessments[id] = "completed"
             t == [wrk[w] EXCEPT
                     !.pc = IF done THEN "mark_completed" ELSE "set_running",
                     !.status = assessments[id],
                     !.row = results[id]]
  <2>1. id \in Ids
    BY <1>0, <1>3 DEF LoadAssessment, Target, Message, TasksOK
  <2>2. t \in Task /\ t.msg = wrk[w].msg
    BY ZenonT(60), <1>0, <2>1 DEF TypeOK, ApiTypeOK, Task, TasksOK, WorkerPc
  <2>3. wrk' = [wrk EXCEPT ![w] = t] /\ wrk[w].pc # "idle"
    BY <1>3 DEF LoadAssessment
  <2> QED
    BY <1>0, <2>2, <2>3, TaskUpdate
<1>4. CASE SetRunning(w)
  <2> DEFINE t == [wrk[w] EXCEPT !.pc = "compute", !.status = "running"]
  <2>1. t \in Task /\ t.msg = wrk[w].msg
    BY <1>0 DEF Task, TasksOK, WorkerPc, AssessmentStatus
  <2>2. wrk' = [wrk EXCEPT ![w] = t] /\ wrk[w].pc # "idle"
    BY <1>4 DEF SetRunning
  <2> QED
    BY <1>0, <2>1, <2>2, TaskUpdate
<1>5. CASE ComputeFails(w)
  BY <1>0, <1>5, TaskRaise DEF ComputeFails, Error
<1>6. ASSUME NEW kind \in {"bare", "itemized"}, PersistResult(w, kind)
      PROVE  TasksOK'
  <2> DEFINE new == [gen |-> results[Target(w)].gen + 1, kind |-> kind]
             t == [wrk[w] EXCEPT !.pc = "refresh", !.status = "completed",
                                 !.row = new]
  <2>0. new \in Result
    BY <1>0, <1>6
       DEF TypeOK, PersistResult, Target, Message, TasksOK, Result, ResultKind
  <2>1. t \in Task /\ t.msg = wrk[w].msg
    <3> HIDE DEF new
    <3> QED
      BY <1>0, <2>0 DEF Task, TasksOK, WorkerPc, AssessmentStatus
  <2>2. wrk' = [wrk EXCEPT ![w] = t] /\ wrk[w].pc # "idle"
    BY <1>6 DEF PersistResult
  <2> QED
    BY <1>0, <2>1, <2>2, TaskUpdate
<1>7. CASE PersistCollides(w)
  BY <1>0, <1>7, TaskRaise DEF PersistCollides, Error
<1>8. CASE PersistRejected(w)
  BY <1>0, <1>8, TaskRaise DEF PersistRejected, Error
<1>9. CASE RefreshResult(w)
  BY <1>0, <1>9, TaskAdvance, TaskRaise DEF RefreshResult, WorkerPc, Error
<1>10. CASE MarkCompleted(w)
  BY <1>0, <1>10, TaskRelease DEF MarkCompleted
<1>11. CASE HandleFailure(w)
  BY <1>0, <1>11, TaskAdvance DEF HandleFailure, WorkerPc
<1>12. CASE Republish(w)
  BY <1>0, <1>12, TaskRelease DEF Republish
<1>13. CASE EmitDeadLetter(w)
  BY <1>0, <1>13, TaskRelease DEF EmitDeadLetter
<1>14. CASE InterruptOutside(w)
  BY <1>0, <1>14, TaskRaise DEF InterruptOutside, Error
<1>15. CASE InterruptInside(w)
  BY <1>0, <1>15, TaskRaise DEF InterruptInside, Error
<1>16. CASE Crash(w)
  BY <1>0, <1>16, TaskRelease DEF Crash
<1> QED
  BY <1>1, <1>2, <1>3, <1>4, <1>5, <1>6, <1>7, <1>8, <1>9, <1>10, <1>11,
     <1>12, <1>13, <1>14, <1>15, <1>16 DEF WorkerAction, WorkerStep

LEMMA TablesStep ==
    ASSUME Inv, NEW w \in Workers, WorkerAction(w)
    PROVE  TablesOK'
<1> USE PipelineAssumption
<1>0. /\ TablesOK
      /\ wrk[w].pc # "idle" => wrk[w].msg \in Message
      /\ wrk[w].pc # "idle" => Target(w) \in Ids
      /\ wrk[w].pc # "idle" => jobs[Target(w)] \in Job
  BY JobIsNotNoJob
     DEF Inv, RowsExist, TypeOK, ApiTypeOK, TablesOK, Target, Message
<1> USE DEF TablesOK, WriteStatus, AssessmentStatus
<1>1. ASSUME NEW m \in queue, Take(w, m) PROVE TablesOK'
  BY <1>0, <1>1 DEF Take
<1>2. CASE MarkRunning(w)
  BY <1>0, <1>2, JobTransitions DEF MarkRunning
<1>3. CASE LoadAssessment(w)
  BY <1>0, <1>3 DEF LoadAssessment
<1>4. CASE SetRunning(w)
  BY <1>0, <1>4 DEF SetRunning
<1>5. CASE ComputeFails(w)
  BY <1>0, <1>5 DEF ComputeFails
<1>6. ASSUME NEW kind \in {"bare", "itemized"}, PersistResult(w, kind)
      PROVE  TablesOK'
  BY <1>0, <1>6 DEF PersistResult, Result, ResultKind
<1>7. CASE PersistCollides(w)
  BY <1>0, <1>7 DEF PersistCollides
<1>8. CASE PersistRejected(w)
  BY <1>0, <1>8 DEF PersistRejected
<1>9. CASE RefreshResult(w)
  BY <1>0, <1>9 DEF RefreshResult
<1>10. CASE MarkCompleted(w)
  BY <1>0, <1>10, JobTransitions DEF MarkCompleted
<1>11. CASE HandleFailure(w)
  BY <1>0, <1>11, JobTransitions DEF HandleFailure
<1>12. CASE Republish(w)
  <2>1. [wrk[w].msg EXCEPT !.retries = @ + 1] \in Message
    BY <1>0, <1>12 DEF Republish, Message
  <2> QED
    BY <1>0, <1>12, <2>1 DEF Republish
<1>13. CASE EmitDeadLetter(w)
  BY <1>0, <1>13 DEF EmitDeadLetter
<1>14. CASE InterruptOutside(w)
  <2>1. jobs' \in [Ids -> Job \cup {NoJob}]
    BY <1>0, <1>14, JobTransitions DEF InterruptOutside
  <2>2. interrupts' \in 0 .. MaxInterrupts
    BY <1>0, <1>14 DEF InterruptOutside
  <2> QED
    BY <1>0, <1>14, <2>1, <2>2 DEF InterruptOutside
<1>15. CASE InterruptInside(w)
  BY <1>0, <1>15 DEF InterruptInside
<1>16. CASE Crash(w)
  BY <1>0, <1>16 DEF Crash
<1> QED
  BY <1>1, <1>2, <1>3, <1>4, <1>5, <1>6, <1>7, <1>8, <1>9, <1>10, <1>11,
     <1>12, <1>13, <1>14, <1>15, <1>16 DEF WorkerAction, WorkerStep

LEMMA WorkerOwnership ==
    ASSUME NEW w \in Workers, WorkerAction(w)
    PROVE  UNCHANGED apiOwned
BY DEF WorkerAction, WorkerStep, Take, MarkRunning, LoadAssessment,
       SetRunning, ComputeFails, PersistResult, PersistCollides,
       PersistRejected, RefreshResult, MarkCompleted, HandleFailure,
       Republish, EmitDeadLetter, InterruptOutside, InterruptInside, Crash

LEMMA WorkerTypeStep ==
    ASSUME Inv, NEW w \in Workers, WorkerAction(w)
    PROVE  TypeOK'
<1>1. TasksOK' /\ TablesOK'
  BY TasksStep, TablesStep DEF Inv
<1>2. ApiTypeOK'
  BY <1>1, WorkerOwnership DEF Inv, TypeOK, ApiTypeOK, TablesOK, apiOwned
<1> QED
  BY <1>1, <1>2 DEF TypeOK, TasksOK, TablesOK

-----------------------------------------------------------------------------
(***************************************************************************)
(* What any action of a worker does to the rows: it creates and removes    *)
(* none, and it touches only an assessment that has a job.                 *)
(***************************************************************************)
RowsKept ==
    \A id \in Ids :
        /\ jobs'[id] = NoJob <=> jobs[id] = NoJob
        /\ assessments'[id] = "absent" <=> assessments[id] = "absent"
        /\ jobs[id] = NoJob => assessments'[id] = assessments[id]

LEMMA WorkerKeepsRows ==
    ASSUME Inv, NEW w \in Workers, WorkerAction(w)
    PROVE  RowsKept
<1>0. /\ wrk[w].pc # "idle" =>
            /\ Target(w) \in Ids
            /\ jobs[Target(w)] \in Job
            /\ assessments[Target(w)] # "absent"
      /\ \A j \in Job : j # NoJob
      /\ assessments \in [Ids -> AssessmentStatus \cup {"absent"}]
      /\ jobs \in [Ids -> Job \cup {NoJob}]
  BY JobIsNotNoJob
     DEF Inv, RowsExist, TypeOK, ApiTypeOK, TablesOK, Target, Message
<1> USE DEF RowsKept, WriteStatus
<1>1. ASSUME NEW m \in queue, Take(w, m) PROVE RowsKept
  BY <1>1 DEF Take
<1>2. CASE MarkRunning(w)
  BY <1>0, <1>2, JobTransitions DEF MarkRunning
<1>3. CASE LoadAssessment(w)
  BY <1>3 DEF LoadAssessment
<1>4. CASE SetRunning(w)
  BY <1>0, <1>4 DEF SetRunning
<1>5. CASE ComputeFails(w)
  BY <1>0, <1>5 DEF ComputeFails
<1>6. ASSUME NEW kind \in {"bare", "itemized"}, PersistResult(w, kind)
      PROVE  RowsKept
  BY <1>0, <1>6 DEF PersistResult
<1>7. CASE PersistCollides(w)
  BY <1>7 DEF PersistCollides
<1>8. CASE PersistRejected(w)
  BY <1>0, <1>8 DEF PersistRejected
<1>9. CASE RefreshResult(w)
  BY <1>0, <1>9 DEF RefreshResult
<1>10. CASE MarkCompleted(w)
  BY <1>0, <1>10, JobTransitions DEF MarkCompleted
<1>11. CASE HandleFailure(w)
  BY <1>0, <1>11, JobTransitions DEF HandleFailure
<1>12. CASE Republish(w)
  BY <1>12 DEF Republish
<1>13. CASE EmitDeadLetter(w)
  BY <1>13 DEF EmitDeadLetter
<1>14. CASE InterruptOutside(w)
  BY <1>0, <1>14, JobTransitions DEF InterruptOutside
<1>15. CASE InterruptInside(w)
  BY <1>0, <1>15 DEF InterruptInside
<1>16. CASE Crash(w)
  BY <1>16 DEF Crash
<1> QED
  BY <1>1, <1>2, <1>3, <1>4, <1>5, <1>6, <1>7, <1>8, <1>9, <1>10, <1>11,
     <1>12, <1>13, <1>14, <1>15, <1>16 DEF WorkerAction, WorkerStep

(***************************************************************************)
(* Where messages go: a worker publishes only the message of its task, and *)
(* takes only what was in the queue.                                       *)
(***************************************************************************)
MessagesKept(w) ==
    /\ \A m \in queue' : m \in queue \/ (wrk[w].pc # "idle" /\ m.id = Target(w))
    /\ \A v \in Workers :
          wrk'[v].pc # "idle" =>
              \/ wrk[v].pc # "idle" /\ wrk'[v].msg = wrk[v].msg
              \/ wrk'[v].msg \in queue

LEMMA WorkerKeepsMessages ==
    ASSUME Inv, NEW w \in Workers, WorkerAction(w)
    PROVE  MessagesKept(w)
<1>0. /\ wrk \in [Workers -> Task]
      /\ wrk[w].pc # "idle" => wrk[w].msg \in Message
  BY DEF Inv, TypeOK
<1> USE <1>0 DEF MessagesKept, Task, Advance, Release, Raise, IdleTask
<1>1. ASSUME NEW m \in queue, Take(w, m) PROVE MessagesKept(w)
  BY <1>1 DEF Take
<1>2. CASE MarkRunning(w)
  BY <1>2 DEF MarkRunning
<1>3. CASE LoadAssessment(w)
  BY <1>3 DEF LoadAssessment
<1>4. CASE SetRunning(w)
  BY <1>4 DEF SetRunning
<1>5. CASE ComputeFails(w)
  BY <1>5 DEF ComputeFails
<1>6. ASSUME NEW kind \in {"bare", "itemized"}, PersistResult(w, kind)
      PROVE  MessagesKept(w)
  BY <1>6 DEF PersistResult
<1>7. CASE PersistCollides(w)
  BY <1>7 DEF PersistCollides
<1>8. CASE PersistRejected(w)
  BY <1>8 DEF PersistRejected
<1>9. CASE RefreshResult(w)
  <2>1. CASE Advance(w, "mark_completed")
    BY <1>9, <2>1 DEF RefreshResult
  <2>2. CASE Raise(w, "Transient", "Transient")
    BY <1>9, <2>2 DEF RefreshResult
  <2> QED
    BY <1>9, <2>1, <2>2 DEF RefreshResult
<1>10. CASE MarkCompleted(w)
  BY <1>10 DEF MarkCompleted
<1>11. CASE HandleFailure(w)
  <2>1. PICK p \in {"emit", "republish"} : wrk' = [wrk EXCEPT ![w].pc = p]
    BY <1>11 DEF HandleFailure
  <2>2. queue' = queue /\ wrk[w].pc # "idle"
    BY <1>11 DEF HandleFailure
  <2> QED
    BY <2>1, <2>2
<1>12. CASE Republish(w)
  BY <1>12 DEF Republish, Target, Message
<1>13. CASE EmitDeadLetter(w)
  BY <1>13 DEF EmitDeadLetter
<1>14. CASE InterruptOutside(w)
  BY <1>14 DEF InterruptOutside
<1>15. CASE InterruptInside(w)
  BY <1>15 DEF InterruptInside
<1>16. CASE Crash(w)
  BY <1>16 DEF Crash
<1> QED
  BY <1>1, <1>2, <1>3, <1>4, <1>5, <1>6, <1>7, <1>8, <1>9, <1>10, <1>11,
     <1>12, <1>13, <1>14, <1>15, <1>16 DEF WorkerAction, WorkerStep

LEMMA WorkerRowsStep ==
    ASSUME Inv, NEW w \in Workers, WorkerAction(w)
    PROVE  RowsExist' /\ JoblessIsPending'
<1>1. RowsKept /\ MessagesKept(w) /\ UNCHANGED req
  BY WorkerKeepsRows, WorkerKeepsMessages, WorkerOwnership DEF apiOwned
<1>2. /\ queue \subseteq Message
      /\ \A v \in Workers : wrk[v].pc # "idle" => Target(v) \in Ids
      /\ \A c \in Clients : req[c].pc # "idle" => req[c].id \in Ids
      /\ \A m \in queue : m.id \in Ids
  BY DEF Inv, TypeOK, ApiTypeOK, Target, Message
<1>3. \A m \in queue' : m.id \in Ids
  BY <1>1, <1>2 DEF MessagesKept
<1>4. PublishedRowsExist'
  BY <1>1, <1>2, <1>3
     DEF Inv, RowsExist, PublishedRowsExist, RowsKept, MessagesKept
<1>5. \A v \in Workers : wrk'[v].pc # "idle" =>
          assessments'[wrk'[v].msg.id] # "absent"
            /\ jobs'[wrk'[v].msg.id] # NoJob
  BY <1>1, <1>2
     DEF Inv, RowsExist, PublishedRowsExist, RowsKept, MessagesKept, Target
<1>6. \A c \in Clients :
          /\ req[c].pc \in {"refresh", "find_job", "insert_job", "enqueue"} =>
                 assessments'[req[c].id] # "absent"
          /\ req[c].pc = "enqueue" => jobs'[req[c].id] # NoJob
  BY <1>1, <1>2 DEF Inv, RowsExist, RowsKept
<1>7. RowsExist'
  BY <1>1, <1>4, <1>5, <1>6 DEF RowsExist, Target
<1>8. JoblessIsPending'
  BY <1>1, <1>2 DEF Inv, JoblessIsPending, RowsKept
<1> QED
  BY <1>7, <1>8

-----------------------------------------------------------------------------
(***************************************************************************)
(* A result never disappears, and one with items never changes: replacing  *)
(* is possible only where the session loaded the current row and that row  *)
(* has no items.                                                           *)
(***************************************************************************)
ResultsKept ==
    \A id \in Ids :
        /\ results[id].kind # "none" => results'[id].kind # "none"
        /\ results[id].kind = "itemized" => results'[id] = results[id]

LEMMA PersistKeepsResults ==
    ASSUME TypeOK, NEW w \in Workers,
           NEW kind \in {"bare", "itemized"}, PersistResult(w, kind)
    PROVE  ResultsKept
<1> DEFINE id == Target(w)
<1>1. id \in Ids
  BY DEF TypeOK, PersistResult, Target, Message
<1>2. results' = [results EXCEPT ![id] = [gen |-> @.gen + 1, kind |-> kind]]
  BY DEF PersistResult
<1>3. wrk[w].row.kind # "itemized"
         /\ (results[id].kind # "none" => results[id] = wrk[w].row)
  BY DEF PersistResult, FlushFails
<1> QED
  BY <1>1, <1>2, <1>3 DEF TypeOK, ResultsKept

LEMMA WorkerKeepsResults ==
    ASSUME TypeOK, NEW w \in Workers, WorkerAction(w)
    PROVE  ResultsKept
<1>1. CASE \E kind \in {"bare", "itemized"} : PersistResult(w, kind)
  BY <1>1, PersistKeepsResults
<1>2. CASE ~\E kind \in {"bare", "itemized"} : PersistResult(w, kind)
  <2>1. results' = results
    BY <1>2 DEF WorkerAction, WorkerStep, Take, MarkRunning, LoadAssessment,
       SetRunning, ComputeFails, PersistCollides, PersistRejected,
       RefreshResult, MarkCompleted, HandleFailure, Republish,
       EmitDeadLetter, InterruptOutside, InterruptInside, Crash
  <2> QED
    BY <2>1 DEF ResultsKept
<1> QED
  BY <1>1, <1>2

(***************************************************************************)
(* A status becomes completed only together with a result.                 *)
(***************************************************************************)
LEMMA WorkerCompletedStep ==
    ASSUME Inv, NEW w \in Workers, WorkerAction(w)
    PROVE  CompletedHasResult'
<1>0. /\ ResultsKept /\ CompletedHasResult
      /\ assessments \in [Ids -> AssessmentStatus \cup {"absent"}]
      /\ results \in [Ids -> Result]
  BY WorkerKeepsResults DEF Inv, TypeOK, ApiTypeOK
<1> SUFFICES ASSUME NEW id \in Ids, assessments'[id] = "completed"
             PROVE  results'[id].kind # "none"
  BY DEF CompletedHasResult
<1>1. CASE assessments[id] = "completed"
  BY <1>0, <1>1 DEF CompletedHasResult, ResultsKept
<1>2. CASE assessments[id] # "completed"
  <2>1. PICK kind \in {"bare", "itemized"} : PersistResult(w, kind)
    BY <1>0, <1>2 DEF WorkerAction, WorkerStep, Take, MarkRunning,
       LoadAssessment, SetRunning, ComputeFails, PersistCollides,
       PersistRejected, RefreshResult, MarkCompleted, HandleFailure,
       Republish, EmitDeadLetter, InterruptOutside, InterruptInside, Crash,
       WriteStatus
  <2>2. Target(w) = id
    BY <1>0, <1>2, <2>1 DEF PersistResult, WriteStatus
  <2>3. results'[id].kind = kind
    BY <1>0, <2>1, <2>2 DEF PersistResult
  <2> QED
    BY <2>3
<1> QED
  BY <1>1, <1>2

(***************************************************************************)
(* A task reaches its last step only past a result.                        *)
(***************************************************************************)
LEMMA WorkerFinisherStep ==
    ASSUME Inv, NEW w \in Workers, WorkerAction(w)
    PROVE  FinisherHasResult'
<1>0. /\ ResultsKept /\ FinisherHasResult
      /\ wrk \in [Workers -> Task]
      /\ \A v \in Workers : wrk[v].pc # "idle" => Target(v) \in Ids
      /\ results \in [Ids -> Result]
  BY WorkerKeepsResults DEF Inv, TypeOK, Target, Message
<1>1. ASSUME NEW v \in Workers, v # w,
             wrk'[v].pc \in {"refresh", "mark_completed"}
      PROVE  results'[Target(v)'].kind # "none"
  <2>1. wrk'[v] = wrk[v]
    BY <1>0, <1>1 DEF WorkerAction, WorkerStep, Take, MarkRunning,
       LoadAssessment, SetRunning, ComputeFails, PersistResult,
       PersistCollides, PersistRejected, RefreshResult, MarkCompleted,
       HandleFailure, Republish, EmitDeadLetter, InterruptOutside,
       InterruptInside, Crash, Advance, Release, Raise
  <2> QED
    BY <1>0, <1>1, <2>1 DEF FinisherHasResult, ResultsKept, Target
<1>2. ASSUME wrk'[w].pc \in {"refresh", "mark_completed"}
      PROVE  results'[Target(w)'].kind # "none"
  <2> USE <1>0 DEF Task
  <2>1. CASE LoadAssessment(w)
    <3>1. wrk'[w].msg = wrk[w].msg /\ results[Target(w)].kind # "none"
      BY <1>2, <2>1 DEF LoadAssessment
    <3> QED
      BY <2>1, <3>1 DEF LoadAssessment, ResultsKept, Target
  <2>2. ASSUME NEW kind \in {"bare", "itemized"}, PersistResult(w, kind)
        PROVE  results'[Target(w)'].kind # "none"
    <3>1. wrk'[w].msg = wrk[w].msg /\ results'[Target(w)].kind = kind
      BY <2>2 DEF PersistResult, Target
    <3> QED
      BY <2>2, <3>1 DEF Target
  <2>3. CASE Advance(w, "mark_completed") /\ wrk[w].pc = "refresh"
    <3>1. wrk'[w].msg = wrk[w].msg
      BY <2>3 DEF Advance
    <3> QED
      BY <2>3, <3>1 DEF FinisherHasResult, ResultsKept, Target
  <2>4. ~\E m \in queue : Take(w, m)
    BY ZenonT(60), <1>2 DEF Take, IdleTask
  <2>5. ~MarkRunning(w) /\ ~SetRunning(w)
    BY <1>2 DEF MarkRunning, SetRunning, Advance
  <2>6. ASSUME NEW cause, NEW exc, Raise(w, cause, exc) PROVE FALSE
    <3>1. wrk[w] \in Task
      OBVIOUS
    <3>2. wrk'[w] = [wrk[w] EXCEPT !.pc = "failure", !.cause = cause,
                                   !.exc = exc]
      BY <2>6 DEF Raise
    <3>3. wrk'[w].pc = "failure"
      BY <3>1, <3>2
    <3> QED
      BY <1>2, <3>3
  <2>7. /\ ~ComputeFails(w) /\ ~PersistCollides(w) /\ ~PersistRejected(w)
        /\ ~InterruptOutside(w) /\ ~InterruptInside(w)
    BY <2>6 DEF ComputeFails, PersistCollides, PersistRejected,
       InterruptOutside, InterruptInside, Error
  <2>8. CASE RefreshResult(w)
    BY <2>3, <2>6, <2>8 DEF RefreshResult
  <2>9. ~Release(w)
    BY <1>2 DEF Release, IdleTask
  <2>10. /\ ~MarkCompleted(w) /\ ~Republish(w) /\ ~EmitDeadLetter(w)
        /\ ~Crash(w)
    BY <2>9 DEF MarkCompleted, Republish, EmitDeadLetter, Crash
  <2>11. ~Advance(w, "emit") /\ ~Advance(w, "republish")
    BY <1>2 DEF Advance
  <2>12. ~HandleFailure(w)
    BY <2>11 DEF HandleFailure
  <2> QED
    BY <2>1, <2>2, <2>4, <2>5, <2>7, <2>8, <2>10, <2>12 DEF WorkerAction,
       WorkerStep
<1> QED
  BY <1>1, <1>2 DEF FinisherHasResult

(***************************************************************************)
(* A job becomes completed only by the last step of such a task.           *)
(***************************************************************************)
LEMMA WorkerJobCompletedStep ==
    ASSUME Inv, NEW w \in Workers, WorkerAction(w)
    PROVE  CompletedJobHasResult'
<1>0. /\ ResultsKept /\ CompletedJobHasResult /\ FinisherHasResult
      /\ jobs \in [Ids -> Job \cup {NoJob}]
  BY WorkerKeepsResults DEF Inv, TypeOK, ApiTypeOK
<1> SUFFICES ASSUME NEW id \in Ids, jobs'[id].status = "completed"
             PROVE  results'[id].kind # "none"
  BY DEF CompletedJobHasResult
<1>1. CASE jobs[id].status = "completed"
  BY <1>0, <1>1 DEF CompletedJobHasResult, ResultsKept
<1>2. CASE jobs[id].status # "completed"
  <2>1. \A j \in Job \cup {NoJob} :
          /\ mark_running(j).status = "completed" => j.status = "completed"
          /\ mark_pending_retry(j).status = "completed" =>
                j.status = "completed"
          /\ mark_failed(j, TRUE).status # "completed"
    BY DEF mark_running, mark_pending_retry, mark_failed, Job, NoJob
  <2>2. ~MarkRunning(w)
    BY <1>0, <1>2, <2>1 DEF MarkRunning
  <2>3. ~HandleFailure(w)
    BY <1>0, <1>2, <2>1 DEF HandleFailure
  <2>4. /\ wrk[w].pc = "mark_completed"
        /\ jobs' = [jobs EXCEPT ![Target(w)] = mark_completed(@)]
    BY <1>2, <2>2, <2>3 DEF WorkerAction, WorkerStep, Take, LoadAssessment,
       SetRunning, ComputeFails, PersistResult, PersistCollides,
       PersistRejected, RefreshResult, MarkCompleted, Republish,
       EmitDeadLetter, InterruptOutside, InterruptInside, Crash
  <2>5. Target(w) = id
    BY <1>0, <1>2, <2>4
  <2> QED
    BY <1>0, <2>4, <2>5 DEF FinisherHasResult, ResultsKept
<1> QED
  BY <1>1, <1>2

-----------------------------------------------------------------------------
(***************************************************************************)
(* The steps of a request, inside the pipeline.                            *)
(***************************************************************************)
LEMMA RequestMovesOn ==
    ASSUME TypeOK, NEW c \in Clients
    PROVE  /\ \A p : Goto(c, p) => /\ req'[c].pc = p
                                  /\ req'[c].id = req[c].id
                                  /\ req'[c].seen = req[c].seen
                                  /\ \A d \in Clients \ {c} : req'[d] = req[d]
           /\ Finish(c) => /\ req'[c].pc = "idle"
                           /\ \A d \in Clients \ {c} : req'[d] = req[d]
BY DEF TypeOK, ApiTypeOK, Request, Goto, Finish, IdleRequest

LEMMA ApiRowsStep ==
    ASSUME Inv, ApiNext, UNCHANGED workVars
    PROVE  RowsExist' /\ JoblessIsPending'
<1> DEFINE Rows == RowsExist' /\ JoblessIsPending'
           tables == <<assessments, jobs, queue>>
           Others(c) == \A d \in Clients \ {c} : req'[d] = req[d]
           early == {"idle", "quota", "charge", "snapshot", "insert"}
<1>0. /\ RowsExist /\ JoblessIsPending
      /\ UNCHANGED <<results, wrk>>
      /\ \A w \in Workers : wrk[w].pc # "idle" => Target(w) \in Ids
      /\ \A m \in queue : m.id \in Ids
      /\ req \in [Clients -> Request]
      /\ \A c \in Clients : req[c].pc # "idle" => req[c].id \in Ids
      /\ assessments \in [Ids -> AssessmentStatus \cup {"absent"}]
      /\ jobs \in [Ids -> Job \cup {NoJob}]
      /\ NewJob # NoJob
  BY DEF Inv, workVars, TypeOK, ApiTypeOK, Target, Message, NewJob, NoJob
<1>t. TypeOK
  BY DEF Inv
<1>a. PICK c \in Clients :
        \/ \E id \in Ids, program \in Programs : Post(c, id, program)
        \/ RequestStep(c)
        \/ RequestDies(c)
  BY DEF ApiNext
<1>g. /\ \A p : Goto(c, p) => /\ req'[c].pc = p
                              /\ req'[c].id = req[c].id
                              /\ req'[c].seen = req[c].seen
                              /\ Others(c)
      /\ Finish(c) => req'[c].pc = "idle" /\ Others(c)
  BY <1>t, RequestMovesOn
<1> USE <1>0 DEF RowsExist, PublishedRowsExist, JoblessIsPending, Target
<1>q. ASSUME UNCHANGED tables, req'[c].pc \in early, Others(c) PROVE Rows
  BY <1>q
<1>1. ASSUME NEW id \in Ids, NEW program \in Programs, Post(c, id, program)
      PROVE  Rows
  <2>1. /\ req'[c].id = id /\ req'[c].seen = assessments[id]
        /\ req'[c].pc = IF assessments[id] = "absent" THEN "quota"
                                                       ELSE "find_job"
        /\ Others(c) /\ UNCHANGED tables
    BY <1>1 DEF Post, IdleRequest
  <2> QED
    BY <2>1
<1>2. CASE ReadQuota(c)
  <2>1. UNCHANGED tables
    BY <1>2 DEF ReadQuota
  <2>2. ASSUME NEW n, req' = [req EXCEPT ![c].pc = "charge", ![c].read = n]
        PROVE  req'[c].pc \in early /\ Others(c)
    BY <2>2
  <2>3. req'[c].pc \in early /\ Others(c)
    BY <1>2, <1>g, <2>2 DEF ReadQuota
  <2> QED
    BY <1>q, <2>1, <2>3
<1>3. CASE CommitQuota(c)
  <2>1. UNCHANGED tables
    BY <1>3 DEF CommitQuota
  <2>2. req'[c].pc \in early /\ Others(c)
    BY <1>3, <1>g DEF CommitQuota
  <2> QED
    BY <1>q, <2>1, <2>2
<1>4. CASE ReadSnapshotVersion(c)
  <2>1. UNCHANGED tables /\ req'[c].pc \in early /\ Others(c)
    BY <1>4 DEF ReadSnapshotVersion
  <2> QED
    BY <1>q, <2>1
<1>5. CASE InsertAssessment(c)
  <2> DEFINE id == req[c].id
  <2>1. UNCHANGED <<jobs, queue>> /\ id \in Ids
    BY <1>5 DEF InsertAssessment
  <2>2. CASE Finish(c) /\ UNCHANGED assessments
    BY <1>g, <1>q, <2>1, <2>2
  <2>3. CASE /\ assessments' = [assessments EXCEPT ![id] = "pending"]
             /\ Goto(c, "refresh")
    <3>1. req'[c].pc = "refresh" /\ req'[c].id = id /\ Others(c)
      BY <1>g, <2>3
    <3>2. /\ assessments'[id] = "pending"
          /\ \A x \in Ids \ {id} : assessments'[x] = assessments[x]
      BY <2>1, <2>3
    <3>3. \A x \in Ids : assessments[x] # "absent" => assessments'[x] # "absent"
      BY <3>2
    <3>4. RowsExist'
      BY <2>1, <3>1, <3>2, <3>3
    <3>5. JoblessIsPending'
      BY <2>1, <3>1, <3>2
    <3> QED
      BY <3>4, <3>5
  <2> QED
    BY <1>5, <2>2, <2>3 DEF InsertAssessment
<1>6. CASE RefreshAssessment(c)
  <2>1. /\ req'[c].pc = "find_job" /\ req'[c].id = req[c].id
        /\ req'[c].seen = assessments[req[c].id]
        /\ Others(c) /\ UNCHANGED tables /\ req[c].pc = "refresh"
    BY <1>6 DEF RefreshAssessment
  <2> QED
    BY <2>1
<1>7. CASE FindJob(c)
  <2>1. /\ req'[c].pc = IF jobs[req[c].id] = NoJob THEN "insert_job" ELSE "enqueue"
        /\ req'[c].id = req[c].id /\ req'[c].seen = req[c].seen
        /\ Others(c) /\ UNCHANGED tables /\ req[c].pc = "find_job"
    BY <1>7, <1>g DEF FindJob
  <2> QED
    BY <2>1
<1>8. CASE InsertJob(c)
  <2> DEFINE id == req[c].id
  <2>1. UNCHANGED <<assessments, queue>> /\ id \in Ids /\ req[c].pc = "insert_job"
    BY <1>8 DEF InsertJob
  <2>2. CASE Finish(c) /\ UNCHANGED jobs
    BY <1>g, <1>q, <2>1, <2>2
  <2>3. CASE jobs' = [jobs EXCEPT ![id] = NewJob] /\ Goto(c, "enqueue")
    <3>1. req'[c].pc = "enqueue" /\ req'[c].id = id /\ Others(c)
      BY <1>g, <2>3
    <3>2. jobs'[id] # NoJob /\ \A x \in Ids \ {id} : jobs'[x] = jobs[x]
      BY <2>1, <2>3
    <3>3. \A x \in Ids : jobs[x] # NoJob => jobs'[x] # NoJob
      BY <3>2
    <3>4. RowsExist'
      BY <2>1, <3>1, <3>2, <3>3
    <3>5. JoblessIsPending'
      BY <2>1, <3>1, <3>3
    <3> QED
      BY <3>4, <3>5
  <2> QED
    BY <1>8, <2>2, <2>3 DEF InsertJob
<1>9. CASE Enqueue(c)
  <2>1. /\ UNCHANGED <<assessments, jobs>>
        /\ req'[c].pc = "idle" /\ Others(c)
        /\ req[c].pc = "enqueue" /\ req[c].id \in Ids
    BY <1>9, <1>g DEF Enqueue
  <2>2. \A m \in queue' : m \in queue \/ m.id = req[c].id
    BY <1>9 DEF Enqueue
  <2>3. PublishedRowsExist'
    BY <2>1, <2>2
  <2> QED
    BY <2>1, <2>3
<1>10. CASE RequestDies(c)
  <2>1. UNCHANGED tables /\ req'[c].pc \in early /\ Others(c)
    BY <1>10, <1>g DEF RequestDies
  <2> QED
    BY <1>q, <2>1
<1> QED
  BY <1>a, <1>1, <1>2, <1>3, <1>4, <1>5, <1>6, <1>7, <1>8, <1>9, <1>10
     DEF RequestStep

(***************************************************************************)
(* A request writes only pending rows, for which no result is claimed.     *)
(***************************************************************************)
LEMMA ApiResultsStep ==
    ASSUME Inv, ApiNext, UNCHANGED workVars
    PROVE  CompletedHasResult' /\ CompletedJobHasResult' /\ FinisherHasResult'
<1>1. PICK c \in Clients :
        \/ \E id \in Ids, program \in Programs : Post(c, id, program)
        \/ RequestStep(c)
        \/ RequestDies(c)
  BY DEF ApiNext
<1>2. UNCHANGED <<results, wrk>>
  BY DEF workVars
<1>3. \A id \in Ids : assessments'[id] \in {assessments[id], "pending"}
  BY <1>1 DEF RequestStep, Post, ReadQuota, CommitQuota, ReadSnapshotVersion,
     InsertAssessment, RefreshAssessment, FindJob, InsertJob, Enqueue,
     RequestDies, Inv, TypeOK, ApiTypeOK
<1>4. \A id \in Ids : jobs'[id] \in {jobs[id], NewJob}
  BY <1>1 DEF RequestStep, Post, ReadQuota, CommitQuota, ReadSnapshotVersion,
     InsertAssessment, RefreshAssessment, FindJob, InsertJob, Enqueue,
     RequestDies, Inv, TypeOK, ApiTypeOK
<1>5. CompletedHasResult'
  BY <1>2, <1>3 DEF Inv, CompletedHasResult
<1>6. CompletedJobHasResult'
  BY <1>2, <1>4 DEF Inv, CompletedJobHasResult, NewJob
<1>7. FinisherHasResult'
  BY <1>2 DEF Inv, FinisherHasResult, Target
<1> QED
  BY <1>5, <1>6, <1>7

-----------------------------------------------------------------------------
(***************************************************************************)
(* ApiInv under a step of a worker: it writes neither counters, snapshots  *)
(* nor requests, and it creates no assessment.                             *)
(***************************************************************************)
LEMMA WorkerApiInvStep ==
    ASSUME Inv, NEW w \in Workers, WorkerAction(w)
    PROVE  ApiInv'
<1>1. UNCHANGED <<used, snapshots, req>> /\ RowsKept /\ TypeOK'
  BY WorkerOwnership, WorkerKeepsRows, WorkerTypeStep DEF apiOwned
<1>2. \A u \in Users : Created(u)' = Created(u)
  BY <1>1 DEF Created, RowsKept
<1>3. SnapshotPerAssessment'
  <2> SUFFICES ASSUME NEW u \in Users
               PROVE  snapshots'[u] = 1 .. Cardinality(Created(u)')
    BY DEF SnapshotPerAssessment
  <2>1. snapshots[u] = 1 .. Cardinality(Created(u))
    BY DEF Inv, ApiInv, SnapshotPerAssessment
  <2>2. Created(u)' = Created(u)
    BY <1>2
  <2> QED
    BY <1>1, <2>1, <2>2
<1>4. ApiTypeOK'
  BY <1>1 DEF TypeOK
<1>5. CounterWithinLimit' /\ ChargeBelowLimit' /\ VersionReadExists'
  BY <1>1 DEF Inv, ApiInv, CounterWithinLimit, ChargeBelowLimit,
     VersionReadExists
<1> QED
  BY <1>3, <1>4, <1>5 DEF ApiInv

LEMMA InvStep == Inv /\ [Next]_vars => Inv'
<1> SUFFICES ASSUME Inv, [Next]_vars PROVE Inv'
  OBVIOUS
<1>1. CASE ApiNext /\ UNCHANGED workVars
  <2>1. ApiInv'
    BY <1>1, ApiInvStep DEF Inv
  <2>2. TypeOK'
    BY <1>1, <2>1 DEF Inv, ApiInv, TypeOK, workVars
  <2> QED
    BY <1>1, <2>1, <2>2, ApiRowsStep, ApiResultsStep DEF Inv
<1>2. ASSUME NEW w \in Workers, WorkerAction(w) PROVE Inv'
  BY <1>2, WorkerTypeStep, WorkerApiInvStep, WorkerRowsStep,
     WorkerCompletedStep, WorkerJobCompletedStep, WorkerFinisherStep DEF Inv
<1>3. CASE UNCHANGED vars
  <2>1. UNCHANGED apiVars /\ UNCHANGED workVars
    BY <1>3 DEF vars, apiVars, workVars
  <2>2. ApiInv'
    BY <2>1, ApiInvStep DEF Inv
  <2> QED
    BY <2>1, <2>2 DEF Inv, ApiInv, TypeOK, RowsExist, PublishedRowsExist,
       JoblessIsPending, CompletedHasResult, CompletedJobHasResult,
       FinisherHasResult, Target, apiVars, workVars
<1> QED
  BY <1>1, <1>2, <1>3, NextSplit

LEMMA Invariant == Spec => []Inv
<1> QED
  BY InvInit, InvStep, PTL DEF Spec

-----------------------------------------------------------------------------
(***************************************************************************)
(* Rows, messages, requests and tasks of the pipeline keep their types.    *)
(***************************************************************************)
THEOREM TypeCorrect == Spec => []TypeOK
<1>1. Inv => TypeOK
  BY DEF Inv
<1> QED
  BY <1>1, Invariant, PTL

(***************************************************************************)
(* An assessment shown as completed has a result to show, whatever         *)
(* duplicates, retries, time limits and crashes process_assessment meets.  *)
(***************************************************************************)
THEOREM CompletedIsBacked == Spec => []CompletedHasResult
<1>1. Inv => CompletedHasResult
  BY DEF Inv
<1> QED
  BY <1>1, Invariant, PTL

(***************************************************************************)
(* A job marked completed, by a session of its own, has a result.          *)
(***************************************************************************)
THEOREM CompletedJobIsBacked == Spec => []CompletedJobHasResult
<1>1. Inv => CompletedJobHasResult
  BY DEF Inv
<1> QED
  BY <1>1, Invariant, PTL

(***************************************************************************)
(* The score_queue never holds a task whose assessment or job is missing.  *)
(***************************************************************************)
THEOREM PublishedIsCommitted == Spec => []PublishedRowsExist
<1>1. Inv => PublishedRowsExist
  BY DEF Inv, RowsExist
<1> QED
  BY <1>1, Invariant, PTL

(***************************************************************************)
(* No execution of process_assessment removes a result or alters one that  *)
(* has its breakdown items.                                                *)
(***************************************************************************)
THEOREM AuditTrailSafe == Spec => AuditTrailKept
<1>1. Inv /\ [Next]_vars =>
        [\A id \in Ids :
            /\ results[id].kind # "none" => results'[id].kind # "none"
            /\ results[id].kind = "itemized" => results'[id] = results[id]
        ]_vars
  <2> SUFFICES ASSUME Inv, Next PROVE ResultsKept
    BY DEF ResultsKept
  <2>1. CASE ApiNext /\ UNCHANGED workVars
    BY <2>1 DEF workVars, ResultsKept
  <2>2. ASSUME NEW w \in Workers, WorkerAction(w) PROVE ResultsKept
    BY <2>2, WorkerKeepsResults DEF Inv
  <2> QED
    BY <2>1, <2>2, NextSplit
<1> QED
  BY <1>1, Invariant, PTL DEF Spec, AuditTrailKept

(***************************************************************************)
(* The guards of mark_running and mark_pending_retry: a completed job can  *)
(* only be left for the dead letter status.                                *)
(***************************************************************************)
THEOREM CompletedJobStays == Spec => CompletedJobNotRestarted
<1> DEFINE Stays == \A id \in Ids :
                       jobs[id].status = "completed" =>
                         jobs'[id].status \in {"completed", "dead_letter"}
<1>1. Inv /\ [Next]_vars => [Stays]_vars
  <2> SUFFICES ASSUME Inv, Next PROVE Stays
    OBVIOUS
  <2>0. jobs \in [Ids -> Job \cup {NoJob}]
    BY DEF Inv, TypeOK, ApiTypeOK
  <2>1. CASE ApiNext /\ UNCHANGED workVars
    <3>1. \A id \in Ids : jobs'[id] = jobs[id] \/ jobs[id] = NoJob
      BY <2>0, <2>1
         DEF ApiNext, RequestStep, Post, ReadQuota, CommitQuota,
             ReadSnapshotVersion, InsertAssessment, RefreshAssessment,
             FindJob, InsertJob, Enqueue, RequestDies
    <3> QED
      BY <3>1 DEF NoJob
  <2>2. ASSUME NEW w \in Workers, WorkerAction(w) PROVE Stays
    <3>1. \A j \in Job \cup {NoJob} :
            j.status = "completed" =>
              /\ mark_running(j) = j
              /\ mark_pending_retry(j) = j
              /\ mark_completed(j).status = "completed"
              /\ mark_failed(j, TRUE).status = "dead_letter"
      BY DEF mark_running, mark_pending_retry, mark_completed, mark_failed,
             Job, NoJob
    <3>2. \A id \in Ids :
            jobs'[id] \in {jobs[id], mark_running(jobs[id]),
                           mark_pending_retry(jobs[id]),
                           mark_completed(jobs[id]),
                           mark_failed(jobs[id], TRUE)}
      BY <2>0, <2>2
         DEF WorkerAction, WorkerStep, Take, MarkRunning, LoadAssessment,
             SetRunning, ComputeFails, PersistResult, PersistCollides,
             PersistRejected, RefreshResult, MarkCompleted, HandleFailure,
             Republish, EmitDeadLetter, InterruptOutside, InterruptInside,
             Crash
    <3>3. ASSUME NEW id \in Ids, jobs[id].status = "completed"
          PROVE  jobs'[id].status \in {"completed", "dead_letter"}
      <4>1. jobs[id] \in Job \cup {NoJob}
        BY <2>0
      <4> QED
        BY <3>1, <3>2, <3>3, <4>1
    <3> QED
      BY <3>3
  <2> QED
    BY <2>1, <2>2, NextSplit
<1> QED
  BY <1>1, Invariant, PTL DEF Spec, CompletedJobNotRestarted

-----------------------------------------------------------------------------
(***************************************************************************)
(* The refinement of ResultLedger.  What a user sees of an assessment, and *)
(* the ledger of all that users see.                                       *)
(***************************************************************************)
Seen(id) == [status |-> assessments[id],
             job    |-> jobs[id].status,
             result |-> results[id]]

AllSeen == [id \in Ids |-> Seen(id)]

LEMMA LedgerInitial == Init => Ledger!Init
BY DEF Init, ApiInit, NoJob, NoResult, Ledger!Init, Ledger!Absent

\* A step that writes the rows of one assessment moves its entry alone.
LEMMA LedgerMoves ==
    ASSUME NEW id \in Ids,
           \A i \in Ids \ {id} : /\ assessments'[i] = assessments[i]
                                 /\ jobs'[i] = jobs[i]
                                 /\ results'[i] = results[i]
    PROVE  AllSeen' = [AllSeen EXCEPT ![id] = Seen(id)']
BY DEF AllSeen, Seen

\* A task works on an assessment that has a job.
LEMMA TaskHasRows ==
    ASSUME Inv, NEW w \in Workers, wrk[w].pc # "idle"
    PROVE  /\ Target(w) \in Ids
           /\ jobs[Target(w)] \in Job
           /\ jobs[Target(w)].status # "none"
<1>1. wrk[w].msg \in Message /\ jobs[Target(w)] # NoJob
  BY DEF Inv, TypeOK, RowsExist
<1>2. Target(w) \in Ids
  BY <1>1 DEF Target, Message
<1> QED
  BY <1>1, <1>2 DEF Inv, TypeOK, ApiTypeOK, Job, JobStatus

\* The beginning of an execution, and its failures, are reported.
LEMMA StatusReported ==
    ASSUME Inv, NEW w \in Workers, wrk[w].pc # "idle",
           NEW s \in {"running", "failed"}, WriteStatus(w, s),
           UNCHANGED <<jobs, results>>
    PROVE  Ledger!Next \/ AllSeen' = AllSeen
<1>1. PICK id \in Ids : id = Target(w) /\ jobs[id].status # "none"
  BY TaskHasRows
<1>2. assessments \in [Ids -> AssessmentStatus \cup {"absent"}]
  BY DEF Inv, TypeOK, ApiTypeOK
<1>3. CASE assessments' = assessments
  BY <1>3 DEF AllSeen, Seen
<1>4. CASE assessments' = [assessments EXCEPT ![id] = s]
  <2>1. AllSeen' = [AllSeen EXCEPT ![id] = Seen(id)']
    BY <1>1, <1>2, <1>4, LedgerMoves
  <2>2. Seen(id)' = [Seen(id) EXCEPT !.status = s]
    BY <1>1, <1>2, <1>4 DEF Seen
  <2>3. AllSeen[id] = Seen(id)
    BY <1>1 DEF AllSeen
  <2>4. Ledger!Report(id, s)
    BY <1>1, <2>1, <2>2, <2>3 DEF Ledger!Report, AllSeen, Seen
  <2> QED
    BY <1>1, <2>4 DEF Ledger!Next
<1> QED
  BY <1>1, <1>3, <1>4 DEF WriteStatus

\* A task that computes has set the status to running itself.
ComputesRunning ==
    \A w \in Workers : wrk[w].pc = "compute" => wrk[w].status = "running"

LEMMA ComputesRunningStep ==
    ASSUME TypeOK, ComputesRunning, [Next]_vars
    PROVE  ComputesRunning'
<1>0. wrk \in [Workers -> Task]
  BY DEF TypeOK
<1>1. ASSUME NEW w \in Workers, WorkerAction(w)
      PROVE  ComputesRunning'
  <2>1. ASSUME NEW v \in Workers \ {w}
        PROVE  wrk'[v] = wrk[v]
    BY <1>0, <1>1 DEF WorkerAction, WorkerStep, Take, MarkRunning,
       LoadAssessment, SetRunning, ComputeFails, PersistResult,
       PersistCollides, PersistRejected, RefreshResult, MarkCompleted,
       HandleFailure, Republish, EmitDeadLetter, InterruptOutside,
       InterruptInside, Crash, Advance, Release, Raise
  <2>2. wrk'[w].pc = "compute" => wrk'[w].status = "running"
    <3>0. wrk[w] \in Task
      BY <1>0
    <3> USE <1>0, <3>0 DEF Task
    <3>1. CASE SetRunning(w)
      BY <3>1 DEF SetRunning
    <3>2. ASSUME NEW m \in queue, Take(w, m) PROVE wrk'[w].pc # "compute"
      BY ZenonT(60), <3>2 DEF Take, IdleTask
    <3>3. ASSUME NEW p, Advance(w, p), p # "compute" PROVE wrk'[w].pc # "compute"
      BY <3>3 DEF Advance
    <3>4. ASSUME NEW cause, NEW exc, Raise(w, cause, exc) PROVE wrk'[w].pc # "compute"
      <4>1. wrk'[w] = [wrk[w] EXCEPT !.pc = "failure", !.cause = cause, !.exc = exc]
        BY <3>4 DEF Raise
      <4>2. wrk'[w].pc = "failure"
        BY <4>1
      <4> QED BY <4>2
    <3>5. Release(w) => wrk'[w].pc # "compute"
      BY DEF Release, IdleTask
    <3>6. LoadAssessment(w) => wrk'[w].pc # "compute"
      BY DEF LoadAssessment
    <3>7. ASSUME NEW kind, PersistResult(w, kind) PROVE wrk'[w].pc # "compute"
      BY <3>7 DEF PersistResult
    <3> QED
      BY <1>1, <3>1, <3>2, <3>3, <3>4, <3>5, <3>6, <3>7, Zenon DEF WorkerAction,
         WorkerStep, MarkRunning, ComputeFails, PersistCollides, PersistRejected,
         RefreshResult, MarkCompleted, HandleFailure, Republish, EmitDeadLetter,
         InterruptOutside, InterruptInside, Crash
  <2> QED
    BY <2>1, <2>2 DEF ComputesRunning
<1>2. CASE ApiNext /\ UNCHANGED workVars
  BY <1>2 DEF workVars, ComputesRunning
<1>3. CASE UNCHANGED vars
  BY <1>3 DEF vars, ComputesRunning
<1> QED
  BY <1>1, <1>2, <1>3, NextSplit

\* The commit of a result delivers it.
LEMMA ResultDelivered ==
    ASSUME Inv, ComputesRunning, NEW w \in Workers,
           NEW kind \in {"bare", "itemized"}, PersistResult(w, kind)
    PROVE  Ledger!Next
<1>1. PICK id \in Ids : id = Target(w) /\ jobs[id].status # "none"
  BY TaskHasRows DEF PersistResult
<1>n. PICK new : new = [gen |-> results[id].gen + 1, kind |-> kind]
  OBVIOUS
<1>2. /\ assessments \in [Ids -> AssessmentStatus \cup {"absent"}]
      /\ results \in [Ids -> Result]
  BY DEF Inv, TypeOK, ApiTypeOK
<1>3. /\ results' = [results EXCEPT ![id] = new]
      /\ assessments' = [assessments EXCEPT ![id] = "completed"]
      /\ UNCHANGED jobs
  BY <1>1, <1>n DEF PersistResult, ComputesRunning, WriteStatus
<1>4. results[id].kind # "itemized"
  BY <1>1, <1>2 DEF PersistResult, FlushFails, Result, ResultKind
<1>5. AllSeen' = [AllSeen EXCEPT ![id] = Seen(id)']
  BY <1>1, <1>2, <1>3, LedgerMoves
<1>6. AllSeen[id] = Seen(id)
  BY <1>1 DEF AllSeen
<1>7. Seen(id)' = [status |-> "completed", job |-> Seen(id).job, result |-> new]
  BY <1>1, <1>2, <1>3 DEF Seen
<1>8. new = [gen |-> Seen(id).result.gen + 1, kind |-> kind]
  BY <1>n DEF Seen
<1>9. Ledger!Deliver(id, kind)
  BY <1>1, <1>4, <1>5, <1>6, <1>7, <1>8 DEF Ledger!Deliver, AllSeen, Seen
<1> QED
  BY <1>1, <1>9 DEF Ledger!Next

\* What a worker writes to a job's row: started, put off, given up, or, when
\* there is a result, completed.
LEMMA JobReported ==
    ASSUME Inv, NEW w \in Workers, wrk[w].pc # "idle", NEW j,
           jobs' = [jobs EXCEPT ![Target(w)] = j],
           UNCHANGED <<assessments, results>>,
           \/ j = mark_running(jobs[Target(w)])
           \/ j = mark_pending_retry(jobs[Target(w)])
           \/ j = mark_failed(jobs[Target(w)], TRUE)
           \/ /\ j = mark_completed(jobs[Target(w)])
              /\ results[Target(w)].kind # "none"
    PROVE  Ledger!Next \/ AllSeen' = AllSeen
<1>1. PICK id \in Ids : /\ id = Target(w)
                        /\ jobs[id] \in Job /\ jobs[id].status # "none"
  BY TaskHasRows
<1>2. jobs \in [Ids -> Job \cup {NoJob}]
  BY DEF Inv, TypeOK, ApiTypeOK
<1>3. AllSeen' = [AllSeen EXCEPT ![id] = Seen(id)']
  BY <1>1, <1>2, LedgerMoves
<1>4. AllSeen[id] = Seen(id)
  BY <1>1 DEF AllSeen
<1>5. Seen(id)' = [Seen(id) EXCEPT !.job = j.status]
  BY <1>1, <1>2 DEF Seen
<1>6. CASE j = jobs[id]
  BY <1>1, <1>2, <1>6 DEF AllSeen, Seen
<1>7. ASSUME jobs[id].status # "completed", j.status \in {"running", "pending"}
      PROVE  Ledger!Next
  <2>1. Ledger!Schedule(id, j.status)
    BY <1>1, <1>3, <1>4, <1>5, <1>7 DEF Ledger!Schedule, AllSeen, Seen
  <2> QED
    BY <1>1, <1>7, <2>1 DEF Ledger!Next
<1>8. CASE j.status = "dead_letter"
  <2>1. Ledger!GiveUp(id)
    BY <1>1, <1>3, <1>4, <1>5, <1>8 DEF Ledger!GiveUp, AllSeen, Seen
  <2> QED
    BY <1>1, <2>1 DEF Ledger!Next
<1>9. ASSUME j.status = "completed", results[id].kind # "none"
      PROVE  Ledger!Next
  <2>1. Ledger!CompleteJob(id)
    BY <1>1, <1>3, <1>4, <1>5, <1>9 DEF Ledger!CompleteJob, AllSeen, Seen
  <2> QED
    BY <1>1, <2>1 DEF Ledger!Next
<1> QED
  BY <1>1, <1>6, <1>7, <1>8, <1>9 DEF Job, mark_running, mark_pending_retry,
     mark_failed, mark_completed

\* A worker does what the ledger allows, or nothing that is seen.
LEMMA WorkerLedgerStep ==
    ASSUME Inv, ComputesRunning, NEW w \in Workers, WorkerAction(w)
    PROVE  Ledger!Next \/ AllSeen' = AllSeen
<1>1. ASSUME UNCHANGED <<assessments, jobs, results>>
      PROVE  AllSeen' = AllSeen
  BY <1>1 DEF AllSeen, Seen
<1>2. CASE MarkRunning(w)
  <2>1. jobs' = [jobs EXCEPT ![Target(w)] = mark_running(jobs[Target(w)])]
    BY <1>2 DEF MarkRunning
  <2> QED
    BY <1>2, <2>1, JobReported DEF MarkRunning
<1>3. CASE SetRunning(w)
  BY <1>3, StatusReported DEF SetRunning
<1>4. CASE ComputeFails(w)
  BY <1>4, StatusReported DEF ComputeFails
<1>5. ASSUME NEW kind \in {"bare", "itemized"}, PersistResult(w, kind)
      PROVE  Ledger!Next
  BY <1>5, ResultDelivered
<1>6. CASE RefreshResult(w)
  BY <1>1, <1>6, StatusReported DEF RefreshResult
<1>7. CASE MarkCompleted(w)
  <2>1. /\ jobs' = [jobs EXCEPT ![Target(w)] = mark_completed(jobs[Target(w)])]
        /\ results[Target(w)].kind # "none"
    BY <1>7 DEF MarkCompleted, Inv, FinisherHasResult
  <2> QED
    BY <1>7, <2>1, JobReported DEF MarkCompleted
<1>8. CASE InterruptOutside(w)
  <2>1. CASE UNCHANGED jobs
    BY <1>1, <1>8, <2>1 DEF InterruptOutside
  <2>2. CASE ~UNCHANGED jobs
    <3>1. /\ jobs' = [jobs EXCEPT ![Target(w)] = mark_completed(jobs[Target(w)])]
          /\ results[Target(w)].kind # "none"
      BY <1>8, <2>2 DEF InterruptOutside, Inv, FinisherHasResult
    <3> QED
      BY <1>8, <3>1, JobReported DEF InterruptOutside
  <2> QED
    BY <2>1, <2>2
<1>9. CASE InterruptInside(w)
  BY <1>1, <1>9, StatusReported DEF InterruptInside
<1>10. CASE HandleFailure(w)
  <2>1. PICK j : /\ jobs' = [jobs EXCEPT ![Target(w)] = j]
                 /\ \/ j = mark_failed(jobs[Target(w)], TRUE)
                    \/ j = mark_pending_retry(jobs[Target(w)])
    BY <1>10 DEF HandleFailure
  <2> QED
    BY <1>10, <2>1, JobReported DEF HandleFailure
<1>11. CASE \/ \E m \in queue : Take(w, m)
            \/ LoadAssessment(w) \/ PersistCollides(w) \/ PersistRejected(w)
            \/ Republish(w) \/ EmitDeadLetter(w) \/ Crash(w)
  BY <1>1, <1>11 DEF Take, LoadAssessment, PersistCollides, PersistRejected,
     Republish, EmitDeadLetter, Crash
<1> QED
  BY <1>2, <1>3, <1>4, <1>5, <1>6, <1>7, <1>8, <1>9, <1>10, <1>11
     DEF WorkerAction, WorkerStep

\* A request adds an assessment, and then its job.
LEMMA RequestLedgerStep ==
    ASSUME Inv, ApiNext, UNCHANGED workVars
    PROVE  Ledger!Next \/ AllSeen' = AllSeen
<1>1. PICK c \in Clients :
        \/ \E id \in Ids, program \in Programs : Post(c, id, program)
        \/ RequestStep(c)
        \/ RequestDies(c)
  BY DEF ApiNext
<1>2. results' = results
  BY DEF workVars
<1>3. /\ assessments \in [Ids -> AssessmentStatus \cup {"absent"}]
      /\ jobs \in [Ids -> Job \cup {NoJob}]
  BY DEF Inv, TypeOK, ApiTypeOK
<1>4. ASSUME UNCHANGED <<assessments, jobs>>
      PROVE  AllSeen' = AllSeen
  BY <1>2, <1>4 DEF AllSeen, Seen
<1>5. CASE InsertAssessment(c)
  <2>1. UNCHANGED jobs /\ \E id \in Ids : id = req[c].id
    BY <1>5 DEF Inv, TypeOK, ApiTypeOK, InsertAssessment
  <2>2. CASE UNCHANGED assessments
    BY <1>4, <2>1, <2>2
  <2>3. CASE ~UNCHANGED assessments
    <3>p. PICK id \in Ids : id = req[c].id
      BY <2>1
    <3>1. /\ assessments[id] = "absent"
          /\ assessments' = [assessments EXCEPT ![id] = "pending"]
      BY <1>5, <2>3, <3>p DEF InsertAssessment
    <3>2. AllSeen' = [AllSeen EXCEPT ![id] = Seen(id)']
      BY <1>2, <1>3, <2>1, <3>1, LedgerMoves
    <3>3. AllSeen[id] = Seen(id)
      BY <2>1 DEF AllSeen
    <3>4. Seen(id)' = [Seen(id) EXCEPT !.status = "pending"]
      BY <1>2, <1>3, <2>1, <3>1 DEF Seen
    <3>5. Ledger!Request(id)
      BY <3>1, <3>2, <3>3, <3>4 DEF Ledger!Request, AllSeen, Seen
    <3> QED
      BY <2>1, <3>5 DEF Ledger!Next
  <2> QED
    BY <2>2, <2>3
<1>6. CASE InsertJob(c)
  <2>1. UNCHANGED assessments /\ \E id \in Ids : id = req[c].id
    BY <1>6 DEF Inv, TypeOK, ApiTypeOK, InsertJob
  <2>2. CASE UNCHANGED jobs
    BY <1>4, <2>1, <2>2
  <2>3. CASE ~UNCHANGED jobs
    <3>p. PICK id \in Ids : id = req[c].id
      BY <2>1
    <3>1. /\ jobs[id] = NoJob
          /\ jobs' = [jobs EXCEPT ![id] = NewJob]
      BY <1>6, <2>3, <3>p DEF InsertJob
    <3>2. assessments[id] = "pending"
      BY <1>6, <1>3, <3>p, <3>1 DEF InsertJob, Inv, JoblessIsPending, RowsExist
    <3>3. AllSeen' = [AllSeen EXCEPT ![id] = Seen(id)']
      BY <1>2, <1>3, <2>1, <3>1, LedgerMoves
    <3>4. AllSeen[id] = Seen(id)
      BY <2>1 DEF AllSeen
    <3>5. Seen(id)' = [Seen(id) EXCEPT !.job = "pending"]
      BY <1>2, <1>3, <2>1, <3>1 DEF Seen, NewJob
    <3>6. Seen(id).status = "pending" /\ Seen(id).job = "none"
      BY <3>1, <3>2 DEF Seen, NoJob
    <3>7. Ledger!OpenJob(id)
      BY <3>3, <3>4, <3>5, <3>6 DEF Ledger!OpenJob, AllSeen, Seen
    <3> QED
      BY <2>1, <3>7 DEF Ledger!Next
  <2> QED
    BY <2>2, <2>3
<1>7. CASE ~InsertAssessment(c) /\ ~InsertJob(c)
  BY <1>1, <1>4, <1>7 DEF RequestStep, Post, ReadQuota, CommitQuota,
     ReadSnapshotVersion, RefreshAssessment, FindJob, Enqueue, RequestDies
<1> QED
  BY <1>5, <1>6, <1>7

(***************************************************************************)
(* Whatever overlaps, retries, fails or dies: what the endpoints return of *)
(* assessments, jobs and results is a behaviour of ResultLedger.           *)
(***************************************************************************)
THEOREM ResultsArePromised == Spec => ResultLedgerKept
<1>1. Init => ComputesRunning
  BY DEF Init, ComputesRunning, IdleTask
<1>2. Inv /\ ComputesRunning /\ [Next]_vars => ComputesRunning'
  BY ComputesRunningStep DEF Inv
<1>3. ASSUME Inv, ComputesRunning, [Next]_vars
      PROVE  [Ledger!Next]_(AllSeen)
  <2>1. CASE UNCHANGED vars
    BY <2>1 DEF vars, AllSeen, Seen
  <2>2. CASE Next
    BY <1>3, <2>2, NextSplit, WorkerLedgerStep, RequestLedgerStep
  <2> QED
    BY <1>3, <2>1, <2>2
<1> QED
  BY <1>1, <1>2, <1>3, LedgerInitial, Invariant, PTL
     DEF Spec, ResultLedgerKept, Ledger!Spec, AllSeen, Seen

-----------------------------------------------------------------------------
(***************************************************************************)
(* No job is orphaned.  What a living worker does to the obligations it    *)
(* meets: it hands on a message it takes, and it gives up the task it runs *)
(* only after settling the job or publishing the task again.               *)
(***************************************************************************)
Obliged(w) == wrk[w].pc \notin {"idle", "emit"}

TaskHandedOn(w) ==
    Obliged(w) =>
        \/ Obliged(w)' /\ wrk'[w].msg = wrk[w].msg
        \/ \E m \in queue' : m.id = Target(w)
        \/ Settled(jobs'[Target(w)])

DutyKept(w) ==
    /\ \A v \in Workers \ {w} : wrk'[v] = wrk[v]
    /\ \A m \in queue :
          m \in queue' \/ (Obliged(w)' /\ wrk'[w].msg = m)
    /\ \A id \in Ids :
          jobs'[id] # jobs[id] => Obliged(w) /\ id = Target(w)
    /\ TaskHandedOn(w)

LEMMA WorkerKeepsDuty ==
    ASSUME Inv, NEW w \in Workers, WorkerAction(w), ~Crash(w)
    PROVE  DutyKept(w)
<1>0. /\ wrk \in [Workers -> Task]
      /\ wrk[w].pc # "idle" => wrk[w].msg \in Message
      /\ wrk[w].pc # "idle" => Target(w) \in Ids
      /\ jobs \in [Ids -> Job \cup {NoJob}]
  BY DEF Inv, TypeOK, ApiTypeOK, Target, Message
<1> USE <1>0 DEF DutyKept, TaskHandedOn, Obliged, Task, Advance, Release,
                 Raise, IdleTask
<1>1. ASSUME NEW m \in queue, Take(w, m) PROVE DutyKept(w)
  BY <1>1 DEF Take
<1>2. CASE MarkRunning(w)
  BY <1>2 DEF MarkRunning
<1>3. CASE LoadAssessment(w)
  BY <1>3 DEF LoadAssessment
<1>4. CASE SetRunning(w)
  BY <1>4 DEF SetRunning
<1>5. CASE ComputeFails(w)
  BY <1>5 DEF ComputeFails
<1>6. ASSUME NEW kind \in {"bare", "itemized"}, PersistResult(w, kind)
      PROVE  DutyKept(w)
  BY <1>6 DEF PersistResult
<1>7. CASE PersistCollides(w)
  BY <1>7 DEF PersistCollides
<1>8. CASE PersistRejected(w)
  BY <1>8 DEF PersistRejected
<1>9. CASE RefreshResult(w)
  <2>1. CASE Advance(w, "mark_completed")
    BY <1>9, <2>1 DEF RefreshResult
  <2>2. CASE Raise(w, "Transient", "Transient")
    BY <1>9, <2>2 DEF RefreshResult
  <2> QED
    BY <1>9, <2>1, <2>2 DEF RefreshResult
<1>10. CASE MarkCompleted(w)
  <2>1. Settled(jobs'[Target(w)])
    BY <1>10 DEF MarkCompleted, mark_completed, Settled, Job, NoJob
  <2> QED
    BY <1>10, <2>1 DEF MarkCompleted
<1>11. CASE HandleFailure(w)
  <2>1. CASE GivesUp(w)
    <3>1. /\ jobs' = [jobs EXCEPT ![Target(w)] = mark_failed(@, TRUE)]
          /\ wrk' = [wrk EXCEPT ![w].pc = "emit"]
      BY <1>11, <2>1 DEF HandleFailure
    <3>2. Settled(jobs'[Target(w)])
      BY <1>11, <3>1 DEF HandleFailure, mark_failed, Settled, Job, NoJob
    <3>3. /\ UNCHANGED queue /\ Obliged(w)
          /\ \A v \in Workers \ {w} : wrk'[v] = wrk[v]
          /\ \A id \in Ids : id # Target(w) => jobs'[id] = jobs[id]
      BY <1>11, <3>1 DEF HandleFailure
    <3> HIDE DEF Obliged
    <3> QED
      BY <3>2, <3>3
  <2>2. CASE ~GivesUp(w)
    <3>1. /\ UNCHANGED queue /\ Obliged(w)
          /\ wrk' = [wrk EXCEPT ![w].pc = "republish"]
          /\ \A id \in Ids : id # Target(w) => jobs'[id] = jobs[id]
      BY <1>11, <2>2 DEF HandleFailure
    <3>2. /\ Obliged(w)' /\ wrk'[w].msg = wrk[w].msg
          /\ \A v \in Workers \ {w} : wrk'[v] = wrk[v]
      BY <3>1
    <3> HIDE DEF Obliged
    <3> QED
      BY <3>1, <3>2
  <2> QED
    BY <2>1, <2>2
<1>12. CASE Republish(w)
  <2> DEFINE m == [wrk[w].msg EXCEPT !.retries = @ + 1]
  <2>1. m.id = Target(w)
    BY <1>12 DEF Republish, Target, Message
  <2>2. m \in queue'
    BY <1>12 DEF Republish
  <2>3. queue \subseteq queue' /\ jobs' = jobs
    BY <1>12 DEF Republish
  <2>4. \A v \in Workers \ {w} : wrk'[v] = wrk[v]
    BY <1>12 DEF Republish
  <2> QED
    BY <2>1, <2>2, <2>3, <2>4
<1>13. CASE EmitDeadLetter(w)
  BY <1>13 DEF EmitDeadLetter
<1>14. CASE InterruptOutside(w)
  BY <1>14 DEF InterruptOutside
<1>15. CASE InterruptInside(w)
  BY <1>15 DEF InterruptInside
<1> QED
  BY <1>1, <1>2, <1>3, <1>4, <1>5, <1>6, <1>7, <1>8, <1>9, <1>10, <1>11,
     <1>12, <1>13, <1>14, <1>15 DEF WorkerAction, WorkerStep

LEMMA WorkerCarrierStep ==
    ASSUME Inv, UnsettledHasCarrier, NEW w \in Workers, WorkerAction(w)
    PROVE  UnsettledHasCarrier'
<1> SUFFICES ASSUME faults' = 0, crashes' = 0,
                    NEW id \in Ids, jobs'[id].status \in {"pending", "running"}
             PROVE  HasCarrier(id)'
  BY DEF UnsettledHasCarrier
<1>1. ~Crash(w)
  BY DEF Crash, Inv, TypeOK
<1>2. faults = 0 /\ crashes = 0 /\ UNCHANGED req
  <2>1. UNCHANGED <<req, faults>>
    BY WorkerOwnership DEF apiOwned
  <2>2. crashes' = crashes
    BY <1>1 DEF WorkerAction, WorkerStep, Take, MarkRunning, LoadAssessment,
       SetRunning, ComputeFails, PersistResult, PersistCollides,
       PersistRejected, RefreshResult, MarkCompleted, HandleFailure,
       Republish, EmitDeadLetter, InterruptOutside, InterruptInside
  <2> QED
    BY <2>1, <2>2
<1>3. DutyKept(w)
  BY <1>1, WorkerKeepsDuty
<1>4. ~Settled(jobs'[id])
  BY DEF Settled
<1>5. ASSUME NEW v \in Workers, Obliged(v), Target(v) = id
      PROVE  HasCarrier(id)'
  <2>1. CASE v = w
    BY <1>3, <1>4, <1>5, <2>1
       DEF DutyKept, TaskHandedOn, HasCarrier, Obliged, Target
  <2>2. CASE v # w
    BY <1>3, <1>5, <2>2 DEF DutyKept, HasCarrier, Obliged, Target
  <2> QED
    BY <2>1, <2>2
<1>6. CASE jobs'[id] # jobs[id]
  BY <1>3, <1>5, <1>6 DEF DutyKept
<1>7. CASE jobs'[id] = jobs[id]
  <2>1. HasCarrier(id)
    BY <1>2, <1>7 DEF UnsettledHasCarrier
  <2>2. CASE \E m \in queue : m.id = id
    BY <1>3, <2>2 DEF DutyKept, HasCarrier, Obliged, Target
  <2>3. CASE \E v \in Workers : Obliged(v) /\ Target(v) = id
    BY <1>5, <2>3
  <2>4. CASE \E c \in Clients : /\ req[c].pc = "enqueue" /\ req[c].id = id
                                /\ req[c].seen \in {"pending", "failed"}
    BY <1>2, <2>4 DEF HasCarrier
  <2> QED
    BY <2>1, <2>2, <2>3, <2>4 DEF HasCarrier, Obliged
<1> QED
  BY <1>6, <1>7

(***************************************************************************)
(* A request keeps the others' duties, publishes when it leaves enqueue,   *)
(* and creates a job only when it is bound to publish it.                  *)
(***************************************************************************)
LEMMA RequestCarrierStep ==
    ASSUME Inv, UnsettledHasCarrier, ApiNext, UNCHANGED workVars
    PROVE  UnsettledHasCarrier'
<1> SUFFICES ASSUME faults' = 0, crashes' = 0,
                    NEW id \in Ids, jobs'[id].status \in {"pending", "running"}
             PROVE  HasCarrier(id)'
  BY DEF UnsettledHasCarrier
<1>0. /\ UNCHANGED <<wrk, crashes>>
      /\ req \in [Clients -> Request]
      /\ jobs \in [Ids -> Job \cup {NoJob}]
  BY DEF workVars, Inv, TypeOK, ApiTypeOK
<1>a. PICK c \in Clients :
        \/ \E x \in Ids, program \in Programs : Post(c, x, program)
        \/ RequestStep(c)
        \/ RequestDies(c)
  BY DEF ApiNext
<1>1. ~RequestDies(c)
  BY DEF RequestDies, Inv, TypeOK, ApiTypeOK
<1>2. faults' = faults /\ queue \subseteq queue'
      /\ \A d \in Clients \ {c} : req'[d] = req[d]
  BY <1>0, <1>a, <1>1
     DEF RequestStep, Post, ReadQuota, CommitQuota, ReadSnapshotVersion,
         InsertAssessment, RefreshAssessment, FindJob, InsertJob, Enqueue,
         Goto, Finish
<1>3. CASE jobs'[id] = jobs[id]
  <2>1. HasCarrier(id)
    BY <1>0, <1>2, <1>3 DEF UnsettledHasCarrier
  <2>2. CASE \E m \in queue : m.id = id
    BY <1>2, <2>2 DEF HasCarrier
  <2>3. CASE \E w \in Workers : Obliged(w) /\ Target(w) = id
    BY <1>0, <2>3 DEF HasCarrier, Obliged, Target
  <2>4. ASSUME NEW d \in Clients, req[d].pc = "enqueue", req[d].id = id,
               req[d].seen \in {"pending", "failed"}
        PROVE  HasCarrier(id)'
    <3>1. CASE d # c
      BY <1>2, <2>4, <3>1 DEF HasCarrier
    <3>2. CASE d = c
      <4>1. Enqueue(c)
        BY <1>a, <1>1, <2>4, <3>2
           DEF RequestStep, Post, ReadQuota, CommitQuota,
               ReadSnapshotVersion, InsertAssessment, RefreshAssessment,
               FindJob, InsertJob
      <4> DEFINE m == [id |-> id, dispatch |-> dispatches[id], retries |-> 0]
      <4>2. queue' = queue \cup {m}
        BY <2>4, <3>2, <4>1 DEF Enqueue
      <4>3. m \in queue' /\ m.id = id
        BY <4>2
      <4> QED
        BY <4>3 DEF HasCarrier
    <3> QED
      BY <3>1, <3>2
  <2> QED
    BY <2>1, <2>2, <2>3, <2>4 DEF HasCarrier, Obliged
<1>4. CASE jobs'[id] # jobs[id]
  <2>1. /\ InsertJob(c) /\ jobs[id] = NoJob /\ req[c].id = id
        /\ Goto(c, "enqueue")
    BY <1>0, <1>a, <1>1, <1>4
       DEF RequestStep, Post, ReadQuota, CommitQuota, ReadSnapshotVersion,
           InsertAssessment, RefreshAssessment, FindJob, InsertJob, Enqueue
  <2>2. req[c].seen = "pending"
    BY <2>1 DEF Inv, JoblessIsPending, InsertJob
  <2>3. /\ req'[c].pc = "enqueue"
        /\ req'[c].id = id
        /\ req'[c].seen = "pending"
    BY <1>0, <2>1, <2>2 DEF Goto, Request
  <2> QED
    BY <2>3 DEF HasCarrier
<1> QED
  BY <1>3, <1>4

(***************************************************************************)
(* While no request and no worker dies, an unsettled job waits in the      *)
(* queue, is being executed, or is about to be published: duplicates,      *)
(* retries and the guarded mark_* calls never orphan it.                   *)
(***************************************************************************)
THEOREM NoOrphan == Spec => []UnsettledHasCarrier
<1>1. Init => UnsettledHasCarrier
  BY DEF Init, ApiInit, UnsettledHasCarrier, NoJob
<1>2. Inv /\ UnsettledHasCarrier /\ [Next]_vars => UnsettledHasCarrier'
  <2> SUFFICES ASSUME Inv, UnsettledHasCarrier, [Next]_vars
               PROVE  UnsettledHasCarrier'
    OBVIOUS
  <2>1. CASE UNCHANGED vars
    BY <2>1 DEF vars, UnsettledHasCarrier, HasCarrier, Target
  <2>2. CASE Next
    BY <2>2, NextSplit, RequestCarrierStep, WorkerCarrierStep
  <2> QED
    BY <2>1, <2>2
<1> QED
  BY <1>1, <1>2, Invariant, PTL DEF Spec
-----------------------------------------------------------------------------
(***************************************************************************)
(* Retries never multiply work.  Every message descends from one           *)
(* apply_async, whose number is below the next one of its assessment, and  *)
(* no two places hold messages of the same apply_async: not two messages   *)
(* of a queue, not two workers, and not two of the three kinds of place.   *)
(***************************************************************************)
Busy(w) == wrk[w].pc # "idle"

Issued(m) == m.dispatch < dispatches[m.id]

\* Two messages descend from one apply_async.
Akin(m, n) == m.id = n.id /\ m.dispatch = n.dispatch

AllIssued ==
    /\ \A m \in queue : Issued(m)
    /\ \A m \in deadLetters : Issued(m)
    /\ \A w \in Workers : Busy(w) => Issued(wrk[w].msg)

LoneInQueues ==
    /\ \A m, n \in queue : Akin(m, n) => m = n
    /\ \A m, n \in deadLetters : Akin(m, n) => m = n
    /\ \A m \in queue, n \in deadLetters : ~Akin(m, n)

LoneInWorkers ==
    \A w \in Workers :
        Busy(w) =>
            /\ \A m \in queue : ~Akin(m, wrk[w].msg)
            /\ \A m \in deadLetters : ~Akin(m, wrk[w].msg)
            /\ \A v \in Workers : Busy(v) /\ Akin(wrk[v].msg, wrk[w].msg) => v = w

Lone == AllIssued /\ LoneInQueues /\ LoneInWorkers

\* Nothing is published, and a task keeps its message or ends.
OnlyDropped ==
    /\ UNCHANGED <<queue, deadLetters, dispatches>>
    /\ \A v \in Workers : wrk'[v].pc # "idle" =>
                             wrk[v].pc # "idle" /\ wrk'[v].msg = wrk[v].msg

LEMMA DroppingKeepsLone ==
    ASSUME Lone, OnlyDropped
    PROVE  Lone'
<1> USE DEF OnlyDropped, Busy
<1>1. AllIssued'
  BY DEF Lone, AllIssued, Issued
<1>2. LoneInQueues'
  BY DEF Lone, LoneInQueues, Akin
<1>3. LoneInWorkers'
  BY DEF Lone, LoneInWorkers, Akin
<1> QED
  BY <1>1, <1>2, <1>3 DEF Lone

\* Most actions of a worker neither take nor publish.
LEMMA WorkerDropsOrMoves ==
    ASSUME TypeOK, NEW w \in Workers, WorkerAction(w)
    PROVE  \/ OnlyDropped
           \/ \E m \in queue : Take(w, m)
           \/ Republish(w)
           \/ EmitDeadLetter(w)
<1>0. /\ wrk \in [Workers -> Task]
      /\ UNCHANGED dispatches
  BY WorkerOwnership DEF TypeOK, apiOwned
<1> USE <1>0 DEF OnlyDropped, Task, Advance, Release, Raise, IdleTask
<1>2. CASE MarkRunning(w)
  BY <1>2 DEF MarkRunning
<1>3. CASE LoadAssessment(w)
  BY <1>3 DEF LoadAssessment
<1>4. CASE SetRunning(w)
  BY <1>4 DEF SetRunning
<1>5. CASE ComputeFails(w)
  BY <1>5 DEF ComputeFails
<1>6. ASSUME NEW kind \in {"bare", "itemized"}, PersistResult(w, kind)
      PROVE  OnlyDropped
  BY <1>6 DEF PersistResult
<1>7. CASE PersistCollides(w)
  BY <1>7 DEF PersistCollides
<1>8. CASE PersistRejected(w)
  BY <1>8 DEF PersistRejected
<1>9. CASE RefreshResult(w)
  <2>1. CASE Advance(w, "mark_completed")
    BY <1>9, <2>1 DEF RefreshResult
  <2>2. CASE Raise(w, "Transient", "Transient")
    BY <1>9, <2>2 DEF RefreshResult
  <2> QED
    BY <1>9, <2>1, <2>2 DEF RefreshResult
<1>10. CASE MarkCompleted(w)
  BY <1>10 DEF MarkCompleted
<1>11. CASE HandleFailure(w)
  <2>1. PICK p \in {"emit", "republish"} : wrk' = [wrk EXCEPT ![w].pc = p]
    BY <1>11 DEF HandleFailure
  <2>2. UNCHANGED <<queue, deadLetters>> /\ wrk[w].pc # "idle"
    BY <1>11 DEF HandleFailure
  <2> QED
    BY <2>1, <2>2
<1>14. CASE InterruptOutside(w)
  BY <1>14 DEF InterruptOutside
<1>15. CASE InterruptInside(w)
  BY <1>15 DEF InterruptInside
<1>16. CASE Crash(w)
  BY <1>16 DEF Crash
<1> QED
  BY <1>2, <1>3, <1>4, <1>5, <1>6, <1>7, <1>8, <1>9, <1>10, <1>11, <1>14,
     <1>15, <1>16 DEF WorkerAction, WorkerStep

\* A worker that takes a message holds it instead of the queue.
LEMMA TakeKeepsLone ==
    ASSUME Lone, TypeOK, NEW w \in Workers, NEW m \in queue, Take(w, m)
    PROVE  Lone'
<1>1. /\ queue' = queue \ {m} /\ UNCHANGED <<deadLetters, dispatches>>
      /\ \A v \in Workers \ {w} : wrk'[v] = wrk[v]
      /\ wrk'[w].msg = m /\ ~Busy(w)
  BY DEF Take, apiOwned, IdleTask, TypeOK, Busy
<1>2. AllIssued'
  BY <1>1 DEF Lone, AllIssued, Issued, Busy
<1>3. LoneInQueues'
  BY <1>1 DEF Lone, LoneInQueues, Akin
<1>4. ASSUME NEW v \in Workers, Busy(v)'
      PROVE  /\ \A n \in queue' : ~Akin(n, wrk'[v].msg)
             /\ \A n \in deadLetters : ~Akin(n, wrk'[v].msg)
             /\ v = w \/ ~Akin(m, wrk'[v].msg)
  BY <1>1, <1>4 DEF Lone, LoneInQueues, LoneInWorkers, Akin, Busy
<1>5. ASSUME NEW u \in Workers, NEW v \in Workers, Busy(u)', Busy(v)',
             Akin(wrk'[u].msg, wrk'[v].msg)
      PROVE  u = v
  <2>1. CASE u = w \/ v = w
    BY <1>1, <1>4, <1>5, <2>1 DEF Akin
  <2>2. CASE u # w /\ v # w
    BY <1>1, <1>5, <2>2 DEF Lone, LoneInWorkers, Busy
  <2> QED
    BY <2>1, <2>2
<1>6. LoneInWorkers'
  BY <1>1, <1>4, <1>5 DEF LoneInWorkers, Akin
<1> QED
  BY <1>2, <1>3, <1>6 DEF Lone

(***************************************************************************)
(* A worker that ends its task leaves at most one message, akin to its     *)
(* own, in one of the two queues.                                          *)
(***************************************************************************)
LEMMA LeavingKeepsLone ==
    ASSUME Lone, NEW w \in Workers, Busy(w), wrk \in [Workers -> Task],
           NEW m, Akin(m, wrk[w].msg), Release(w), UNCHANGED dispatches,
           \/ queue' = queue \cup {m} /\ UNCHANGED deadLetters
           \/ deadLetters' = deadLetters \cup {m} /\ UNCHANGED queue
    PROVE  Lone'
<1>1. /\ \A v \in Workers \ {w} : wrk'[v] = wrk[v]
      /\ wrk'[w].pc = "idle"
  BY DEF Release, IdleTask
<1>2. /\ Issued(m)
      /\ \A n \in queue : ~Akin(n, m) /\ ~Akin(m, n)
      /\ \A n \in deadLetters : ~Akin(n, m) /\ ~Akin(m, n)
      /\ \A v \in Workers \ {w} : Busy(v) => ~Akin(m, wrk[v].msg)
  BY DEF Lone, AllIssued, Issued, LoneInWorkers, Akin
<1>3. AllIssued'
  BY <1>1, <1>2 DEF Lone, AllIssued, Issued, Busy
<1>4. LoneInQueues'
  BY <1>2 DEF Lone, LoneInQueues, Akin
<1>5. ASSUME NEW v \in Workers, Busy(v)'
      PROVE  v # w /\ Busy(v) /\ wrk'[v].msg = wrk[v].msg
  BY <1>1, <1>5 DEF Busy
<1>6. LoneInWorkers'
  BY <1>2, <1>5 DEF Lone, LoneInWorkers, Akin
<1> QED
  BY <1>3, <1>4, <1>6 DEF Lone

LEMMA WorkerKeepsLone ==
    ASSUME Lone, TypeOK, NEW w \in Workers, WorkerAction(w)
    PROVE  Lone'
<1>0. wrk \in [Workers -> Task] /\ UNCHANGED dispatches
      /\ (Busy(w) => wrk[w].msg \in Message)
  BY WorkerOwnership DEF TypeOK, apiOwned, Busy
<1>1. CASE Republish(w)
  <2> DEFINE m == [wrk[w].msg EXCEPT !.retries = @ + 1]
  <2>1. Busy(w) /\ Release(w) /\ queue' = queue \cup {m} /\ UNCHANGED deadLetters
    BY <1>1 DEF Republish, Busy
  <2>2. Akin(m, wrk[w].msg)
    BY <1>0, <2>1 DEF Akin, Message
  <2> HIDE DEF m
  <2> QED
    BY <1>0, <2>1, <2>2, LeavingKeepsLone
<1>2. CASE EmitDeadLetter(w)
  <2>1. Busy(w) /\ Release(w) /\ UNCHANGED queue
    BY <1>2 DEF EmitDeadLetter, Busy
  <2>2. CASE deadLetters' = deadLetters \cup {wrk[w].msg}
    <3>1. Akin(wrk[w].msg, wrk[w].msg)
      BY DEF Akin
    <3> QED
      BY <1>0, <2>1, <2>2, <3>1, LeavingKeepsLone
  <2>3. CASE UNCHANGED deadLetters
    <3>1. OnlyDropped
      BY <1>0, <2>1, <2>3 DEF OnlyDropped, Release, IdleTask
    <3> QED
      BY <3>1, DroppingKeepsLone
  <2> QED
    BY <1>2, <2>2, <2>3 DEF EmitDeadLetter
<1> QED
  BY <1>1, <1>2, WorkerDropsOrMoves, DroppingKeepsLone, TakeKeepsLone

\* The API publishes under a number that no message has had.
LEMMA RequestKeepsLone ==
    ASSUME Lone, TypeOK, ApiNext, UNCHANGED workVars
    PROVE  Lone'
<1>0. /\ UNCHANGED <<wrk, deadLetters>>
      /\ dispatches \in [Ids -> Nat] /\ queue \subseteq Message
      /\ deadLetters \subseteq Message
      /\ \A w \in Workers : Busy(w) => wrk[w].msg \in Message
  BY DEF workVars, TypeOK, ApiTypeOK, Busy
<1>1. PICK c \in Clients :
        \/ \E id \in Ids, program \in Programs : Post(c, id, program)
        \/ RequestStep(c)
        \/ RequestDies(c)
  BY DEF ApiNext
<1>2. CASE UNCHANGED <<queue, dispatches>>
  BY <1>0, <1>2, DroppingKeepsLone DEF OnlyDropped
<1>3. ASSUME NEW id \in Ids, NEW m,
             m = [id |-> id, dispatch |-> dispatches[id], retries |-> 0],
             queue' = queue \cup {m},
             dispatches' = [dispatches EXCEPT ![id] = @ + 1]
      PROVE  Lone'
  <2>1. \A n \in Message : Issued(n) => ~Akin(n, m) /\ ~Akin(m, n) /\ Issued(n)'
    BY <1>0, <1>3 DEF Issued, Akin, Message
  <2>2. Issued(m)'
    BY <1>0, <1>3 DEF Issued
  <2>3. AllIssued'
    BY <1>0, <1>3, <2>1, <2>2 DEF Lone, AllIssued, Issued, Busy
  <2>4. \A n \in queue \cup deadLetters : ~Akin(n, m) /\ ~Akin(m, n)
    BY <1>0, <2>1 DEF Lone, AllIssued
  <2>5. LoneInQueues'
    BY <1>0, <1>3, <2>4 DEF Lone, LoneInQueues, Akin
  <2>6. \A w \in Workers : Busy(w) => ~Akin(m, wrk[w].msg)
    BY <1>0, <2>1 DEF Lone, AllIssued
  <2>7. LoneInWorkers'
    BY <1>0, <1>3, <2>6 DEF Lone, LoneInWorkers, Akin, Busy
  <2> QED
    BY <2>3, <2>5, <2>7 DEF Lone
<1>4. \/ UNCHANGED <<queue, dispatches>>
      \/ Enqueue(c) /\ req[c].pc = "enqueue"
  BY <1>1 DEF RequestStep, Post, ReadQuota, CommitQuota, ReadSnapshotVersion,
     InsertAssessment, RefreshAssessment, FindJob, InsertJob, Enqueue,
     RequestDies
<1>5. CASE Enqueue(c) /\ req[c].pc = "enqueue"
  <2>1. req[c].id \in Ids
    BY <1>5 DEF TypeOK, ApiTypeOK
  <2> QED
    BY <1>2, <1>3, <1>5, <2>1 DEF Enqueue
<1> QED
  BY <1>2, <1>4, <1>5

LEMMA AtMostOne ==
    ASSUME NEW S, \A x, y \in S : x = y
    PROVE  Cardinality(S) = IF S = {} THEN 0 ELSE 1
<1>1. CASE S = {}
  BY <1>1, FS_EmptySet
<1>2. CASE S # {}
  <2>1. PICK x : S = {x}
    BY <1>2
  <2> QED
    BY <1>2, <2>1, FS_Singleton
<1> QED
  BY <1>1, <1>2

LEMMA LoneCarrier == Lone => OneCarrierPerDispatch
<1> SUFFICES ASSUME Lone, NEW id \in Ids, NEW d \in 0 .. dispatches[id]
             PROVE  Cardinality(Waiting(id, d)) + Cardinality(Executing(id, d))
                        + Cardinality(Dead(id, d)) <= 1
  BY DEF OneCarrierPerDispatch
<1>1. \A x, y \in Waiting(id, d) : x = y
  BY DEF Lone, LoneInQueues, Akin, Waiting
<1>2. \A x, y \in Dead(id, d) : x = y
  BY DEF Lone, LoneInQueues, Akin, Dead
<1>3. \A x, y \in Executing(id, d) : x = y
  BY DEF Lone, LoneInWorkers, Akin, Executing, Busy
<1>4. /\ Waiting(id, d) = {} \/ Dead(id, d) = {}
      /\ Waiting(id, d) = {} \/ Executing(id, d) = {}
      /\ Dead(id, d) = {} \/ Executing(id, d) = {}
  BY DEF Lone, LoneInQueues, LoneInWorkers, Akin, Waiting, Dead, Executing,
     Busy
<1> QED
  BY <1>1, <1>2, <1>3, <1>4, AtMostOne

(***************************************************************************)
(* Of the messages that descend from one apply_async of create_assessment, *)
(* at most one exists at any time, whatever retries, time limits and       *)
(* crashes the task meets: task.retry hands the work on, it never forks.   *)
(***************************************************************************)
THEOREM WorkNotMultiplied == Spec => []OneCarrierPerDispatch
<1>1. Init => Lone
  BY DEF Init, ApiInit, Lone, AllIssued, LoneInQueues, LoneInWorkers, Busy,
     IdleTask
<1>2. Inv /\ Lone /\ [Next]_vars => Lone'
  <2> SUFFICES ASSUME Inv, Lone, [Next]_vars PROVE Lone'
    OBVIOUS
  <2>0. TypeOK
    BY DEF Inv
  <2>1. CASE UNCHANGED vars
    <3>1. OnlyDropped
      BY <2>1 DEF vars, OnlyDropped
    <3> QED
      BY <3>1, DroppingKeepsLone
  <2>2. CASE Next
    BY <2>0, <2>2, NextSplit, RequestKeepsLone, WorkerKeepsLone
  <2> QED
    BY <2>1, <2>2
<1> QED
  BY <1>1, <1>2, Invariant, LoneCarrier, PTL DEF Spec
-----------------------------------------------------------------------------
(***************************************************************************)
(* Workers neither pay, create nor die as a request, so what requests that *)
(* come one at a time keep is kept in the whole pipeline.                  *)
(***************************************************************************)
LEMMA PipelineSerialInvariant ==
    ASSUME OneRequest
    PROVE  Spec => [](Inv /\ SerialInv)
<1>1. Inv /\ SerialInv /\ [Next]_vars => SerialInv'
  <2> SUFFICES ASSUME Inv, SerialInv, [Next]_vars PROVE SerialInv'
    OBVIOUS
  <2>0. \A c \in Clients : req[c].pc # "idle" => req[c].id \in Ids
    BY DEF Inv, TypeOK, ApiTypeOK
  <2>1. CASE ApiNext
    BY <2>1, SerialStep DEF Inv
  <2>2. ASSUME NEW w \in Workers, WorkerAction(w) PROVE SerialInv'
    BY <2>0, <2>2, SerialUntouched, WorkerOwnership, WorkerKeepsRows
       DEF apiOwned, RowsKept
  <2>3. CASE UNCHANGED vars
    BY <2>0, <2>3, SerialUntouched DEF vars
  <2> QED
    BY <2>1, <2>2, <2>3, NextSplit
<1>2. Init => SerialInv
  BY SerialInit DEF Init
<1> QED
  BY <1>1, <1>2, Invariant, PTL DEF Spec

(***************************************************************************)
(* The account of consume_assessment_quota in the pipeline: with requests  *)
(* one at a time for programs that exist and none of them dead, nothing    *)
(* that workers do, and no retried or repeated request, charges twice or   *)
(* not at all.                                                             *)
(***************************************************************************)
THEOREM PipelineQuotaExact ==
    ASSUME OneRequest, ProgramsStored
    PROVE  Spec => [](faults = 0 => QuotaExact)
<1>1. Inv /\ SerialInv => (faults = 0 => QuotaExact)
  BY AccountIsExact DEF Inv
<1> QED
  BY <1>1, PipelineSerialInvariant, PTL
=============================================================================
