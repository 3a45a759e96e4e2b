------------------------------ MODULE Roadmaps ------------------------------
(***************************************************************************)
(* The roadmaps a Pro user requests (apps/roadmaps): the API creates the   *)
(* roadmap, then its job, then publishes the task; a Celery worker runs    *)
(* generate_roadmap_task against an LLM provider.  The assessment is       *)
(* completed and the user entitled: a refused request changes nothing.     *)
(*                                                                         *)
(* As in ScorePipeline, actions are cut at the commits, messages are       *)
(* acknowledged when they are taken, and an UPDATE is emitted only for a   *)
(* column that differs from what the session has loaded.                   *)
(***************************************************************************)
EXTENDS Jobs, FiniteSets

CONSTANTS
    Users,
    Keys,           \* idempotency keys the clients choose
    NoKey,          \* a request without one
    Clients,        \* concurrent requests
    Workers,        \* Celery worker processes
    MaxRoadmaps,    \* bound: roadmaps ever created
    MaxRetries,     \* roadmap_task_max_retries
    MaxFaults       \* bound: soft time limits (interrupts) together with
                    \* lost requests, publications and workers (losses)

ASSUME RoadmapsAssumption ==
    /\ NoKey \notin Keys
    /\ Keys \cap Nat = {}
    /\ {MaxRoadmaps, MaxRetries, MaxFaults} \subseteq Nat

VARIABLES
    roadmaps,       \* the roadmaps table
    jobs,           \* rows of type roadmap_job, by idempotency key
    queue,          \* roadmap_queue
    req,            \* the request each client is in the middle of
    wrk,            \* the task each worker is running
    interrupts, losses

vars == <<roadmaps, jobs, queue, req, wrk, interrupts, losses>>

-----------------------------------------------------------------------------
Ids == 1 .. MaxRoadmaps

\* A request without a key gets the key "roadmap:<id>" of its own.
JobKey == Keys \cup Ids

\* draft, published and archived are written by no code.
RoadmapStatus == {"pending", "completed", "failed"}

\* The roadmap_steps rows, by the provider they come from.
Steps == {"none", "primary", "fallback"}

\* key: the key it was requested with, which only the properties read.
Roadmap == [status : RoadmapStatus \cup {"none"},
            steps  : Steps,
            user   : Users \cup {0},
            key    : Keys \cup {NoKey}]

NoRoadmap == [status |-> "none", steps |-> "none", user |-> 0, key |-> NoKey]

\* roadmap: the foreign key the row was inserted with.
JobRow == [row : Job \cup {NoJob}, roadmap : Ids \cup {0}]

Message == [roadmap : Ids, job : JobKey, retries : 0 .. MaxRetries]

NoMessage == << >>

Request == [pc      : {"idle", "create", "find", "insert", "enqueue"},
            user    : Users \cup {0},
            key     : Keys \cup {NoKey},
            roadmap : Ids \cup {0}]

IdleRequest == [pc |-> "idle", user |-> 0, key |-> NoKey, roadmap |-> 0]

WorkerPc == {"idle", "start", "load", "set_pending", "generate", "apply",
             "mark_completed", "done", "failure", "fail_roadmap", "republish"}

Task == [pc     : WorkerPc,
         msg    : Message \cup {NoMessage},
         status : RoadmapStatus \cup {"none"},     \* as loaded
         steps  : Steps,                           \* the contract generated
         exc    : {"none", "definitive", "transient"}]

IdleTask == [pc |-> "idle", msg |-> NoMessage, status |-> "none",
             steps |-> "none", exc |-> "none"]

TypeOK ==
    /\ roadmaps \in [Ids -> Roadmap]
    /\ jobs \in [JobKey -> JobRow]
    /\ queue \subseteq Message
    /\ req \in [Clients -> Request]
    /\ \A c \in Clients :
          req[c].pc \in {"find", "insert", "enqueue"} => req[c].roadmap \in Ids
    /\ wrk \in [Workers -> Task]
    /\ \A w \in Workers : wrk[w].pc # "idle" => wrk[w].msg \in Message
    /\ interrupts \in 0 .. MaxFaults
    /\ losses \in 0 .. MaxFaults

Init ==
    /\ roadmaps = [id \in Ids |-> NoRoadmap]
    /\ jobs = [k \in JobKey |-> [row |-> NoJob, roadmap |-> 0]]
    /\ queue = {}
    /\ req = [c \in Clients |-> IdleRequest]
    /\ wrk = [w \in Workers |-> IdleTask]
    /\ interrupts = 0
    /\ losses = 0

-----------------------------------------------------------------------------
Created == {id \in Ids : roadmaps[id].status # "none"}

\* payload.idempotency_key or f"roadmap:{roadmap.id}"
RequestJob(c) == IF req[c].key = NoKey THEN req[c].roadmap ELSE req[c].key

Continue(c, p) == req' = [req EXCEPT ![c].pc = p]

EndRequest(c) == req' = [req EXCEPT ![c] = IdleRequest]

(***************************************************************************)
(* create_roadmap looks its key up first.  A known key is answered with    *)
(* the stored roadmap, or with 409 if that is of another user, and nothing *)
(* is written or published.                                                *)
(***************************************************************************)
Post(c, u, k) ==
    /\ req[c].pc = "idle"
    /\ k # NoKey => jobs[k].row = NoJob
    /\ req' = [req EXCEPT ![c] = [IdleRequest EXCEPT
                                    !.pc = "create", !.user = u, !.key = k]]
    /\ UNCHANGED <<roadmaps, jobs, queue, wrk, interrupts, losses>>

CreateRoadmap(c) ==
    LET id == Cardinality(Created) + 1
    IN  /\ req[c].pc = "create"
        /\ id \in Ids
        /\ roadmaps' = [roadmaps EXCEPT ![id] =
              [status |-> "pending", steps |-> "none",
               user |-> req[c].user, key |-> req[c].key]]
        /\ req' = [req EXCEPT ![c].pc = "find", ![c].roadmap = id]
        /\ UNCHANGED <<jobs, queue, wrk, interrupts, losses>>

\* get_or_create_job, first half: whatever roadmap the row belongs to.
FindJob(c) ==
    /\ req[c].pc = "find"
    /\ Continue(c, IF jobs[RequestJob(c)].row = NoJob THEN "insert" ELSE "enqueue")
    /\ UNCHANGED <<roadmaps, jobs, queue, wrk, interrupts, losses>>

\* Second half: the loser of the unique index ends in an error.
InsertJob(c) ==
    LET k == RequestJob(c)
    IN  /\ req[c].pc = "insert"
        /\ \/ /\ jobs[k].row = NoJob
              /\ jobs' = [jobs EXCEPT ![k] =
                             [row |-> NewJob, roadmap |-> req[c].roadmap]]
              /\ Continue(c, "enqueue")
           \/ /\ jobs[k].row # NoJob
              /\ EndRequest(c)
              /\ UNCHANGED jobs
        /\ UNCHANGED <<roadmaps, queue, wrk, interrupts, losses>>

\* apply_async names the new roadmap and the job that was found.
Enqueue(c) ==
    /\ req[c].pc = "enqueue"
    /\ queue' = queue \cup {[roadmap |-> req[c].roadmap,
                             job |-> RequestJob(c), retries |-> 0]}
    /\ EndRequest(c)
    /\ UNCHANGED <<roadmaps, jobs, wrk, interrupts, losses>>

\* The broker refuses the message, or the process is lost.
RequestDies(c) ==
    /\ req[c].pc # "idle"
    /\ interrupts + losses < MaxFaults
    /\ losses' = losses + 1
    /\ EndRequest(c)
    /\ UNCHANGED <<roadmaps, jobs, queue, wrk, interrupts>>

-----------------------------------------------------------------------------
Target(w) == wrk[w].msg.roadmap

Advance(w, p) == wrk' = [wrk EXCEPT ![w].pc = p]

Release(w) == wrk' = [wrk EXCEPT ![w] = IdleTask]

Raise(w, exc) ==
    wrk' = [wrk EXCEPT ![w] = [@ EXCEPT !.pc = "failure", !.exc = exc]]

MarkJob(w, row) == jobs' = [jobs EXCEPT ![wrk[w].msg.job].row = row]

JobOf(w) == jobs[wrk[w].msg.job].row

Take(w, m) ==
    /\ wrk[w].pc = "idle"
    /\ m \in queue
    /\ queue' = queue \ {m}
    /\ wrk' = [wrk EXCEPT ![w] = [IdleTask EXCEPT !.pc = "start", !.msg = m]]
    /\ UNCHANGED <<roadmaps, jobs, req, interrupts, losses>>

MarkRunning(w) ==
    /\ wrk[w].pc = "start"
    /\ MarkJob(w, mark_running(JobOf(w)))
    /\ Advance(w, "load")
    /\ UNCHANGED <<roadmaps, queue, req, interrupts, losses>>

\* Mutant of LoadRoadmap: a stored contract is generated again.
LoadRoadmap_again(w) ==
    /\ wrk[w].pc = "load"
    /\ wrk' = [wrk EXCEPT ![w].pc = "set_pending",
                          ![w].status = roadmaps[Target(w)].status]
    /\ UNCHANGED <<roadmaps, jobs, queue, req, interrupts, losses>>

\* get_roadmap_for_generation: a completed roadmap with steps is left alone.
LoadRoadmap(w) ==
    LET r == roadmaps[Target(w)]
    IN  /\ wrk[w].pc = "load"
        /\ wrk' = [wrk EXCEPT ![w].status = r.status, ![w].pc =
              IF r.status = "completed" /\ r.steps # "none"
              THEN "mark_completed" ELSE "set_pending"]
        /\ UNCHANGED <<roadmaps, jobs, queue, req, interrupts, losses>>

\* RoadmapsRepository.mark_running: there is no running status.
SetPending(w) ==
    /\ wrk[w].pc = "set_pending"
    /\ roadmaps' = IF wrk[w].status = "pending" THEN roadmaps
                   ELSE [roadmaps EXCEPT ![Target(w)].status = "pending"]
    /\ Advance(w, "generate")
    /\ UNCHANGED <<jobs, queue, req, interrupts, losses>>

(***************************************************************************)
(* The resilient provider answers with the contract of the primary or, for *)
(* any exception the primary call raises, the soft time limit included,    *)
(* with the contract of the fallback.                                      *)
(***************************************************************************)
Generate(w, provider) ==
    /\ wrk[w].pc = "generate"
    /\ wrk' = [wrk EXCEPT ![w].pc = "apply", ![w].steps = provider]
    /\ UNCHANGED <<roadmaps, jobs, queue, req, interrupts, losses>>

(***************************************************************************)
(* A missing snapshot or a contract of the primary with another version or *)
(* a repeated step_order is a ValueError.  A missing API key is an         *)
(* LLMProviderError outside the resilient provider, and transient.         *)
(***************************************************************************)
GenerateFails(w, exc) ==
    /\ wrk[w].pc = "generate"
    /\ Raise(w, exc)
    /\ UNCHANGED <<roadmaps, jobs, queue, req, interrupts, losses>>

\* Mutant of ApplyContract: the status is committed before the steps.
ApplyContract_status_first(w) ==
    /\ wrk[w].pc = "apply"
    /\ \/ /\ roadmaps[Target(w)].status = "pending"
          /\ roadmaps' = [roadmaps EXCEPT ![Target(w)].status = "completed"]
          /\ Advance(w, "apply")
       \/ /\ roadmaps[Target(w)].status = "completed"
          /\ roadmaps' = [roadmaps EXCEPT ![Target(w)].steps = wrk[w].steps]
          /\ Advance(w, "mark_completed")
    /\ UNCHANGED <<jobs, queue, req, interrupts, losses>>

\* apply_generated_contract: old steps, new steps and status in one commit.
ApplyContract(w) ==
    /\ wrk[w].pc = "apply"
    /\ roadmaps' = [roadmaps EXCEPT ![Target(w)] =
                       [@ EXCEPT !.status = "completed", !.steps = wrk[w].steps]]
    /\ Advance(w, "mark_completed")
    /\ UNCHANGED <<jobs, queue, req, interrupts, losses>>

MarkCompleted(w) ==
    /\ wrk[w].pc = "mark_completed"
    /\ MarkJob(w, mark_completed(JobOf(w)))
    /\ Advance(w, "done")
    /\ UNCHANGED <<roadmaps, queue, req, interrupts, losses>>

\* The refresh after that commit, and the end of the task.
Finish(w) ==
    /\ wrk[w].pc = "done"
    /\ Release(w)
    /\ UNCHANGED <<roadmaps, jobs, queue, req, interrupts, losses>>

\* A database error or the soft time limit, after any commit of the task.
Interrupt(w) ==
    /\ wrk[w].pc \notin {"idle", "failure", "fail_roadmap", "republish"}
    /\ interrupts + losses < MaxFaults
    /\ interrupts' = interrupts + 1
    /\ Raise(w, "transient")
    /\ UNCHANGED <<roadmaps, jobs, queue, req, losses>>

GivesUp(w) == wrk[w].exc = "definitive" \/ wrk[w].msg.retries >= MaxRetries

\* Mutant of FailJob: nothing tells the roadmap that its task gave up.
FailJob_only(w) ==
    /\ wrk[w].pc = "failure"
    /\ IF GivesUp(w)
       THEN MarkJob(w, mark_failed(JobOf(w), TRUE)) /\ Release(w)
       ELSE MarkJob(w, mark_pending_retry(JobOf(w))) /\ Advance(w, "republish")
    /\ UNCHANGED <<roadmaps, queue, req, interrupts, losses>>

\* Mutant of FailJob: the job waits for a retry although the task gives up.
FailJob_retry(w) ==
    /\ wrk[w].pc = "failure"
    /\ MarkJob(w, mark_pending_retry(JobOf(w)))
    /\ Advance(w, IF GivesUp(w) THEN "fail_roadmap" ELSE "republish")
    /\ UNCHANGED <<roadmaps, queue, req, interrupts, losses>>

\* _mark_failure_state commits the job first ...
FailJob(w) ==
    /\ wrk[w].pc = "failure"
    /\ IF GivesUp(w)
       THEN MarkJob(w, mark_failed(JobOf(w), TRUE)) /\ Advance(w, "fail_roadmap")
       ELSE MarkJob(w, mark_pending_retry(JobOf(w))) /\ Advance(w, "republish")
    /\ UNCHANGED <<roadmaps, queue, req, interrupts, losses>>

\* ... and the roadmap afterwards, whatever its status is.
FailRoadmap(w) ==
    /\ wrk[w].pc = "fail_roadmap"
    /\ roadmaps' = [roadmaps EXCEPT ![Target(w)].status = "failed"]
    /\ Release(w)
    /\ UNCHANGED <<jobs, queue, req, interrupts, losses>>

\* task.retry
Republish(w) ==
    /\ wrk[w].pc = "republish"
    /\ queue' = queue \cup {[wrk[w].msg EXCEPT !.retries = @ + 1]}
    /\ Release(w)
    /\ UNCHANGED <<roadmaps, jobs, req, interrupts, losses>>

\* The hard time limit, a lost worker, or an error inside _handle_failure.
Crash(w) ==
    /\ wrk[w].pc # "idle"
    /\ interrupts + losses < MaxFaults
    /\ losses' = losses + 1
    /\ Release(w)
    /\ UNCHANGED <<roadmaps, jobs, queue, req, interrupts>>

-----------------------------------------------------------------------------
RequestStep(c) == CreateRoadmap(c) \/ FindJob(c) \/ InsertJob(c) \/ Enqueue(c)

WorkerStep(w) ==
    \/ \E m \in queue : Take(w, m)
    \/ MarkRunning(w)
    \/ LoadRoadmap(w)
    \/ SetPending(w)
    \/ \E provider \in {"primary", "fallback"} : Generate(w, provider)
    \/ \E exc \in {"definitive", "transient"} : GenerateFails(w, exc)
    \/ ApplyContract(w)
    \/ MarkCompleted(w)
    \/ Finish(w)
    \/ FailJob(w)
    \/ FailRoadmap(w)
    \/ Republish(w)

Next ==
    \/ \E c \in Clients :
          \/ \E u \in Users, k \in Keys \cup {NoKey} : Post(c, u, k)
          \/ RequestStep(c)
          \/ RequestDies(c)
    \/ \E w \in Workers : WorkerStep(w) \/ Interrupt(w) \/ Crash(w)

Spec == Init /\ [][Next]_vars

\* Accepted requests run to their end; workers that are up keep consuming.
FairSpec ==
    /\ Spec
    /\ \A c \in Clients : WF_vars(RequestStep(c))
    /\ \A w \in Workers : WF_vars(WorkerStep(w))

-----------------------------------------------------------------------------
(***************************************************************************)
(* get_roadmap_detail shows steps with a completed roadmap: apply_-        *)
(* generated_contract stores both or neither, whatever interrupts it.      *)
(***************************************************************************)
CompletedHasContract ==
    \A id \in Ids : roadmaps[id].status = "completed" => roadmaps[id].steps # "none"

\* The roadmaps that were requested with the key k.
Sharing(k) ==
    {id \in Created :
        k = IF roadmaps[id].key = NoKey THEN id ELSE roadmaps[id].key}

(***************************************************************************)
(* The client may poll the job or the roadmap.  As long as one roadmap was *)
(* requested with a key, a completed job means a completed roadmap, and a  *)
(* failed roadmap a job in dead letter, through retries and interrupts of  *)
(* the two commits that settle them.                                       *)
(***************************************************************************)
JobAndRoadmapAgree ==
    \A k \in JobKey : Cardinality(Sharing(k)) = 1 /\ jobs[k].row # NoJob =>
        LET r == roadmaps[jobs[k].roadmap]
        IN  /\ jobs[k].row.status = "completed" => r.status = "completed"
            /\ r.status = "failed" => jobs[k].row.status = "dead_letter"

HasCarrier(id) ==
    \/ \E m \in queue : m.roadmap = id
    \/ \E c \in Clients : req[c].pc # "idle" /\ req[c].roadmap = id
    \/ \E w \in Workers : wrk[w].pc # "idle" /\ Target(w) = id

(***************************************************************************)
(* While nothing is lost, a pending roadmap whose job was inserted has a   *)
(* request, a message or a worker that will settle it.                     *)
(***************************************************************************)
PendingHasCarrier ==
    losses = 0 => \A k \in JobKey :
        jobs[k].row # NoJob =>
            LET id == jobs[k].roadmap
            IN  id \in Ids /\ (roadmaps[id].status = "pending" => HasCarrier(id))

(***************************************************************************)
(* Polling ends: a roadmap that shares its key with no other is completed  *)
(* or failed in the end, unless a publication or a worker is lost.         *)
(***************************************************************************)
RoadmapsSettle ==
    \A id \in Ids :
        roadmaps[id].status = "pending"
            ~> \/ roadmaps[id].status \in {"completed", "failed"}
               \/ losses > 0
               \/ \E k \in Keys : Cardinality(Sharing(k)) > 1

(***************************************************************************)
(* The roadmaps implement what RoadmapLedger promises, seen through        *)
(* get_roadmap_status and get_roadmap_detail.                              *)
(***************************************************************************)
Ledger == INSTANCE RoadmapLedger WITH
    Roadmaps   <- Ids,
    Contracts  <- Steps \ {"none"},
    NoContract <- "none",
    ledger     <- [id \in Ids |-> [status   |-> roadmaps[id].status,
                                   contract |-> roadmaps[id].steps]]

LedgerKept == Ledger!Spec
=============================================================================
