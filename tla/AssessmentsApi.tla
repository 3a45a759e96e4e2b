--------------------------- MODULE AssessmentsApi ---------------------------
(***************************************************************************)
(* POST /api/v1/assessments: AssessmentsService.create_assessment, with    *)
(* the quota it consumes, the rows it inserts and the task it publishes.   *)
(*                                                                         *)
(* Each request runs in its own database session under READ COMMITTED.     *)
(* The handler is cut at every point where the commit of another session   *)
(* can become visible to it: one action per SELECT whose value is used     *)
(* after a later await, and one per commit.  Inserts and updates that are  *)
(* flushed before a commit are applied by the commit's action: until then  *)
(* no other session sees them, and one that collides with them on a unique *)
(* index waits for that commit.                                            *)
(*                                                                         *)
(* The entitlement of a user is fixed (free users have FreeLimit           *)
(* assessments in the month, Pro users any number) and the month does not  *)
(* end, so a user has one usage counter.                                   *)
(***************************************************************************)
EXTENDS Jobs, Integers, FiniteSets

CONSTANTS
    Users,          \* accounts
    ProUsers,       \* the ones whose assessment entitlement has no limit
    Keys,           \* idempotency keys a client may send
    Programs,       \* program ids a client may send
    StoredPrograms, \* the ones immigration_programs has a row for
    Clients,        \* concurrent requests
    FreeLimit,      \* free_assessment_monthly_limit
    MaxPosts,       \* bound: requests ever made
    MaxFaults       \* bound: requests that die half-way

ASSUME ApiAssumption ==
    /\ ProUsers \subseteq Users
    /\ IsFiniteSet(Keys)
    /\ FreeLimit \in Nat
    /\ MaxPosts \in Nat
    /\ MaxFaults \in Nat

VARIABLES
    used,           \* usage_counters.used_count of the month, per user
    snapshots,      \* user_profile_snapshots: the versions a user has
    assessments,    \* assessments.status, per (user, idempotency_key)
    jobs,           \* the score_job row of each assessment
    queue,          \* messages waiting in score_queue
    dispatches,     \* messages the API has ever published per assessment
    req,            \* the request each client is in the middle of
    posts, faults   \* how much of the bounds is used up

apiVars == <<used, snapshots, assessments, jobs, queue, dispatches, req,
             posts, faults>>

-----------------------------------------------------------------------------
\* uq_assessments_user_idempotency_key: the pair identifies the row.
Ids == Users \X Keys

NoId == << >>

NoProgram == << >>

Owner(id) == id[1]

\* models.py also has "canceled", which no code writes.
AssessmentStatus == {"pending", "running", "completed", "failed"}

\* usage_counters has no row for the user and the month.
NoCounter == -1

(***************************************************************************)
(* A message of score_queue.  dispatch numbers the apply_async calls of    *)
(* the API for an assessment; the retries of one execution keep it.        *)
(***************************************************************************)
Message == [id : Ids, dispatch : Nat, retries : Nat]

ReqPc == {"idle", "quota", "charge", "snapshot", "insert", "refresh",
          "find_job", "insert_job", "enqueue"}

Request == [pc   : ReqPc,
            id   : Ids \cup {NoId},
            program : Programs \cup {NoProgram},     \* payload.program_id
            seen : AssessmentStatus \cup {"absent"},  \* existing.status
            read : Nat \cup {NoCounter},             \* counter.used_count
            snap : Nat]                               \* latest version

IdleRequest == [pc |-> "idle", id |-> NoId, program |-> NoProgram,
                seen |-> "absent", read |-> 0, snap |-> 0]

Created(u) == {id \in Ids : Owner(id) = u /\ assessments[id] # "absent"}

LatestSnapshot(u) ==
    IF snapshots[u] = {} THEN 0
    ELSE CHOOSE v \in snapshots[u] : \A x \in snapshots[u] : v >= x

ApiTypeOK ==
    /\ used \in [Users -> Nat \cup {NoCounter}]
    /\ snapshots \in [Users -> SUBSET Nat]
    /\ assessments \in [Ids -> AssessmentStatus \cup {"absent"}]
    /\ jobs \in [Ids -> Job \cup {NoJob}]
    /\ queue \subseteq Message
    /\ dispatches \in [Ids -> Nat]
    /\ req \in [Clients -> Request]
    /\ \A c \in Clients : req[c].pc # "idle" => req[c].id \in Ids
    /\ posts \in 0 .. MaxPosts
    /\ faults \in 0 .. MaxFaults

ApiInit ==
    /\ used = [u \in Users |-> NoCounter]
    /\ snapshots = [u \in Users |-> {}]
    /\ assessments = [id \in Ids |-> "absent"]
    /\ jobs = [id \in Ids |-> NoJob]
    /\ queue = {}
    /\ dispatches = [id \in Ids |-> 0]
    /\ req = [c \in Clients |-> IdleRequest]
    /\ posts = 0
    /\ faults = 0

-----------------------------------------------------------------------------
\* The request of c reaches pc p.
Goto(c, p) == req' = [req EXCEPT ![c].pc = p]

\* The request of c is answered, or ends in an error response.
Finish(c) == req' = [req EXCEPT ![c] = IdleRequest]

\* Mutant of Post: the known-key branch does not bind the assessment found.
Post_unbound(c, id, program) ==
    /\ req[c].pc = "idle"
    /\ posts < MaxPosts
    /\ posts' = posts + 1
    /\ req' = [req EXCEPT ![c] =
                 IF assessments[id] = "absent"
                 THEN [IdleRequest EXCEPT !.pc = "quota", !.id = id,
                                          !.program = program]
                 ELSE [IdleRequest EXCEPT !.pc = "find_job"]]
    /\ UNCHANGED <<used, snapshots, assessments, jobs, queue, dispatches,
                   faults>>

(***************************************************************************)
(* A client sends a request and the handler looks the idempotency key up.  *)
(* The status it reads here is the one it decides on at the end, because   *)
(* the session does not expire objects on commit.  On the known-key branch *)
(* has_priority_processing reads entitlements only, and the program of the *)
(* request is not looked at.                                               *)
(***************************************************************************)
Post(c, id, program) ==
    /\ req[c].pc = "idle"
    /\ posts < MaxPosts
    /\ posts' = posts + 1
    /\ \/ /\ assessments[id] = "absent"
          /\ req' = [req EXCEPT ![c] =
                       [IdleRequest EXCEPT !.pc = "quota", !.id = id,
                                           !.program = program]]
       \/ /\ assessments[id] # "absent"
          /\ req' = [req EXCEPT ![c] =
                       [IdleRequest EXCEPT !.pc = "find_job", !.id = id,
                                           !.seen = assessments[id]]]
    /\ UNCHANGED <<used, snapshots, assessments, jobs, queue, dispatches,
                   faults>>

\* Mutant of ReadQuota: > instead of >= in the comparison with the limit.
ReadQuota_late(c) ==
    LET u     == Owner(req[c].id)
        count == IF used[u] = NoCounter THEN 0 ELSE used[u]
    IN  /\ req[c].pc = "quota"
        /\ IF u \in ProUsers \/ count > FreeLimit
           THEN IF u \in ProUsers THEN Goto(c, "snapshot") ELSE Finish(c)
           ELSE req' = [req EXCEPT ![c].pc = "charge", ![c].read = used[u]]
        /\ UNCHANGED <<used, snapshots, assessments, jobs, queue,
                       dispatches, posts, faults>>

(***************************************************************************)
(* consume_assessment_quota, up to the comparison with the limit.  A user  *)
(* without a limit is not counted.  A missing counter row reads as a new   *)
(* one with 0.  At the limit the request ends with 403.                    *)
(***************************************************************************)
ReadQuota(c) ==
    LET u     == Owner(req[c].id)
        count == IF used[u] = NoCounter THEN 0 ELSE used[u]
    IN  /\ req[c].pc = "quota"
        /\ \/ /\ u \in ProUsers
              /\ Goto(c, "snapshot")
           \/ /\ u \notin ProUsers
              /\ count >= FreeLimit
              /\ Finish(c)
           \/ /\ u \notin ProUsers
              /\ count < FreeLimit
              /\ req' = [req EXCEPT ![c].pc = "charge", ![c].read = used[u]]
        /\ UNCHANGED <<used, snapshots, assessments, jobs, queue,
                       dispatches, posts, faults>>

(***************************************************************************)
(* The commit that ends consume_assessment_quota.  used_count + 1 is an    *)
(* absolute value computed from the count read earlier.  A counter row     *)
(* that was to be inserted and meanwhile exists violates the unique index. *)
(***************************************************************************)
CommitQuota(c) ==
    LET u == Owner(req[c].id)
    IN  /\ req[c].pc = "charge"
        /\ \/ /\ req[c].read = NoCounter /\ used[u] # NoCounter
              /\ Finish(c)
              /\ UNCHANGED used
           \/ /\ ~(req[c].read = NoCounter /\ used[u] # NoCounter)
              /\ used' = [used EXCEPT ![u] =
                            IF req[c].read = NoCounter THEN 1
                                                       ELSE req[c].read + 1]
              /\ Goto(c, "snapshot")
        /\ UNCHANGED <<snapshots, assessments, jobs, queue, dispatches,
                       posts, faults>>

\* get_latest_snapshot_version.
ReadSnapshotVersion(c) ==
    /\ req[c].pc = "snapshot"
    /\ req' = [req EXCEPT ![c].pc = "insert",
                          ![c].snap = LatestSnapshot(Owner(req[c].id))]
    /\ UNCHANGED <<used, snapshots, assessments, jobs, queue, dispatches,
                   posts, faults>>

\* Mutant of InsertAssessment: no unique constraint on the snapshot version.
InsertAssessment_any_version(c) ==
    LET id == req[c].id
    IN  /\ req[c].pc = "insert"
        /\ \/ /\ assessments[id] # "absent" \/ req[c].program \notin StoredPrograms
              /\ Finish(c)
              /\ UNCHANGED <<snapshots, assessments>>
           \/ /\ assessments[id] = "absent" /\ req[c].program \in StoredPrograms
              /\ snapshots' = [snapshots EXCEPT
                                 ![Owner(id)] = @ \cup {req[c].snap + 1}]
              /\ assessments' = [assessments EXCEPT ![id] = "pending"]
              /\ Goto(c, "refresh")
        /\ UNCHANGED <<used, jobs, queue, dispatches, posts, faults>>

(***************************************************************************)
(* Snapshot and assessment are inserted and committed together.  Three     *)
(* constraints can refuse them: the unique index of the snapshot version,  *)
(* the one of the idempotency key, and the foreign key of the program,     *)
(* which nothing has looked up before.  Each ends the request with an      *)
(* error and nothing inserted, after its quota has been committed.         *)
(***************************************************************************)
InsertAssessment(c) ==
    LET id      == req[c].id
        version == req[c].snap + 1
        clash   == version \in snapshots[Owner(id)]
                     \/ assessments[id] # "absent"
    IN  /\ req[c].pc = "insert"
        /\ \/ /\ clash
              /\ Finish(c)
              /\ UNCHANGED <<snapshots, assessments>>
           \/ /\ ~clash
              /\ req[c].program \notin StoredPrograms
              /\ Finish(c)
              /\ UNCHANGED <<snapshots, assessments>>
           \/ /\ ~clash
              /\ req[c].program \in StoredPrograms
              /\ snapshots' = [snapshots EXCEPT ![Owner(id)] = @ \cup {version}]
              /\ assessments' = [assessments EXCEPT ![id] = "pending"]
              /\ Goto(c, "refresh")
        /\ UNCHANGED <<used, jobs, queue, dispatches, posts, faults>>

\* refresh_assessment: another SELECT, after the commit.
RefreshAssessment(c) ==
    /\ req[c].pc = "refresh"
    /\ req' = [req EXCEPT ![c].pc = "find_job",
                          ![c].seen = assessments[req[c].id]]
    /\ UNCHANGED <<used, snapshots, assessments, jobs, queue, dispatches,
                   posts, faults>>

\* Mutant of FindJob: the task is published before its job is committed.
FindJob_publish_first(c) ==
    /\ req[c].pc = "find_job"
    /\ Goto(c, "enqueue")
    /\ UNCHANGED <<used, snapshots, assessments, jobs, queue, dispatches,
                   posts, faults>>

\* The lookup of get_or_create_job.
FindJob(c) ==
    /\ req[c].pc = "find_job"
    /\ Goto(c, IF jobs[req[c].id] = NoJob THEN "insert_job" ELSE "enqueue")
    /\ UNCHANGED <<used, snapshots, assessments, jobs, queue, dispatches,
                   posts, faults>>

\* The insert of get_or_create_job, guarded by uq_jobs_type_idempotency.
InsertJob(c) ==
    LET id == req[c].id
    IN  /\ req[c].pc = "insert_job"
        /\ \/ /\ jobs[id] # NoJob
              /\ Finish(c)
              /\ UNCHANGED jobs
           \/ /\ jobs[id] = NoJob
              /\ jobs' = [jobs EXCEPT ![id] = NewJob]
              /\ Goto(c, "enqueue")
        /\ UNCHANGED <<used, snapshots, assessments, queue, dispatches,
                       posts, faults>>

\* Mutant of Enqueue: only a failed assessment is published.
Enqueue_failed_only(c) ==
    LET id == req[c].id
    IN  /\ req[c].pc = "enqueue"
        /\ IF req[c].seen = "failed"
           THEN /\ queue' = queue \cup {[id |-> id,
                                         dispatch |-> dispatches[id],
                                         retries |-> 0]}
                /\ dispatches' = [dispatches EXCEPT ![id] = @ + 1]
           ELSE UNCHANGED <<queue, dispatches>>
        /\ Finish(c)
        /\ UNCHANGED <<used, snapshots, assessments, jobs, posts, faults>>

(***************************************************************************)
(* The tail of create_assessment: publish the task when the status seen    *)
(* says that nothing has been computed, and answer 202.                    *)
(***************************************************************************)
Enqueue(c) ==
    LET id == req[c].id
    IN  /\ req[c].pc = "enqueue"
        /\ \/ /\ req[c].seen \in {"pending", "failed"}
              /\ queue' = queue \cup
                   {[id |-> id, dispatch |-> dispatches[id], retries |-> 0]}
              /\ dispatches' = [dispatches EXCEPT ![id] = @ + 1]
           \/ /\ req[c].seen \notin {"pending", "failed"}
              /\ UNCHANGED <<queue, dispatches>>
        /\ Finish(c)
        /\ UNCHANGED <<used, snapshots, assessments, jobs, posts, faults>>

(***************************************************************************)
(* The request dies between two of its commits: the API process stops, or  *)
(* the database or the broker does not answer (apply_async raises).  What  *)
(* it had committed stays.                                                 *)
(***************************************************************************)
RequestDies(c) ==
    /\ req[c].pc # "idle"
    /\ faults < MaxFaults
    /\ faults' = faults + 1
    /\ Finish(c)
    /\ UNCHANGED <<used, snapshots, assessments, jobs, queue, dispatches,
                   posts>>

\* The steps a request takes by itself once it has been sent.
RequestStep(c) ==
    \/ ReadQuota(c)
    \/ CommitQuota(c)
    \/ ReadSnapshotVersion(c)
    \/ InsertAssessment(c)
    \/ RefreshAssessment(c)
    \/ FindJob(c)
    \/ InsertJob(c)
    \/ Enqueue(c)

ApiNext ==
    \E c \in Clients :
        \/ \E id \in Ids, program \in Programs : Post(c, id, program)
        \/ RequestStep(c)
        \/ RequestDies(c)

ApiSpec == ApiInit /\ [][ApiNext]_apiVars

\* The server runs every request it has accepted to its end.
ApiFairSpec == ApiSpec /\ \A c \in Clients : WF_apiVars(RequestStep(c))

-----------------------------------------------------------------------------
(***************************************************************************)
(* The counter of consume_assessment_quota never passes the limit of the   *)
(* plan, whatever requests overlap.                                        *)
(***************************************************************************)
CounterWithinLimit == \A u \in Users : used[u] <= FreeLimit

(***************************************************************************)
(* Every assessment has its own snapshot of the profile, and the versions  *)
(* of a user run from 1 without a gap, although each request chooses its   *)
(* version from a read that may be stale when it inserts.                  *)
(***************************************************************************)
SnapshotPerAssessment ==
    \A u \in Users : snapshots[u] = 1 .. Cardinality(Created(u))

(***************************************************************************)
(* A task is published only after the assessment and the job it names have *)
(* been committed: a worker that takes it finds both rows.                 *)
(***************************************************************************)
PublishedRowsExist ==
    \A m \in queue : assessments[m.id] # "absent" /\ jobs[m.id] # NoJob

(***************************************************************************)
(* An assessment that has been committed is published to the workers,      *)
(* however the requests for its key overlap and whichever of them loses    *)
(* the race for the job row, unless one of them dies half-way.             *)
(***************************************************************************)
CommittedIsDispatched ==
    \A id \in Ids :
        assessments[id] # "absent" ~> dispatches[id] > 0 \/ faults > 0

\* Requests that have paid and have not yet inserted their assessment.
Paid(u) == {c \in Clients : /\ req[c].pc \in {"snapshot", "insert"}
                            /\ Owner(req[c].id) = u}

(***************************************************************************)
(* docs/06-regras-de-negocio.md:29: the quota is consumed when a new       *)
(* assessment is created.  The counter of a free user is the number of     *)
(* assessments the user has created plus the requests that have paid and   *)
(* are about to create one.                                                *)
(***************************************************************************)
QuotaExact ==
    \A u \in Users \ ProUsers :
        LET count == IF used[u] = NoCounter THEN 0 ELSE used[u]
        IN  count = Cardinality(Created(u)) + Cardinality(Paid(u))

(***************************************************************************)
(* README.md: "Free: 3 assessments/mes".  A free user never has more       *)
(* assessments in the month than the limit.                                *)
(***************************************************************************)
FreeLimitRespected ==
    \A u \in Users \ ProUsers : Cardinality(Created(u)) <= FreeLimit

=============================================================================
