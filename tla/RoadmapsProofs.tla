--------------------------- MODULE RoadmapsProofs ---------------------------
(***************************************************************************)
(* The safety of the roadmaps for every number of users, keys, clients,    *)
(* workers, roadmaps, retries and faults, and the proof that they          *)
(* implement RoadmapLedger.                                                *)
(*                                                                         *)
(* What makes it work is that a roadmap has one owner at a time: the       *)
(* request that creates it, then the one message that names it, then the   *)
(* worker that has taken the message, and a message again for a retry.     *)
(* JobInv adds the jobs, which roadmaps of one key share.                  *)
(***************************************************************************)
EXTENDS Roadmaps, FiniteSetTheorems, TLAPS

\* A request has no roadmap before it has created one.
RequestsNumbered ==
    \A c \in Clients : req[c].pc \in {"idle", "create"} => req[c].roadmap = 0

\* A retry is left when a message is published again, a contract is at hand
\* when it is applied.
TasksEquipped ==
    \A w \in Workers :
        /\ wrk[w].pc = "republish" => wrk[w].msg.retries < MaxRetries
        /\ wrk[w].pc = "apply" => wrk[w].steps # "none"

TypeInv == TypeOK /\ RequestsNumbered /\ TasksEquipped

\* Primary keys are given in order.
KeysInOrder == \E n \in 0 .. MaxRoadmaps : Created = 1 .. n

\* The roadmap a task works on, 0 for none.
Taken(w) == IF wrk[w].pc = "idle" THEN 0 ELSE Target(w)

(***************************************************************************)
(* No two of the requests, messages and tasks name one roadmap.            *)
(***************************************************************************)
OneOwner ==
    /\ \A c, d \in Clients : c # d /\ req[c].roadmap # 0 =>
          req[c].roadmap # req[d].roadmap
    /\ \A v, w \in Workers : v # w /\ Taken(v) # 0 => Taken(v) # Taken(w)
    /\ \A m, n \in queue : m # n => m.roadmap # n.roadmap
    /\ \A c \in Clients, w \in Workers :
          req[c].roadmap # 0 => req[c].roadmap # Taken(w)
    /\ \A c \in Clients, m \in queue : req[c].roadmap # m.roadmap
    /\ \A w \in Workers, m \in queue : Taken(w) # m.roadmap

Fresh(r) == r.status = "pending" /\ r.steps = "none"

Delivered(r) == r.status = "completed" /\ r.steps # "none"

\* What a task may rely on at the place it has reached.
TaskPhase(w) ==
    LET r == roadmaps[Target(w)]
    IN  /\ Fresh(r) \/ Delivered(r)
        /\ wrk[w].pc \in {"set_pending", "generate", "apply"} => Fresh(r)
        /\ wrk[w].pc = "set_pending" => wrk[w].status = "pending"
        /\ wrk[w].pc \in {"mark_completed", "done"} => Delivered(r)

(***************************************************************************)
(* A roadmap with an owner is fresh or delivered; nobody works on a failed *)
(* one any more.                                                           *)
(***************************************************************************)
Phases ==
    /\ \A c \in Clients : req[c].roadmap # 0 => Fresh(roadmaps[req[c].roadmap])
    /\ \A m \in queue : Fresh(roadmaps[m.roadmap]) \/ Delivered(roadmaps[m.roadmap])
    /\ \A w \in Workers : wrk[w].pc # "idle" => TaskPhase(w)

RowsWhole ==
    /\ \A id \in Ids : roadmaps[id].status = "none" => roadmaps[id].steps = "none"
    /\ CompletedHasContract

Inv == TypeInv /\ KeysInOrder /\ OneOwner /\ Phases /\ RowsWhole

-----------------------------------------------------------------------------
LEMMA RoadmapConstants ==
    /\ MaxRoadmaps \in Nat /\ MaxRetries \in Nat /\ MaxFaults \in Nat
    /\ NoKey \notin Keys
    /\ Ids \subseteq Nat \ {0}
  BY RoadmapsAssumption DEF Ids

\* The transitions of a job's row, from a row or from none.
LEMMA JobTransitions ==
    ASSUME NEW j \in Job \cup {NoJob}
    PROVE  /\ mark_running(j) \in Job
           /\ mark_pending_retry(j) \in Job
           /\ mark_completed(j) \in Job
           /\ mark_failed(j, TRUE) \in Job
           /\ NewJob \in Job
  BY DEF Job, NoJob, NewJob, JobStatus, mark_running, mark_pending_retry,
         mark_completed, mark_failed

LEMMA InitialInv == Init => Inv
<1> SUFFICES ASSUME Init
             PROVE  Inv
  OBVIOUS
<1> USE RoadmapConstants DEF Init
<1>1. TypeInv
  BY DEF TypeInv, TypeOK, RequestsNumbered, TasksEquipped, Roadmap, NoRoadmap,
         JobRow, NoJob, Request, IdleRequest, Task, IdleTask, WorkerPc, Steps
<1>2. KeysInOrder
  <2>1. Created = 1 .. 0
    BY DEF Created, NoRoadmap
  <2> QED
    BY <2>1 DEF KeysInOrder
<1>3. OneOwner
  BY DEF OneOwner, Taken, IdleRequest, IdleTask
<1>4. Phases
  BY DEF Phases, IdleRequest, IdleTask
<1>5. RowsWhole
  BY DEF RowsWhole, CompletedHasContract, NoRoadmap
<1> QED
  BY <1>1, <1>2, <1>3, <1>4, <1>5 DEF Inv

-----------------------------------------------------------------------------
\* The part of the types that the actions of the workers write.
TaskTypes ==
    /\ wrk \in [Workers -> Task]
    /\ \A w \in Workers : wrk[w].pc # "idle" => wrk[w].msg \in Message
    /\ TasksEquipped

\* A task moves on with its message.
LEMMA TaskAdvances ==
    ASSUME TaskTypes, NEW w \in Workers, wrk[w].pc # "idle",
           NEW p \in WorkerPc \ {"republish", "apply"}, Advance(w, p)
    PROVE  TaskTypes'
  BY DEF TaskTypes, TasksEquipped, Task, Advance

LEMMA TaskIsReleased ==
    ASSUME TaskTypes, NEW w \in Workers, Release(w)
    PROVE  TaskTypes'
  BY DEF TaskTypes, TasksEquipped, Task, Release, IdleTask, WorkerPc, Steps

LEMMA TaskRaises ==
    ASSUME TaskTypes, NEW w \in Workers, wrk[w].pc # "idle",
           NEW exc \in {"definitive", "transient"}, Raise(w, exc)
    PROVE  TaskTypes'
<1> DEFINE t == [wrk[w] EXCEPT !.pc = "failure", !.exc = exc]
<1>1. wrk' = [wrk EXCEPT ![w] = t]
  BY DEF Raise
<1>2. t \in Task /\ t.pc = "failure" /\ t.msg = wrk[w].msg
  BY DEF TaskTypes, Task, WorkerPc
<1> HIDE DEF t
<1> QED
  BY <1>1, <1>2 DEF TaskTypes, TasksEquipped

\* A mark_* method leaves the jobs table typed.
LEMMA JobMarked ==
    ASSUME TypeOK, NEW w \in Workers, wrk[w].pc # "idle", NEW row \in Job,
           MarkJob(w, row)
    PROVE  jobs' \in [JobKey -> JobRow]
<1>1. wrk[w].msg.job \in JobKey
  BY DEF TypeOK, Message
<1> QED
  BY <1>1 DEF TypeOK, MarkJob, JobRow

\* The row a task finds for its message, or none.
LEMMA JobFound ==
    ASSUME TypeOK, NEW w \in Workers, wrk[w].pc # "idle"
    PROVE  JobOf(w) \in Job \cup {NoJob} /\ Target(w) \in Ids
  BY DEF TypeOK, JobOf, Message, JobRow, Target

\* A write of the roadmap of a task.
LEMMA RoadmapWritten ==
    ASSUME TypeOK, NEW id \in Ids, NEW status \in RoadmapStatus
    PROVE  /\ [roadmaps EXCEPT ![id].status = status] \in [Ids -> Roadmap]
           /\ \A steps \in Steps :
                 [roadmaps EXCEPT ![id] =
                     [@ EXCEPT !.status = status, !.steps = steps]]
                   \in [Ids -> Roadmap]
<1>1. roadmaps[id] \in Roadmap
  BY DEF TypeOK
<1>2. /\ [roadmaps[id] EXCEPT !.status = status] \in Roadmap
      /\ \A steps \in Steps :
            [roadmaps[id] EXCEPT !.status = status, !.steps = steps] \in Roadmap
  BY <1>1 DEF Roadmap
<1> QED
  BY <1>1, <1>2 DEF TypeOK

\* The fault budget.
LEMMA FaultCounted ==
    ASSUME TypeOK, interrupts + losses < MaxFaults
    PROVE  interrupts + 1 \in 0 .. MaxFaults /\ losses + 1 \in 0 .. MaxFaults
  BY RoadmapConstants DEF TypeOK

\* Everything a worker does keeps the types.
LEMMA WorkerTypes ==
    ASSUME TypeInv, NEW w \in Workers, WorkerStep(w) \/ Interrupt(w) \/ Crash(w)
    PROVE  TypeInv'
<1>t. TypeOK /\ TaskTypes
  BY DEF TypeInv, TypeOK, TaskTypes
<1> SUFFICES /\ req' = req /\ TaskTypes'
             /\ roadmaps' \in [Ids -> Roadmap] /\ jobs' \in [JobKey -> JobRow]
             /\ queue' \subseteq Message
             /\ interrupts' \in 0 .. MaxFaults /\ losses' \in 0 .. MaxFaults
  BY <1>t DEF TypeInv, TypeOK, TaskTypes, RequestsNumbered
<1>c. {"load", "set_pending", "generate", "mark_completed", "done", "failure",
       "fail_roadmap"} \subseteq WorkerPc \ {"republish", "apply"}
  BY DEF WorkerPc
<1>1. ASSUME NEW m \in queue, Take(w, m)
      PROVE  /\ TaskTypes' /\ queue' \subseteq Message
             /\ UNCHANGED <<roadmaps, jobs, req, interrupts, losses>>
  <2> DEFINE t == [IdleTask EXCEPT !.pc = "start", !.msg = m]
  <2>1. m \in Message
    BY <1>t DEF TypeOK
  <2>2. t \in Task /\ t.pc = "start" /\ t.msg = m
    BY <2>1 DEF Task, IdleTask, WorkerPc, Steps
  <2>3. wrk' = [wrk EXCEPT ![w] = t]
    BY <1>1 DEF Take
  <2>4. TaskTypes'
    <3> HIDE DEF t
    <3> QED
      BY <1>t, <2>1, <2>2, <2>3 DEF TaskTypes, TasksEquipped
  <2> QED
    BY <1>t, <1>1, <2>4 DEF Take, TypeOK
<1>2. CASE MarkRunning(w)
  BY <1>t, <1>c, <1>2, TaskAdvances, JobMarked, JobFound, JobTransitions
     DEF MarkRunning, TypeOK
<1>3. CASE LoadRoadmap(w)
  <2>1. roadmaps[Target(w)].status \in RoadmapStatus \cup {"none"}
    BY <1>t, <1>3, JobFound DEF LoadRoadmap, TypeOK, Roadmap
  <2>2. TaskTypes'
    BY <1>t, <1>3, <2>1 DEF LoadRoadmap, TaskTypes, TasksEquipped, Task, WorkerPc
  <2> QED
    BY <1>t, <1>3, <2>2 DEF LoadRoadmap, TypeOK
<1>4. CASE SetPending(w)
  <2>1. roadmaps' \in [Ids -> Roadmap]
    BY <1>t, <1>4, JobFound, RoadmapWritten DEF SetPending, RoadmapStatus, TypeOK
  <2> QED
    BY <1>t, <1>c, <1>4, <2>1, TaskAdvances DEF SetPending, TypeOK
<1>5. ASSUME NEW provider \in {"primary", "fallback"}, Generate(w, provider)
      PROVE  /\ TaskTypes'
             /\ UNCHANGED <<roadmaps, jobs, queue, req, interrupts, losses>>
  <2> DEFINE t == [wrk[w] EXCEPT !.pc = "apply", !.steps = provider]
  <2>1. wrk' = [wrk EXCEPT ![w] = t]
    BY <1>5 DEF Generate
  <2>2. t \in Task /\ t.pc = "apply" /\ t.msg = wrk[w].msg /\ t.steps = provider
    BY <1>t DEF TaskTypes, Task, WorkerPc, Steps
  <2> HIDE DEF t
  <2>3. TaskTypes'
    BY <1>t, <1>5, <2>1, <2>2 DEF Generate, TaskTypes, TasksEquipped
  <2> QED
    BY <1>5, <2>3 DEF Generate
<1>6. ASSUME NEW exc \in {"definitive", "transient"}, GenerateFails(w, exc)
      PROVE  /\ TaskTypes'
             /\ UNCHANGED <<roadmaps, jobs, queue, req, interrupts, losses>>
  BY <1>t, <1>6, TaskRaises DEF GenerateFails
<1>7. CASE ApplyContract(w)
  <2>1. wrk[w].steps \in Steps
    BY <1>t DEF TaskTypes, Task
  <2>2. roadmaps' \in [Ids -> Roadmap]
    BY <1>t, <1>7, <2>1, JobFound, RoadmapWritten DEF ApplyContract, RoadmapStatus
  <2> QED
    BY <1>t, <1>c, <1>7, <2>2, TaskAdvances DEF ApplyContract, TypeOK
<1>8. CASE MarkCompleted(w)
  BY <1>t, <1>c, <1>8, TaskAdvances, JobMarked, JobFound, JobTransitions
     DEF MarkCompleted, TypeOK
<1>9. CASE Finish(w)
  BY <1>t, <1>9, TaskIsReleased DEF Finish, TypeOK
<1>10. CASE FailJob(w)
  <2>1. jobs' \in [JobKey -> JobRow]
    BY <1>t, <1>10, JobMarked, JobFound, JobTransitions DEF FailJob
  <2>2. TaskTypes'
    <3>1. CASE GivesUp(w)
      BY <1>t, <1>c, <1>10, <3>1, TaskAdvances DEF FailJob
    <3>2. CASE ~GivesUp(w)
      <4>1. wrk[w].msg \in Message /\ wrk[w].msg.retries < MaxRetries
        BY <1>t, <1>10, <3>2, RoadmapConstants
           DEF FailJob, GivesUp, TaskTypes, Message
      <4> QED
        BY <1>t, <1>10, <3>2, <4>1
           DEF FailJob, Advance, TaskTypes, TasksEquipped, Task, WorkerPc
    <3> QED
      BY <3>1, <3>2
  <2> QED
    BY <1>t, <1>10, <2>1, <2>2 DEF FailJob, TypeOK
<1>11. CASE FailRoadmap(w)
  <2>1. roadmaps' \in [Ids -> Roadmap]
    BY <1>t, <1>11, JobFound, RoadmapWritten DEF FailRoadmap, RoadmapStatus
  <2> QED
    BY <1>t, <1>11, <2>1, TaskIsReleased DEF FailRoadmap, TypeOK
<1>12. CASE Republish(w)
  <2>1. [wrk[w].msg EXCEPT !.retries = @ + 1] \in Message
    BY <1>t, <1>12, RoadmapConstants
       DEF Republish, TaskTypes, TasksEquipped, Message
  <2> QED
    BY <1>t, <1>12, <2>1, TaskIsReleased DEF Republish, TypeOK
<1>13. CASE Interrupt(w)
  BY <1>t, <1>13, TaskRaises, FaultCounted DEF Interrupt, TypeOK
<1>14. CASE Crash(w)
  BY <1>t, <1>14, TaskIsReleased, FaultCounted DEF Crash, TypeOK
<1> QED
  BY <1>t, <1>1, <1>2, <1>3, <1>4, <1>5, <1>6, <1>7, <1>8, <1>9, <1>10, <1>11,
     <1>12, <1>13, <1>14 DEF WorkerStep, TypeOK

\* A request moves on with its user, its key and its roadmap.
LEMMA RequestContinues ==
    ASSUME TypeOK, RequestsNumbered, NEW c \in Clients, req[c].pc # "idle",
           req[c].pc # "create", NEW p \in {"insert", "enqueue"}, Continue(c, p)
    PROVE  /\ req' \in [Clients -> Request]
           /\ \A d \in Clients :
                 /\ req'[d].pc \in {"find", "insert", "enqueue"} => req'[d].roadmap \in Ids
                 /\ req'[d].pc \in {"idle", "create"} => req'[d].roadmap = 0
  BY DEF TypeOK, RequestsNumbered, Continue, Request

LEMMA RequestEnds ==
    ASSUME TypeOK, RequestsNumbered, NEW c \in Clients, EndRequest(c)
    PROVE  /\ req' \in [Clients -> Request]
           /\ \A d \in Clients :
                 /\ req'[d].pc \in {"find", "insert", "enqueue"} => req'[d].roadmap \in Ids
                 /\ req'[d].pc \in {"idle", "create"} => req'[d].roadmap = 0
  BY DEF TypeOK, RequestsNumbered, EndRequest, Request, IdleRequest

\* A request that has created its roadmap has the key of a job.
LEMMA RequestHasJob ==
    ASSUME TypeOK, NEW c \in Clients, req[c].pc \in {"find", "insert", "enqueue"}
    PROVE  RequestJob(c) \in JobKey /\ req[c].roadmap \in Ids
  BY DEF TypeOK, RequestJob, Request, JobKey

\* The row of a new roadmap.
NewRoadmap(c) == [status |-> "pending", steps |-> "none",
                  user |-> req[c].user, key |-> req[c].key]

\* Everything a request does, and its end, keeps the types.
LEMMA RequestTypes ==
    ASSUME TypeInv, NEW c \in Clients,
           \/ \E u \in Users, k \in Keys \cup {NoKey} : Post(c, u, k)
           \/ RequestStep(c)
           \/ RequestDies(c)
    PROVE  TypeInv'
<1>t. TypeOK /\ RequestsNumbered /\ TasksEquipped
  BY DEF TypeInv
<1> SUFFICES /\ wrk' = wrk
             /\ req' \in [Clients -> Request]
             /\ \A d \in Clients :
                   /\ req'[d].pc \in {"find", "insert", "enqueue"} => req'[d].roadmap \in Ids
                   /\ req'[d].pc \in {"idle", "create"} => req'[d].roadmap = 0
             /\ roadmaps' \in [Ids -> Roadmap] /\ jobs' \in [JobKey -> JobRow]
             /\ queue' \subseteq Message
             /\ interrupts' \in 0 .. MaxFaults /\ losses' \in 0 .. MaxFaults
  BY <1>t DEF TypeInv, TypeOK, TasksEquipped, RequestsNumbered
<1>1. ASSUME NEW u \in Users, NEW k \in Keys \cup {NoKey}, Post(c, u, k)
      PROVE  /\ UNCHANGED <<roadmaps, jobs, queue, wrk, interrupts, losses>>
             /\ req' \in [Clients -> Request]
             /\ \A d \in Clients :
                   /\ req'[d].pc \in {"find", "insert", "enqueue"} => req'[d].roadmap \in Ids
                   /\ req'[d].pc \in {"idle", "create"} => req'[d].roadmap = 0
  <2> DEFINE r == [IdleRequest EXCEPT !.pc = "create", !.user = u, !.key = k]
  <2>1. r \in Request /\ r.pc = "create" /\ r.roadmap = 0
    BY DEF Request, IdleRequest
  <2>2. req' = [req EXCEPT ![c] = r]
    BY <1>1 DEF Post
  <2> HIDE DEF r
  <2> QED
    BY <1>t, <1>1, <2>1, <2>2 DEF Post, TypeOK, RequestsNumbered
<1>2. CASE CreateRoadmap(c)
  <2> DEFINE id == Cardinality(Created) + 1
             r == [req[c] EXCEPT !.pc = "find", !.roadmap = id]
  <2>1. id \in Ids
    BY <1>2 DEF CreateRoadmap
  <2>2. r \in Request /\ r.pc = "find" /\ r.roadmap = id
    BY <1>t, <2>1 DEF TypeOK, Request
  <2>3. NewRoadmap(c) \in Roadmap
    BY <1>t DEF TypeOK, Request, Roadmap, RoadmapStatus, Steps, NewRoadmap
  <2>4. req' = [req EXCEPT ![c] = r]
    BY <1>2 DEF CreateRoadmap
  <2>5. roadmaps' = [roadmaps EXCEPT ![id] = NewRoadmap(c)]
    BY <1>2 DEF CreateRoadmap, NewRoadmap
  <2> HIDE DEF id, r
  <2>6. roadmaps' \in [Ids -> Roadmap]
    BY <1>t, <2>1, <2>3, <2>5 DEF TypeOK
  <2>7. /\ req' \in [Clients -> Request]
        /\ \A d \in Clients :
              /\ req'[d].pc \in {"find", "insert", "enqueue"} => req'[d].roadmap \in Ids
              /\ req'[d].pc \in {"idle", "create"} => req'[d].roadmap = 0
    BY <1>t, <2>1, <2>2, <2>4 DEF TypeOK, RequestsNumbered
  <2> QED
    BY <1>t, <1>2, <2>6, <2>7 DEF CreateRoadmap, TypeOK
<1>3. CASE FindJob(c)
  BY <1>t, <1>3, RequestContinues DEF FindJob, TypeOK
<1>4. CASE InsertJob(c)
  <2>1. RequestJob(c) \in JobKey /\ req[c].roadmap \in Ids
    BY <1>t, <1>4, RequestHasJob DEF InsertJob
  <2>2. jobs' \in [JobKey -> JobRow]
    <3>1. [row |-> NewJob, roadmap |-> req[c].roadmap] \in JobRow
      BY <2>1, JobTransitions DEF JobRow
    <3> QED
      BY <1>t, <1>4, <2>1, <3>1 DEF InsertJob, TypeOK
  <2> QED
    BY <1>t, <1>4, <2>2, RequestContinues, RequestEnds DEF InsertJob, TypeOK
<1>5. CASE Enqueue(c)
  <2>1. [roadmap |-> req[c].roadmap, job |-> RequestJob(c), retries |-> 0] \in Message
    BY <1>t, <1>5, RequestHasJob, RoadmapConstants DEF Enqueue, Message
  <2> QED
    BY <1>t, <1>5, <2>1, RequestEnds DEF Enqueue, TypeOK
<1>6. CASE RequestDies(c)
  BY <1>t, <1>6, RequestEnds, FaultCounted DEF RequestDies, TypeOK
<1> QED
  BY <1>1, <1>2, <1>3, <1>4, <1>5, <1>6, <1>t DEF RequestStep, TypeOK

-----------------------------------------------------------------------------
\* Who owns a roadmap when the types hold.
LEMMA Owners ==
    ASSUME TypeInv
    PROVE  /\ \A c \in Clients : req[c].roadmap \in Ids \cup {0}
           /\ \A w \in Workers : /\ Taken(w) \in Ids \cup {0}
                                 /\ wrk[w].pc = "idle" <=> Taken(w) = 0
                                 /\ wrk[w].pc # "idle" => Taken(w) = Target(w)
           /\ \A m \in queue : m \in Message /\ m.roadmap \in Ids
           /\ 0 \notin Ids
  BY RoadmapConstants DEF TypeInv, TypeOK, Request, Message, Taken, Target

(***************************************************************************)
(* A task goes on and writes at most its own roadmap.                      *)
(***************************************************************************)
LEMMA TaskKeepsInv ==
    ASSUME Inv, TypeInv', NEW w \in Workers, UNCHANGED <<req, queue>>,
           wrk[w].pc # "idle", wrk'[w].pc # "idle", wrk'[w].msg = wrk[w].msg,
           \A v \in Workers \ {w} : wrk'[v] = wrk[v],
           \A id \in Ids \ {Target(w)} : roadmaps'[id] = roadmaps[id],
           TaskPhase(w)'
    PROVE  Inv'
<1>o. /\ TypeInv /\ KeysInOrder /\ OneOwner /\ Phases /\ RowsWhole
  BY DEF Inv
<1>1. Target(w)' = Target(w) /\ Target(w) \in Ids /\ TaskPhase(w)
  BY <1>o, Owners DEF Target, Phases
<1>2. \A v \in Workers : Taken(v)' = Taken(v)
  BY <1>1 DEF Taken, Target
<1>3. OneOwner'
  BY <1>o, <1>2 DEF OneOwner
<1>4. Phases'
  <2>1. ASSUME NEW c \in Clients, req[c].roadmap # 0
        PROVE  roadmaps'[req[c].roadmap] = roadmaps[req[c].roadmap]
    BY <1>o, <1>1, <2>1, Owners DEF OneOwner
  <2>2. ASSUME NEW m \in queue
        PROVE  roadmaps'[m.roadmap] = roadmaps[m.roadmap]
    BY <1>o, <1>1, Owners DEF OneOwner
  <2>3. ASSUME NEW v \in Workers \ {w}, wrk[v].pc # "idle"
        PROVE  TaskPhase(v)'
    <3>1. roadmaps'[Target(v)] = roadmaps[Target(v)]
      BY <1>o, <1>1, <2>3, Owners DEF OneOwner
    <3> QED
      BY <1>o, <2>3, <3>1 DEF Phases, TaskPhase, Target
  <2> QED
    BY <1>o, <2>1, <2>2, <2>3 DEF Phases
<1>5. KeysInOrder'
  <2>1. Created' = Created
    BY <1>1 DEF Created, TaskPhase, Fresh, Delivered
  <2> QED
    BY <1>o, <2>1 DEF KeysInOrder
<1>6. RowsWhole'
  BY <1>o, <1>1 DEF RowsWhole, CompletedHasContract, TaskPhase, Fresh, Delivered
<1> QED
  BY <1>3, <1>4, <1>5, <1>6 DEF Inv

(***************************************************************************)
(* A task ends: it leaves its roadmap alone, failed, or to a message.      *)
(***************************************************************************)
LEMMA ReleaseKeepsInv ==
    ASSUME Inv, TypeInv', NEW w \in Workers, UNCHANGED req,
           wrk[w].pc # "idle", wrk'[w].pc = "idle",
           \A v \in Workers \ {w} : wrk'[v] = wrk[v],
           \A id \in Ids \ {Target(w)} : roadmaps'[id] = roadmaps[id],
           \/ /\ roadmaps' = roadmaps
              /\ \E m : m.roadmap = Target(w) /\ queue' = queue \cup {m}
           \/ /\ queue' = queue
              /\ \/ roadmaps' = roadmaps
                 \/ roadmaps'[Target(w)].status = "failed"
    PROVE  Inv'
<1>o. /\ TypeInv /\ KeysInOrder /\ OneOwner /\ Phases /\ RowsWhole
  BY DEF Inv
<1>1. Target(w) \in Ids /\ TaskPhase(w) /\ Taken(w) = Target(w)
  BY <1>o, Owners DEF Phases
<1>2. Taken(w)' = 0 /\ \A v \in Workers \ {w} : Taken(v)' = Taken(v)
  BY DEF Taken, Target
<1>3. \A m \in queue' \ queue : m.roadmap = Target(w) /\ roadmaps' = roadmaps
  OBVIOUS
<1>4. \A m, n \in queue' \ queue : m = n
  OBVIOUS
<1>5. OneOwner'
  <2>1. \A m, n \in queue' : m # n => m.roadmap # n.roadmap
    BY <1>o, <1>1, <1>3, <1>4 DEF OneOwner
  <2>2. \A v \in Workers, m \in queue' : Taken(v)' # m.roadmap
    BY <1>o, <1>1, <1>2, <1>3, Owners DEF OneOwner
  <2>3. \A c \in Clients, m \in queue' : req[c].roadmap # m.roadmap
    BY <1>o, <1>1, <1>3, Owners DEF OneOwner
  <2>4. /\ \A c \in Clients, v \in Workers :
              req[c].roadmap # 0 => req[c].roadmap # Taken(v)'
        /\ \A u, v \in Workers : u # v /\ Taken(u)' # 0 => Taken(u)' # Taken(v)'
    BY <1>o, <1>2 DEF OneOwner
  <2> QED
    BY <1>o, <2>1, <2>2, <2>3, <2>4 DEF OneOwner
<1>6. Phases'
  <2>1. ASSUME NEW c \in Clients, req[c].roadmap # 0
        PROVE  roadmaps'[req[c].roadmap] = roadmaps[req[c].roadmap]
    BY <1>o, <1>1, <2>1, Owners DEF OneOwner
  <2>2. ASSUME NEW m \in queue'
        PROVE  Fresh(roadmaps'[m.roadmap]) \/ Delivered(roadmaps'[m.roadmap])
    <3>1. CASE m \in queue
      <4>1. roadmaps'[m.roadmap] = roadmaps[m.roadmap]
        BY <1>o, <1>1, <3>1, Owners DEF OneOwner
      <4> QED
        BY <1>o, <3>1, <4>1 DEF Phases
    <3>2. CASE m \notin queue
      BY <1>1, <1>3, <2>2, <3>2 DEF TaskPhase
    <3> QED
      BY <3>1, <3>2
  <2>3. ASSUME NEW v \in Workers \ {w}, wrk[v].pc # "idle"
        PROVE  TaskPhase(v)'
    <3>1. roadmaps'[Target(v)] = roadmaps[Target(v)]
      BY <1>o, <1>1, <2>3, Owners DEF OneOwner
    <3> QED
      BY <1>o, <2>3, <3>1 DEF Phases, TaskPhase, Target
  <2> QED
    BY <1>o, <2>1, <2>2, <2>3 DEF Phases
<1>7. KeysInOrder'
  <2>1. Created' = Created
    BY <1>1 DEF Created, TaskPhase, Fresh, Delivered
  <2> QED
    BY <1>o, <2>1 DEF KeysInOrder
<1>8. RowsWhole'
  BY <1>o, <1>1 DEF RowsWhole, CompletedHasContract, TaskPhase, Fresh, Delivered
<1> QED
  BY <1>5, <1>6, <1>7, <1>8 DEF Inv

(***************************************************************************)
(* A worker takes a message, and the roadmap with it.                      *)
(***************************************************************************)
LEMMA TakeKeepsInv ==
    ASSUME Inv, TypeInv', NEW w \in Workers, NEW m \in queue, Take(w, m)
    PROVE  Inv'
<1>o. /\ TypeInv /\ KeysInOrder /\ OneOwner /\ Phases /\ RowsWhole
  BY DEF Inv
<1>1. /\ wrk \in [Workers -> Task] /\ wrk[w].pc = "idle" /\ m \in Message
      /\ queue' = queue \ {m} /\ UNCHANGED <<roadmaps, req>>
      /\ wrk' = [wrk EXCEPT ![w] = [IdleTask EXCEPT !.pc = "start", !.msg = m]]
  BY <1>o, Owners DEF Take, TypeInv, TypeOK
<1>2. /\ wrk'[w].pc = "start" /\ wrk'[w].msg = m
      /\ \A v \in Workers \ {w} : wrk'[v] = wrk[v]
  BY <1>1 DEF IdleTask
<1>3. Taken(w)' = m.roadmap /\ \A v \in Workers \ {w} : Taken(v)' = Taken(v)
  BY <1>2 DEF Taken, Target
<1>4. OneOwner'
  BY <1>o, <1>1, <1>3, Owners DEF OneOwner
<1>5. Phases'
  <2>1. TaskPhase(w)'
    BY <1>o, <1>1, <1>2 DEF Phases, TaskPhase, Target
  <2>2. \A v \in Workers \ {w} : wrk[v].pc # "idle" => TaskPhase(v)'
    BY <1>o, <1>1, <1>2 DEF Phases, TaskPhase, Target
  <2> QED
    BY <1>o, <1>1, <1>2, <2>1, <2>2 DEF Phases
<1> QED
  BY <1>o, <1>1, <1>4, <1>5
     DEF Inv, KeysInOrder, Created, RowsWhole, CompletedHasContract

(***************************************************************************)
(* A request goes on with its roadmap, gives it up, or leaves it to the    *)
(* message it publishes.                                                   *)
(***************************************************************************)
LEMMA RequestKeepsInv ==
    ASSUME Inv, TypeInv', NEW c \in Clients, UNCHANGED <<roadmaps, wrk>>,
           \A d \in Clients \ {c} : req'[d] = req[d],
           \/ queue' = queue /\ req'[c].roadmap \in {0, req[c].roadmap}
           \/ /\ req[c].roadmap # 0 /\ req'[c].roadmap = 0
              /\ \E m : m.roadmap = req[c].roadmap /\ queue' = queue \cup {m}
    PROVE  Inv'
<1>o. /\ TypeInv /\ KeysInOrder /\ OneOwner /\ Phases /\ RowsWhole
  BY DEF Inv
<1>1. \A v \in Workers : Taken(v)' = Taken(v)
  BY DEF Taken, Target
<1>2. \A m \in queue' \ queue :
         m.roadmap = req[c].roadmap /\ req[c].roadmap # 0 /\ req'[c].roadmap = 0
  OBVIOUS
<1>3. \A m, n \in queue' \ queue : m = n
  OBVIOUS
<1>4. \A d \in Clients : req'[d].roadmap # 0 => req'[d].roadmap = req[d].roadmap
  OBVIOUS
<1>5. OneOwner'
  <2>1. \A m, n \in queue' : m # n => m.roadmap # n.roadmap
    BY <1>o, <1>2, <1>3 DEF OneOwner
  <2>2. \A v \in Workers, m \in queue' : Taken(v) # m.roadmap
    BY <1>o, <1>2 DEF OneOwner
  <2>3. \A d \in Clients, m \in queue' : req'[d].roadmap # m.roadmap
    BY <1>o, <1>2, <1>4, Owners DEF OneOwner
  <2>4. /\ \A d, e \in Clients : d # e /\ req'[d].roadmap # 0 =>
              req'[d].roadmap # req'[e].roadmap
        /\ \A d \in Clients, v \in Workers :
              req'[d].roadmap # 0 => req'[d].roadmap # Taken(v)
    BY <1>o, <1>4 DEF OneOwner
  <2> QED
    BY <1>o, <1>1, <2>1, <2>2, <2>3, <2>4 DEF OneOwner
<1>6. Phases'
  <2>1. \A m \in queue' : Fresh(roadmaps[m.roadmap]) \/ Delivered(roadmaps[m.roadmap])
    BY <1>o, <1>2 DEF Phases
  <2>2. \A d \in Clients : req'[d].roadmap # 0 => Fresh(roadmaps[req'[d].roadmap])
    BY <1>o, <1>4 DEF Phases
  <2> QED
    BY <1>o, <2>1, <2>2 DEF Phases, TaskPhase, Target
<1> QED
  BY <1>o, <1>5, <1>6
     DEF Inv, KeysInOrder, Created, RowsWhole, CompletedHasContract

\* The id a request takes is the first one that is free.
LEMMA NextKeyIsFree ==
    ASSUME TypeInv, KeysInOrder, Cardinality(Created) + 1 \in Ids
    PROVE  LET id == Cardinality(Created) + 1
           IN  id \notin Created /\ Created \cup {id} = 1 .. id
<1>1. PICK n \in 0 .. MaxRoadmaps : Created = 1 .. n
  BY DEF KeysInOrder
<1>2. Cardinality(Created) = n
  BY <1>1, RoadmapConstants, FS_Interval
<1> QED
  BY <1>1, <1>2, RoadmapConstants DEF Ids

(***************************************************************************)
(* A request creates a roadmap that nobody knows yet.                      *)
(***************************************************************************)
LEMMA CreateKeepsInv ==
    ASSUME Inv, TypeInv', NEW c \in Clients, CreateRoadmap(c)
    PROVE  Inv'
<1> DEFINE id == Cardinality(Created) + 1
<1>o. /\ TypeInv /\ KeysInOrder /\ OneOwner /\ Phases /\ RowsWhole
  BY DEF Inv
<1>1. /\ id \in Ids /\ UNCHANGED <<queue, wrk>>
      /\ req \in [Clients -> Request] /\ roadmaps \in [Ids -> Roadmap]
      /\ roadmaps' = [roadmaps EXCEPT ![id] = NewRoadmap(c)]
      /\ req' = [req EXCEPT ![c].pc = "find", ![c].roadmap = id]
  BY <1>o DEF CreateRoadmap, NewRoadmap, TypeInv, TypeOK
<1>2. id \notin Created /\ Created \cup {id} = 1 .. id
  BY <1>o, <1>1, NextKeyIsFree
<1> HIDE DEF id
<1>3. /\ Fresh(roadmaps'[id])
      /\ \A i \in Ids \ {id} : roadmaps'[i] = roadmaps[i]
  BY <1>1 DEF NewRoadmap, Fresh
<1>4. /\ req'[c].roadmap = id
      /\ \A d \in Clients \ {c} : req'[d] = req[d]
  BY <1>1 DEF Request
<1>5. ~Fresh(roadmaps[id]) /\ ~Delivered(roadmaps[id])
  BY <1>1, <1>2 DEF Created, Fresh, Delivered
<1>6. /\ \A d \in Clients : req[d].roadmap # id
      /\ \A w \in Workers : Taken(w) # id
      /\ \A m \in queue : m.roadmap # id
  BY <1>o, <1>1, <1>5, Owners DEF Phases, TaskPhase
<1>7. \A w \in Workers : Taken(w)' = Taken(w)
  BY <1>1 DEF Taken, Target
<1>8. OneOwner'
  BY <1>o, <1>1, <1>4, <1>6, <1>7 DEF OneOwner
<1>9. Phases'
  <2>1. \A d \in Clients : req'[d].roadmap # 0 => Fresh(roadmaps'[req'[d].roadmap])
    BY <1>o, <1>3, <1>4, <1>6, Owners DEF Phases
  <2>2. \A m \in queue : Fresh(roadmaps'[m.roadmap]) \/ Delivered(roadmaps'[m.roadmap])
    BY <1>o, <1>3, <1>6, Owners DEF Phases
  <2>3. ASSUME NEW w \in Workers, wrk[w].pc # "idle"
        PROVE  TaskPhase(w)'
    <3>1. roadmaps'[Target(w)] = roadmaps[Target(w)]
      BY <1>o, <1>3, <1>6, <2>3, Owners
    <3> QED
      BY <1>o, <1>1, <2>3, <3>1 DEF Phases, TaskPhase, Target
  <2> QED
    BY <1>1, <2>1, <2>2, <2>3 DEF Phases
<1>10. KeysInOrder'
  <2>1. Created' = Created \cup {id}
    BY <1>1, <1>3 DEF Created, Fresh
  <2> QED
    BY <1>1, <1>2, <2>1 DEF KeysInOrder, Ids
<1>11. RowsWhole'
  BY <1>o, <1>1, <1>3 DEF RowsWhole, CompletedHasContract, Fresh
<1> QED
  BY <1>8, <1>9, <1>10, <1>11 DEF Inv

-----------------------------------------------------------------------------
\* Everything a request does, and its end, keeps the invariant.
LEMMA RequestStepKeepsInv ==
    ASSUME Inv, NEW c \in Clients,
           \/ \E u \in Users, k \in Keys \cup {NoKey} : Post(c, u, k)
           \/ RequestStep(c)
           \/ RequestDies(c)
    PROVE  Inv'
<1>o. TypeInv /\ req \in [Clients -> Request] /\ TypeInv'
  BY RequestTypes DEF Inv, TypeInv, TypeOK
<1>1. ASSUME NEW u \in Users, NEW k \in Keys \cup {NoKey}, Post(c, u, k)
      PROVE  Inv'
  <2>1. req'[c].roadmap = 0 /\ \A d \in Clients \ {c} : req'[d] = req[d]
    BY <1>o, <1>1 DEF Post, IdleRequest
  <2> QED
    BY <1>o, <1>1, <2>1, RequestKeepsInv DEF Post
<1>2. CASE CreateRoadmap(c)
  BY <1>o, <1>2, CreateKeepsInv
<1>a. ASSUME NEW p, Continue(c, p)
      PROVE  /\ req'[c].roadmap = req[c].roadmap
             /\ \A d \in Clients \ {c} : req'[d] = req[d]
  BY <1>o, <1>a DEF Continue, Request
<1>b. ASSUME EndRequest(c)
      PROVE  /\ req'[c].roadmap = 0
             /\ \A d \in Clients \ {c} : req'[d] = req[d]
  BY <1>o, <1>b DEF EndRequest, IdleRequest
<1>3. CASE FindJob(c)
  BY <1>o, <1>a, <1>3, RequestKeepsInv DEF FindJob
<1>4. CASE InsertJob(c)
  BY <1>o, <1>a, <1>b, <1>4, RequestKeepsInv DEF InsertJob
<1>5. CASE Enqueue(c)
  <2> DEFINE m == [roadmap |-> req[c].roadmap, job |-> RequestJob(c), retries |-> 0]
  <2>1. queue' = queue \cup {m} /\ m.roadmap = req[c].roadmap
    BY <1>5 DEF Enqueue
  <2>2. req[c].roadmap # 0
    BY <1>o, <1>5, RoadmapConstants DEF Enqueue, TypeInv, TypeOK
  <2> HIDE DEF m
  <2> QED
    BY <1>o, <1>b, <1>5, <2>1, <2>2, RequestKeepsInv DEF Enqueue
<1>6. CASE RequestDies(c)
  BY <1>o, <1>b, <1>6, RequestKeepsInv DEF RequestDies
<1> QED
  BY <1>1, <1>2, <1>3, <1>4, <1>5, <1>6 DEF RequestStep

\* Everything a worker does keeps the invariant.
LEMMA WorkerStepKeepsInv ==
    ASSUME Inv, NEW w \in Workers, WorkerStep(w) \/ Interrupt(w) \/ Crash(w)
    PROVE  Inv'
<1>o. TypeInv /\ wrk \in [Workers -> Task] /\ TypeInv'
  BY WorkerTypes DEF Inv, TypeInv, TypeOK
<1>r. ASSUME wrk[w].pc # "idle"
      PROVE  /\ TaskPhase(w) /\ Target(w) \in Ids /\ roadmaps \in [Ids -> Roadmap]
             /\ wrk[w].msg \in Message
  BY <1>o, <1>r, Owners DEF Inv, Phases, TypeInv, TypeOK
\* The task goes on with its message.
<1>a. ASSUME NEW p \in WorkerPc \ {"idle"}, Advance(w, p)
      PROVE  /\ wrk'[w].pc = p /\ wrk'[w].pc # "idle" /\ wrk'[w].msg = wrk[w].msg
             /\ wrk'[w].status = wrk[w].status /\ Target(w)' = Target(w)
             /\ \A v \in Workers \ {w} : wrk'[v] = wrk[v]
  BY <1>o, <1>a DEF Advance, Task, Target
<1>b. ASSUME Release(w)
      PROVE  /\ wrk'[w].pc = "idle"
             /\ \A v \in Workers \ {w} : wrk'[v] = wrk[v]
  BY <1>o, <1>b DEF Release, IdleTask
<1>e. ASSUME NEW exc, Raise(w, exc), wrk[w].pc # "idle",
             UNCHANGED <<roadmaps, queue, req>>
      PROVE  Inv'
  <2>1. /\ wrk'[w].pc = "failure" /\ wrk'[w].msg = wrk[w].msg
        /\ Target(w)' = Target(w)
        /\ \A v \in Workers \ {w} : wrk'[v] = wrk[v]
    BY <1>o, <1>e DEF Raise, Task, Target
  <2>2. TaskPhase(w)'
    BY <1>e, <1>r, <2>1 DEF TaskPhase
  <2> QED
    BY <1>o, <1>e, <2>1, <2>2, TaskKeepsInv
\* The task goes on and leaves the roadmap alone.
<1>f. ASSUME NEW p \in {"load", "generate", "done", "fail_roadmap", "republish"},
             Advance(w, p), wrk[w].pc # "idle", UNCHANGED <<roadmaps, queue, req>>,
             p = "generate" => Fresh(roadmaps[Target(w)]),
             p = "done" => Delivered(roadmaps[Target(w)])
      PROVE  Inv'
  <2>1. p \in WorkerPc \ {"idle"}
    BY DEF WorkerPc
  <2>2. TaskPhase(w)'
    BY <1>a, <1>f, <1>r, <2>1 DEF TaskPhase
  <2> QED
    BY <1>a, <1>o, <1>f, <2>1, <2>2, TaskKeepsInv
<1>1. ASSUME NEW m \in queue, Take(w, m)
      PROVE  Inv'
  BY <1>o, <1>1, TakeKeepsInv
<1>2. CASE MarkRunning(w)
  BY <1>2, <1>f DEF MarkRunning
<1>3. CASE LoadRoadmap(w)
  <2>1. /\ wrk[w].pc # "idle" /\ UNCHANGED <<roadmaps, queue, req>>
        /\ wrk'[w].pc \in {"mark_completed", "set_pending"}
        /\ wrk'[w].status = roadmaps[Target(w)].status
        /\ wrk'[w].pc = "mark_completed" <=> Delivered(roadmaps[Target(w)])
        /\ wrk'[w].msg = wrk[w].msg /\ Target(w)' = Target(w)
        /\ \A v \in Workers \ {w} : wrk'[v] = wrk[v]
    BY <1>o, <1>3 DEF LoadRoadmap, Task, Target, Delivered
  <2>2. TaskPhase(w)'
    BY <1>r, <2>1 DEF TaskPhase, Fresh
  <2> QED
    BY <1>o, <2>1, <2>2, TaskKeepsInv
<1>4. CASE SetPending(w)
  <2>1. UNCHANGED roadmaps /\ Fresh(roadmaps[Target(w)])
    BY <1>r, <1>4 DEF SetPending, TaskPhase
  <2> QED
    BY <1>4, <1>f, <2>1 DEF SetPending
<1>5. ASSUME NEW provider \in {"primary", "fallback"}, Generate(w, provider)
      PROVE  Inv'
  <2>1. /\ wrk[w].pc = "generate" /\ UNCHANGED <<roadmaps, queue, req>>
        /\ wrk'[w].pc = "apply" /\ wrk'[w].msg = wrk[w].msg
        /\ Target(w)' = Target(w)
        /\ \A v \in Workers \ {w} : wrk'[v] = wrk[v]
    BY <1>o, <1>5 DEF Generate, Task, Target
  <2>2. TaskPhase(w)'
    BY <1>r, <2>1 DEF TaskPhase
  <2> QED
    BY <1>o, <2>1, <2>2, TaskKeepsInv
<1>6. ASSUME NEW exc \in {"definitive", "transient"}, GenerateFails(w, exc)
      PROVE  Inv'
  BY <1>6, <1>e DEF GenerateFails
<1>7. CASE ApplyContract(w)
  <2>1. wrk[w].pc = "apply" /\ wrk[w].steps # "none"
    BY <1>o, <1>7 DEF ApplyContract, TypeInv, TasksEquipped
  <2>2. /\ Delivered(roadmaps'[Target(w)])
        /\ \A id \in Ids \ {Target(w)} : roadmaps'[id] = roadmaps[id]
    BY <1>r, <1>7, <2>1 DEF ApplyContract, Delivered, Roadmap
  <2>3. "mark_completed" \in WorkerPc \ {"idle"}
    BY DEF WorkerPc
  <2>4. TaskPhase(w)'
    BY <1>a, <1>7, <2>2, <2>3 DEF ApplyContract, TaskPhase
  <2> QED
    BY <1>a, <1>o, <1>7, <2>1, <2>2, <2>3, <2>4, TaskKeepsInv DEF ApplyContract
<1>8. CASE MarkCompleted(w)
  <2>1. Delivered(roadmaps[Target(w)])
    BY <1>r, <1>8 DEF MarkCompleted, TaskPhase
  <2> QED
    BY <1>8, <1>f, <2>1 DEF MarkCompleted
<1>9. CASE Finish(w)
  BY <1>b, <1>o, <1>9, ReleaseKeepsInv DEF Finish
<1>10. CASE FailJob(w)
  BY <1>10, <1>f DEF FailJob
<1>11. CASE FailRoadmap(w)
  <2>1. /\ roadmaps'[Target(w)].status = "failed"
        /\ \A id \in Ids \ {Target(w)} : roadmaps'[id] = roadmaps[id]
    BY <1>r, <1>11 DEF FailRoadmap, Roadmap
  <2> QED
    BY <1>b, <1>o, <1>11, <2>1, ReleaseKeepsInv DEF FailRoadmap
<1>12. CASE Republish(w)
  <2> DEFINE m == [wrk[w].msg EXCEPT !.retries = @ + 1]
  <2>1. m.roadmap = Target(w)
    BY <1>r, <1>12 DEF Republish, Message, Target
  <2>2. queue' = queue \cup {m}
    BY <1>12 DEF Republish
  <2> HIDE DEF m
  <2> QED
    BY <1>b, <1>o, <1>12, <2>1, <2>2, ReleaseKeepsInv DEF Republish
<1>13. CASE Interrupt(w)
  BY <1>13, <1>e DEF Interrupt
<1>14. CASE Crash(w)
  BY <1>b, <1>o, <1>14, ReleaseKeepsInv DEF Crash
<1> QED
  BY <1>1, <1>2, <1>3, <1>4, <1>5, <1>6, <1>7, <1>8, <1>9, <1>10, <1>11, <1>12,
     <1>13, <1>14 DEF WorkerStep

LEMMA InvInductive == Inv /\ [Next]_vars => Inv'
<1> SUFFICES ASSUME Inv, [Next]_vars
             PROVE  Inv'
  OBVIOUS
<1>1. CASE Next
  BY <1>1, RequestStepKeepsInv, WorkerStepKeepsInv DEF Next
<1>2. CASE UNCHANGED vars
  BY <1>2 DEF vars, Inv, TypeInv, TypeOK, RequestsNumbered, TasksEquipped,
     KeysInOrder, Created, OneOwner, Taken, Target, Phases, TaskPhase, RowsWhole,
     CompletedHasContract
<1> QED
  BY <1>1, <1>2

LEMMA Invariant == Spec => []Inv
  BY InitialInv, InvInductive, PTL DEF Spec

-----------------------------------------------------------------------------
(***************************************************************************)
(* The tables, the queue, the requests and the tasks keep their types; no  *)
(* message carries more than roadmap_task_max_retries retries.             *)
(***************************************************************************)
THEOREM RoadmapTypesCorrect == Spec => []TypeOK
  BY Invariant, PTL DEF Inv, TypeInv

(***************************************************************************)
(* No two requests, messages or workers ever work on one roadmap: there is *)
(* no lock in the code, the queue alone sees to it.                        *)
(***************************************************************************)
THEOREM RoadmapHasOneOwner == Spec => []OneOwner
  BY Invariant, PTL DEF Inv

(***************************************************************************)
(* get_roadmap_detail finds the steps of every completed roadmap, whatever *)
(* interrupts, retries or kills the tasks.                                 *)
(***************************************************************************)
THEOREM CompletedIsBacked == Spec => []CompletedHasContract
  BY Invariant, PTL DEF Inv, RowsWhole

-----------------------------------------------------------------------------
(***************************************************************************)
(* The job of a roadmap.  The key of the job a roadmap was requested with: *)
(* its own when the client sent none.                                      *)
(***************************************************************************)
KeyOf(i) == IF roadmaps[i].key = NoKey THEN i ELSE roadmaps[i].key

\* A message, a task or a request that is about to publish names i and k.
Claim(i, k) ==
    \/ \E m \in queue : m.roadmap = i /\ m.job = k
    \/ \E w \in Workers :
          wrk[w].pc # "idle" /\ Target(w) = i /\ wrk[w].msg.job = k
    \/ \E c \in Clients :
          req[c].pc = "enqueue" /\ req[c].roadmap = i /\ RequestJob(c) = k

(***************************************************************************)
(* Whatever names a roadmap together with a job names the job of its key,  *)
(* and that job is there.  A roadmap is in no job row as long as its own   *)
(* request has not inserted one.                                           *)
(***************************************************************************)
JobsNamed ==
    /\ \A k \in JobKey : jobs[k].row # NoJob =>
          jobs[k].roadmap \in Created /\ KeyOf(jobs[k].roadmap) = k
    /\ \A i \in Ids, k \in JobKey : Claim(i, k) =>
          jobs[k].row # NoJob /\ i \in Created /\ KeyOf(i) = k
    /\ \A c \in Clients : req[c].pc \in {"find", "insert", "enqueue"} =>
          req[c].roadmap \in Created /\ KeyOf(req[c].roadmap) = RequestJob(c)
    /\ \A c \in Clients : req[c].pc \in {"find", "insert"} =>
          \A k \in JobKey :
              jobs[k].row # NoJob => jobs[k].roadmap # req[c].roadmap

\* No other roadmap was requested with the key of i.
Alone(i) == \A j \in Created : KeyOf(j) = KeyOf(i) => j = i

(***************************************************************************)
(* The job of a roadmap that shares its key with no other is completed     *)
(* after the roadmap and in dead letter before it: between the two commits *)
(* of a failure the task is at fail_roadmap.                               *)
(***************************************************************************)
Follows(row, r) ==
    /\ row.status = "completed" => r.status = "completed"
    /\ r.status = "failed" => row.status = "dead_letter"

JobsFollow ==
    /\ \A i \in Created :
          Alone(i) /\ jobs[KeyOf(i)].row # NoJob =>
              Follows(jobs[KeyOf(i)].row, roadmaps[i])
    /\ \A w \in Workers :
          wrk[w].pc = "fail_roadmap" /\ Alone(Target(w)) =>
              jobs[wrk[w].msg.job].row.status = "dead_letter"

JobInv == Inv /\ JobsNamed /\ JobsFollow /\ PendingHasCarrier

\* The tables a task may write, and what becomes of its message.
TaskEffect(w) ==
    /\ req' = req
    /\ \A v \in Workers \ {w} : wrk'[v] = wrk[v]
    /\ \A k \in JobKey : jobs'[k] # jobs[k] =>
          /\ wrk[w].pc # "idle" /\ k = wrk[w].msg.job
          /\ jobs'[k].roadmap = jobs[k].roadmap /\ jobs'[k].row # NoJob
    /\ \A i \in Ids : roadmaps'[i] # roadmaps[i] =>
          /\ wrk[w].pc # "idle" /\ i = Target(w)
          /\ roadmaps'[i].key = roadmaps[i].key
          /\ roadmaps'[i].status \in {"completed", "failed"}
    /\ \/ /\ wrk[w].pc # "idle" /\ wrk'[w].pc # "idle"
          /\ wrk'[w].msg = wrk[w].msg /\ queue' = queue
       \/ /\ wrk[w].pc = "idle" /\ wrk'[w].pc # "idle"
          /\ wrk'[w].msg \in queue /\ queue' = queue \ {wrk'[w].msg}
       \/ /\ wrk[w].pc # "idle" /\ wrk'[w].pc = "idle" /\ queue' = queue
          /\ losses' = 0 => roadmaps'[Target(w)].status # "pending"
       \/ /\ wrk[w].pc # "idle" /\ wrk'[w].pc = "idle"
          /\ \E m : /\ m.roadmap = Target(w) /\ m.job = wrk[w].msg.job
                    /\ queue' = queue \cup {m}
    /\ losses' = 0 => losses = 0

LEMMA JobInvInitial == Init => JobInv
<1> SUFFICES ASSUME Init
             PROVE  JobInv
  OBVIOUS
<1>1. JobsNamed /\ PendingHasCarrier
  BY DEF Init, JobsNamed, PendingHasCarrier, Claim, IdleRequest, IdleTask
<1>2. JobsFollow
  BY DEF Init, JobsFollow, Created, NoRoadmap, IdleTask
<1> QED
  BY <1>1, <1>2, InitialInv DEF JobInv

\* What every step of a worker does.
LEMMA TaskEffects ==
    ASSUME Inv, NEW w \in Workers, WorkerStep(w) \/ Interrupt(w) \/ Crash(w)
    PROVE  TaskEffect(w)
<1>o. /\ wrk \in [Workers -> Task] /\ roadmaps \in [Ids -> Roadmap]
      /\ jobs \in [JobKey -> JobRow] /\ losses \in 0 .. MaxFaults
  BY DEF Inv, TypeInv, TypeOK
<1>r. ASSUME wrk[w].pc # "idle"
      PROVE  /\ TaskPhase(w) /\ Target(w) \in Ids /\ wrk[w].msg \in Message
             /\ wrk[w].msg.job \in JobKey /\ JobOf(w) \in Job \cup {NoJob}
  BY <1>r, Owners, JobFound DEF Inv, Phases, TypeInv, TypeOK, Message
<1>a. ASSUME NEW p, Advance(w, p)
      PROVE  /\ wrk'[w].pc = p /\ wrk'[w].msg = wrk[w].msg
             /\ \A v \in Workers \ {w} : wrk'[v] = wrk[v]
  BY <1>o, <1>a DEF Advance, Task
<1>b. ASSUME Release(w)
      PROVE  /\ wrk'[w].pc = "idle"
             /\ \A v \in Workers \ {w} : wrk'[v] = wrk[v]
  BY <1>o, <1>b DEF Release, IdleTask
<1>e. ASSUME NEW exc, Raise(w, exc)
      PROVE  /\ wrk'[w].pc = "failure" /\ wrk'[w].msg = wrk[w].msg
             /\ \A v \in Workers \ {w} : wrk'[v] = wrk[v]
  BY <1>o, <1>e DEF Raise, Task
<1>j. ASSUME wrk[w].pc # "idle", NEW row \in Job, MarkJob(w, row)
      PROVE  \A k \in JobKey : jobs'[k] # jobs[k] =>
                /\ k = wrk[w].msg.job
                /\ jobs'[k].roadmap = jobs[k].roadmap /\ jobs'[k].row # NoJob
  <2>1. row # NoJob
    BY DEF Job, JobStatus, NoJob
  <2> QED
    BY <1>o, <1>j, <1>r, <2>1 DEF MarkJob, JobRow
\* The task goes on: nothing else changes, or a row of its job.
<1>m. ASSUME wrk[w].pc # "idle", wrk'[w].pc # "idle", wrk'[w].msg = wrk[w].msg,
             \A v \in Workers \ {w} : wrk'[v] = wrk[v],
             UNCHANGED <<roadmaps, queue, req, losses>>,
             \/ UNCHANGED jobs
             \/ \E row \in Job : MarkJob(w, row)
      PROVE  TaskEffect(w)
  BY <1>m, <1>j DEF TaskEffect
<1>1. ASSUME NEW m \in queue, Take(w, m) PROVE TaskEffect(w)
  <2>1. /\ wrk[w].pc = "idle" /\ wrk'[w].pc = "start" /\ wrk'[w].msg = m
        /\ \A v \in Workers \ {w} : wrk'[v] = wrk[v]
    BY <1>o, <1>1 DEF Take, IdleTask
  <2> QED
    BY <1>1, <2>1 DEF Take, TaskEffect
<1>2. CASE MarkRunning(w)
  BY <1>2, <1>a, <1>m, <1>r, JobTransitions DEF MarkRunning
<1>3. CASE LoadRoadmap(w)
  <2>1. /\ wrk'[w].pc # "idle" /\ wrk'[w].msg = wrk[w].msg
        /\ \A v \in Workers \ {w} : wrk'[v] = wrk[v]
    BY <1>o, <1>3 DEF LoadRoadmap, Task
  <2> QED
    BY <1>3, <1>m, <2>1 DEF LoadRoadmap
<1>4. CASE SetPending(w)
  <2>1. UNCHANGED roadmaps
    BY <1>r, <1>4 DEF SetPending, TaskPhase
  <2> QED
    BY <1>4, <1>a, <1>m, <2>1 DEF SetPending
<1>5. ASSUME NEW provider \in {"primary", "fallback"}, Generate(w, provider)
      PROVE  TaskEffect(w)
  <2>1. /\ wrk'[w].pc # "idle" /\ wrk'[w].msg = wrk[w].msg
        /\ \A v \in Workers \ {w} : wrk'[v] = wrk[v]
    BY <1>o, <1>5 DEF Generate, Task
  <2> QED
    BY <1>5, <1>m, <2>1 DEF Generate
<1>6. ASSUME NEW exc \in {"definitive", "transient"}, GenerateFails(w, exc)
      PROVE  TaskEffect(w)
  BY <1>6, <1>e, <1>m DEF GenerateFails
<1>7. CASE ApplyContract(w)
  <2>1. /\ roadmaps'[Target(w)].status = "completed"
        /\ roadmaps'[Target(w)].key = roadmaps[Target(w)].key
        /\ \A i \in Ids \ {Target(w)} : roadmaps'[i] = roadmaps[i]
    BY <1>o, <1>r, <1>7 DEF ApplyContract, Roadmap
  <2> QED
    BY <1>7, <1>a, <1>r, <2>1 DEF ApplyContract, TaskEffect
<1>8. CASE MarkCompleted(w)
  BY <1>8, <1>a, <1>m, <1>r, JobTransitions DEF MarkCompleted
<1>9. CASE Finish(w)
  <2>1. roadmaps[Target(w)].status # "pending"
    BY <1>9, <1>r DEF Finish, TaskPhase, Delivered
  <2> QED
    BY <1>9, <1>b, <2>1 DEF Finish, TaskEffect
<1>10. CASE FailJob(w)
  BY <1>10, <1>a, <1>m, <1>r, JobTransitions DEF FailJob
<1>11. CASE FailRoadmap(w)
  <2>1. /\ roadmaps'[Target(w)].status = "failed"
        /\ roadmaps'[Target(w)].key = roadmaps[Target(w)].key
        /\ \A i \in Ids \ {Target(w)} : roadmaps'[i] = roadmaps[i]
    BY <1>o, <1>r, <1>11 DEF FailRoadmap, Roadmap
  <2> QED
    BY <1>11, <1>b, <1>r, <2>1 DEF FailRoadmap, TaskEffect
<1>12. CASE Republish(w)
  <2> DEFINE m == [wrk[w].msg EXCEPT !.retries = @ + 1]
  <2>1. m.roadmap = Target(w) /\ m.job = wrk[w].msg.job
    BY <1>r, <1>12 DEF Republish, Message, Target
  <2>2. queue' = queue \cup {m} /\ wrk[w].pc # "idle"
        /\ UNCHANGED <<roadmaps, jobs, req, losses>>
    BY <1>12 DEF Republish
  <2> HIDE DEF m
  <2>3. wrk'[w].pc = "idle" /\ \A v \in Workers \ {w} : wrk'[v] = wrk[v]
    BY <1>12, <1>b DEF Republish
  <2> QED
    BY <2>1, <2>2, <2>3 DEF TaskEffect
<1>13. CASE Interrupt(w)
  BY <1>13, <1>e, <1>m DEF Interrupt
<1>14. CASE Crash(w)
  <2>1. losses' # 0
    BY <1>o, <1>14, RoadmapConstants DEF Crash
  <2> QED
    BY <1>14, <1>b, <2>1 DEF Crash, TaskEffect
<1> QED
  BY <1>1, <1>2, <1>3, <1>4, <1>5, <1>6, <1>7, <1>8, <1>9, <1>10, <1>11, <1>12,
     <1>13, <1>14 DEF WorkerStep

\* A step of a worker takes over names and invents none.
LEMMA TaskKeepsNames ==
    ASSUME Inv, JobsNamed, NEW w \in Workers, TaskEffect(w)
    PROVE  JobsNamed'
<1>o. /\ \A m \in queue : m.roadmap \in Ids /\ m.job \in JobKey
      /\ \A v \in Workers : wrk[v].pc # "idle" =>
            Target(v) \in Ids /\ wrk[v].msg.job \in JobKey
      /\ \A c \in Clients : req[c].pc \in {"find", "insert", "enqueue"} =>
            req[c].roadmap \in Ids
  BY DEF Inv, TypeInv, TypeOK, Message, Target
<1>1. /\ \A i \in Ids : roadmaps'[i].key = roadmaps[i].key
      /\ \A i \in Ids : roadmaps[i].status # "none" => roadmaps'[i].status # "none"
  BY DEF TaskEffect
<1>2. /\ \A i \in Created : i \in Created'
      /\ \A i \in Ids : KeyOf(i)' = KeyOf(i)
      /\ \A c \in Clients : RequestJob(c)' = RequestJob(c)
  BY <1>1 DEF Created, KeyOf, RequestJob, TaskEffect
<1>3. \A v \in Workers \ {w} : Target(v)' = Target(v) /\ wrk'[v] = wrk[v]
  BY DEF TaskEffect, Target
<1>4. ASSUME NEW i, NEW k, Claim(i, k)'
      PROVE  Claim(i, k)
  <2>1. CASE \E m \in queue' : m.roadmap = i /\ m.job = k
    BY <2>1 DEF TaskEffect, Claim
  <2>2. CASE \E v \in Workers :
                wrk'[v].pc # "idle" /\ Target(v)' = i /\ wrk'[v].msg.job = k
    BY <1>3, <2>2 DEF TaskEffect, Claim, Target
  <2>3. CASE \E c \in Clients : /\ req'[c].pc = "enqueue" /\ req'[c].roadmap = i
                                /\ RequestJob(c)' = k
    BY <1>2, <2>3 DEF TaskEffect, Claim
  <2> QED
    BY <1>4, <2>1, <2>2, <2>3 DEF Claim
<1>5. ASSUME NEW k \in JobKey
      PROVE  /\ jobs'[k].row # NoJob <=> jobs[k].row # NoJob
             /\ jobs'[k].roadmap = jobs[k].roadmap
  <2>1. CASE jobs'[k] = jobs[k]
    BY <2>1
  <2>2. CASE jobs'[k] # jobs[k]
    <3>1. /\ wrk[w].pc # "idle" /\ k = wrk[w].msg.job
          /\ jobs'[k].roadmap = jobs[k].roadmap /\ jobs'[k].row # NoJob
      BY <2>2 DEF TaskEffect
    <3>2. Claim(Target(w), k) /\ Target(w) \in Ids
      BY <1>o, <3>1 DEF Claim
    <3> QED
      BY <3>1, <3>2 DEF JobsNamed
  <2> QED
    BY <2>1, <2>2
<1>6. (\A k \in JobKey : jobs[k].row # NoJob =>
          jobs[k].roadmap \in Created /\ KeyOf(jobs[k].roadmap) = k)'
  BY <1>1, <1>5 DEF JobsNamed, Created, KeyOf
<1>7. \A i \in Ids, k \in JobKey : Claim(i, k)' =>
         jobs'[k].row # NoJob /\ i \in Created' /\ KeyOf(i)' = k
  BY <1>2, <1>4, <1>5 DEF JobsNamed
<1>8. (\A c \in Clients : req[c].pc \in {"find", "insert", "enqueue"} =>
          req[c].roadmap \in Created /\ KeyOf(req[c].roadmap) = RequestJob(c))'
  <2>1. req' = req
    BY DEF TaskEffect
  <2> QED
    BY <1>o, <1>1, <2>1 DEF JobsNamed, Created, KeyOf, RequestJob
<1>9. (\A c \in Clients : req[c].pc \in {"find", "insert"} =>
          \A k \in JobKey : jobs[k].row # NoJob => jobs[k].roadmap # req[c].roadmap)'
  BY <1>5 DEF JobsNamed, TaskEffect
<1> QED
  BY <1>6, <1>7, <1>8, <1>9 DEF JobsNamed

\* A worker lets go of a pending roadmap only by publishing its task again.
LEMMA TaskKeepsCarriers ==
    ASSUME Inv, JobsNamed, PendingHasCarrier, NEW w \in Workers, TaskEffect(w)
    PROVE  PendingHasCarrier'
<1> SUFFICES ASSUME losses' = 0, NEW k \in JobKey, jobs'[k].row # NoJob
             PROVE  (LET id == jobs[k].roadmap
                     IN  /\ id \in Ids
                         /\ roadmaps[id].status = "pending" => HasCarrier(id))'
  BY DEF PendingHasCarrier
<1>o. \A v \in Workers : wrk[v].pc # "idle" =>
         Target(v) \in Ids /\ wrk[v].msg.job \in JobKey
  BY DEF Inv, TypeInv, TypeOK, Message, Target
<1>1. losses = 0 /\ jobs'[k].roadmap = jobs[k].roadmap
  BY DEF TaskEffect
<1>2. jobs[k].row # NoJob
  <2>1. CASE jobs'[k] # jobs[k]
    <3>1. Claim(Target(w), k) /\ Target(w) \in Ids
      BY <1>o, <2>1 DEF TaskEffect, Claim
    <3> QED
      BY <3>1 DEF JobsNamed
  <2> QED
    BY <2>1
<1>3. PICK id \in Ids : /\ id = jobs[k].roadmap
                        /\ roadmaps[id].status = "pending" => HasCarrier(id)
  BY <1>1, <1>2 DEF PendingHasCarrier
<1>4. ASSUME roadmaps'[id].status = "pending"
      PROVE  HasCarrier(id)'
  <2>1. HasCarrier(id)
    BY <1>3, <1>4 DEF TaskEffect
  <2>2. CASE \E m \in queue : m.roadmap = id
    BY <2>2 DEF TaskEffect, HasCarrier, Target
  <2>3. CASE \E c \in Clients : req[c].pc # "idle" /\ req[c].roadmap = id
    BY <2>3 DEF TaskEffect, HasCarrier
  <2>4. CASE \E v \in Workers : wrk[v].pc # "idle" /\ Target(v) = id
    <3>1. PICK v \in Workers : wrk[v].pc # "idle" /\ Target(v) = id
      BY <2>4
    <3>2. CASE v # w
      BY <3>1, <3>2 DEF TaskEffect, HasCarrier, Target
    <3>3. CASE v = w
      BY <1>4, <3>1, <3>3 DEF TaskEffect, HasCarrier, Target
    <3> QED
      BY <3>2, <3>3
  <2> QED
    BY <2>1, <2>2, <2>3, <2>4 DEF HasCarrier
<1> QED
  BY <1>1, <1>3, <1>4

(***************************************************************************)
(* No other task has the job of a roadmap that is alone with its key, so   *)
(* only what the task itself does to both rows matters.                    *)
(***************************************************************************)
LEMMA TaskKeepsFollowing ==
    ASSUME Inv, JobsNamed, JobsFollow, NEW w \in Workers, TaskEffect(w),
           wrk[w].pc # "idle",
           Alone(Target(w)) =>
               /\ Follows(jobs'[wrk[w].msg.job].row, roadmaps'[Target(w)])
               /\ wrk'[w].pc = "fail_roadmap" =>
                     /\ wrk'[w].msg = wrk[w].msg
                     /\ jobs'[wrk[w].msg.job].row.status = "dead_letter"
    PROVE  JobsFollow'
<1> DEFINE i == Target(w)
           k == wrk[w].msg.job
<1>o. \A v \in Workers : wrk[v].pc # "idle" =>
         /\ Target(v) \in Ids /\ wrk[v].msg.job \in JobKey
         /\ Claim(Target(v), wrk[v].msg.job)
  BY DEF Inv, TypeInv, TypeOK, Message, Target, Claim
<1>1. \A v \in Workers : wrk[v].pc # "idle" =>
         /\ Target(v) \in Created /\ KeyOf(Target(v)) = wrk[v].msg.job
         /\ jobs[wrk[v].msg.job].row # NoJob
  BY <1>o DEF JobsNamed
<1>2. /\ \A j \in Ids : roadmaps'[j].key = roadmaps[j].key
      /\ \A j \in Ids : roadmaps'[j].status # "none" <=> roadmaps[j].status # "none"
  BY <1>1 DEF TaskEffect, Created
<1>3. Created' = Created /\ \A j \in Ids : KeyOf(j)' = KeyOf(j)
  BY <1>2 DEF Created, KeyOf
<1>4. \A j \in Created : Alone(j)' => Alone(j)
  BY <1>3 DEF Alone, Created
<1>5. ASSUME NEW j \in Created, Alone(j), j # i
      PROVE  KeyOf(j) # k
  BY <1>1, <1>5 DEF Alone
<1>6. ASSUME NEW j \in Created, Alone(j), jobs'[KeyOf(j)].row # NoJob
      PROVE  Follows(jobs'[KeyOf(j)].row, roadmaps'[j])
  <2>1. CASE j = i
    BY <1>1, <1>6, <2>1
  <2>2. CASE j # i
    <3>1. KeyOf(j) \in JobKey
      BY DEF KeyOf, Created, JobKey, Inv, TypeInv, TypeOK, Roadmap
    <3>2. jobs'[KeyOf(j)] = jobs[KeyOf(j)]
      BY <1>5, <1>6, <2>2, <3>1 DEF TaskEffect
    <3>3. roadmaps'[j] = roadmaps[j]
      BY <2>2 DEF TaskEffect, Created
    <3> QED
      BY <1>6, <3>2, <3>3 DEF JobsFollow
  <2> QED
    BY <2>1, <2>2
<1>7. ASSUME NEW v \in Workers, wrk'[v].pc = "fail_roadmap", Alone(Target(v))'
      PROVE  jobs'[wrk'[v].msg.job].row.status = "dead_letter"
  <2>1. CASE v = w
    <3>1. wrk'[w].msg = wrk[w].msg \/ wrk[w].pc = "idle"
      BY <1>7, <2>1 DEF TaskEffect
    <3>2. Alone(i)
      BY <1>1, <1>4, <1>7, <2>1, <3>1 DEF Target
    <3> QED
      BY <1>7, <2>1, <3>2
  <2>2. CASE v # w
    <3>1. wrk'[v] = wrk[v] /\ Target(v)' = Target(v)
      BY <2>2 DEF TaskEffect, Target
    <3>2. Target(v) \in Created /\ Alone(Target(v)) /\ Target(v) # i
      <4>1. Target(v) # i
        BY <1>7, <2>2, <3>1, Owners DEF Inv, OneOwner
      <4> QED
        BY <1>1, <1>4, <1>7, <3>1, <4>1
    <3>3. wrk[v].msg.job # k
      BY <1>1, <1>5, <1>7, <3>1, <3>2
    <3>4. jobs'[wrk[v].msg.job] = jobs[wrk[v].msg.job]
      BY <1>o, <1>7, <3>1, <3>3 DEF TaskEffect
    <3> QED
      BY <1>7, <3>1, <3>2, <3>4 DEF JobsFollow
  <2> QED
    BY <2>1, <2>2
<1>8. \A j \in Created' : Alone(j)' /\ jobs'[KeyOf(j)'].row # NoJob =>
         Follows(jobs'[KeyOf(j)'].row, roadmaps'[j])
  BY <1>3, <1>4, <1>6 DEF Created
<1> QED
  BY <1>7, <1>8 DEF JobsFollow, KeyOf, Follows

LEMMA WorkerKeepsJobInv ==
    ASSUME JobInv, NEW w \in Workers, WorkerStep(w) \/ Interrupt(w) \/ Crash(w)
    PROVE  JobInv'
<1> DEFINE i == Target(w)
           k == wrk[w].msg.job
<1>o. /\ Inv /\ JobsNamed /\ JobsFollow /\ PendingHasCarrier /\ TaskEffect(w)
      /\ wrk \in [Workers -> Task] /\ roadmaps \in [Ids -> Roadmap]
      /\ jobs \in [JobKey -> JobRow]
  BY TaskEffects DEF JobInv, Inv, TypeInv, TypeOK
<1> SUFFICES JobsFollow'
  BY <1>o, TaskKeepsNames, TaskKeepsCarriers, WorkerStepKeepsInv DEF JobInv
<1>r. ASSUME wrk[w].pc # "idle"
      PROVE  /\ i \in Ids /\ k \in JobKey
             /\ TaskPhase(w) /\ roadmaps[i].status # "failed"
             /\ jobs[k].row \in Job /\ JobOf(w) = jobs[k].row
             /\ Alone(i) => Follows(jobs[k].row, roadmaps[i])
  <2>1. i \in Ids /\ k \in JobKey /\ Claim(i, k)
    BY <1>o, <1>r DEF Inv, TypeInv, TypeOK, Message, Target, Claim
  <2>2. i \in Created /\ KeyOf(i) = k /\ jobs[k].row # NoJob
    BY <1>o, <2>1 DEF JobsNamed
  <2>3. jobs[k].row \in Job
    BY <1>o, <2>1, <2>2 DEF JobRow
  <2>4. TaskPhase(w) /\ roadmaps[i].status # "failed"
    BY <1>o, <1>r DEF Inv, Phases, TaskPhase, Fresh, Delivered
  <2> QED
    BY <1>o, <2>1, <2>2, <2>3, <2>4 DEF JobsFollow, JobOf
\* The task does not touch the rows and is not about to fail its roadmap.
<1>q. ASSUME UNCHANGED <<roadmaps, jobs>>, wrk[w].pc # "idle",
             wrk'[w].pc # "fail_roadmap"
      PROVE  JobsFollow'
  BY <1>o, <1>q, <1>r, TaskKeepsFollowing
<1>a. ASSUME NEW p, Advance(w, p) PROVE wrk'[w].pc = p /\ wrk'[w].msg = wrk[w].msg
  BY <1>o, <1>a DEF Advance, Task
<1>b. ASSUME Release(w) PROVE wrk'[w].pc = "idle"
  BY <1>o, <1>b DEF Release, IdleTask
<1>e. ASSUME NEW exc, Raise(w, exc) PROVE wrk'[w].pc = "failure"
  BY <1>o, <1>e DEF Raise, Task
<1>j. ASSUME wrk[w].pc # "idle", NEW row, MarkJob(w, row)
      PROVE  jobs'[k].row = row
  BY <1>o, <1>j, <1>r DEF MarkJob, JobRow
<1>1. ASSUME NEW m \in queue, Take(w, m) PROVE JobsFollow'
  <2>1. /\ UNCHANGED <<roadmaps, jobs>> /\ wrk'[w].pc = "start"
        /\ \A v \in Workers \ {w} : wrk'[v] = wrk[v]
    BY <1>o, <1>1 DEF Take, IdleTask
  <2> QED
    BY <1>o, <2>1 DEF JobsFollow, Alone, Created, KeyOf, Target
<1>2. CASE MarkRunning(w)
  <2>1. /\ wrk[w].pc # "idle" /\ wrk'[w].pc = "load" /\ UNCHANGED roadmaps
        /\ jobs'[k].row = mark_running(jobs[k].row)
    BY <1>2, <1>a, <1>j, <1>r DEF MarkRunning
  <2>2. jobs'[k].row.status = "completed" => jobs[k].row.status = "completed"
    BY <2>1 DEF mark_running
  <2> QED
    BY <1>o, <1>r, <2>1, <2>2, TaskKeepsFollowing DEF Follows
<1>3. CASE LoadRoadmap(w)
  <2>1. wrk'[w].pc # "fail_roadmap"
    BY <1>o, <1>3 DEF LoadRoadmap, Task
  <2> QED
    BY <1>3, <1>q, <2>1 DEF LoadRoadmap
<1>4. CASE SetPending(w)
  <2>1. UNCHANGED roadmaps
    BY <1>r, <1>4 DEF SetPending, TaskPhase
  <2> QED
    BY <1>4, <1>a, <1>q, <2>1 DEF SetPending
<1>5. ASSUME NEW provider \in {"primary", "fallback"}, Generate(w, provider)
      PROVE  JobsFollow'
  <2>1. wrk'[w].pc # "fail_roadmap"
    BY <1>o, <1>5 DEF Generate, Task
  <2> QED
    BY <1>5, <1>q, <2>1 DEF Generate
<1>6. ASSUME NEW exc \in {"definitive", "transient"}, GenerateFails(w, exc)
      PROVE  JobsFollow'
  BY <1>6, <1>e, <1>q DEF GenerateFails
<1>7. CASE ApplyContract(w)
  <2>1. /\ wrk[w].pc # "idle" /\ wrk'[w].pc = "mark_completed" /\ UNCHANGED jobs
        /\ roadmaps'[i].status = "completed"
    BY <1>o, <1>r, <1>7, <1>a DEF ApplyContract, Roadmap
  <2> QED
    BY <1>o, <2>1, TaskKeepsFollowing DEF Follows
<1>8. CASE MarkCompleted(w)
  <2>1. /\ wrk[w].pc # "idle" /\ wrk'[w].pc = "done" /\ UNCHANGED roadmaps
        /\ roadmaps[i].status = "completed"
    BY <1>8, <1>a, <1>r DEF MarkCompleted, TaskPhase, Delivered
  <2> QED
    BY <1>o, <2>1, TaskKeepsFollowing DEF Follows
<1>9. CASE Finish(w)
  BY <1>9, <1>b, <1>q DEF Finish
<1>10. CASE FailJob(w)
  <2>1. wrk[w].pc # "idle" /\ UNCHANGED roadmaps
    BY <1>10 DEF FailJob
  <2>2. CASE GivesUp(w)
    <3>1. /\ wrk'[w].msg = wrk[w].msg
          /\ jobs'[k].row = mark_failed(jobs[k].row, TRUE)
      BY <1>10, <1>a, <1>j, <1>r, <2>1, <2>2 DEF FailJob
    <3>2. jobs'[k].row.status = "dead_letter"
      BY <1>r, <2>1, <3>1 DEF mark_failed, Job
    <3> QED
      BY <1>o, <2>1, <3>1, <3>2, TaskKeepsFollowing DEF Follows
  <2>3. CASE ~GivesUp(w)
    <3>1. /\ wrk'[w].pc = "republish"
          /\ jobs'[k].row = mark_pending_retry(jobs[k].row)
      BY <1>10, <1>a, <1>j, <1>r, <2>1, <2>3 DEF FailJob
    <3>2. jobs'[k].row.status = "completed" => jobs[k].row.status = "completed"
      BY <1>r, <2>1, <3>1 DEF mark_pending_retry, Job
    <3> QED
      BY <1>o, <1>r, <2>1, <3>1, <3>2, TaskKeepsFollowing DEF Follows
  <2> QED
    BY <2>2, <2>3
<1>11. CASE FailRoadmap(w)
  <2>1. /\ wrk[w].pc = "fail_roadmap" /\ wrk'[w].pc = "idle" /\ UNCHANGED jobs
    BY <1>11, <1>b DEF FailRoadmap
  <2>2. Alone(i) => jobs[k].row.status = "dead_letter"
    BY <1>o, <2>1 DEF JobsFollow
  <2> QED
    BY <1>o, <2>1, <2>2, TaskKeepsFollowing DEF Follows
<1>12. CASE Republish(w)
  BY <1>12, <1>b, <1>q DEF Republish
<1>13. CASE Interrupt(w)
  BY <1>13, <1>e, <1>q DEF Interrupt
<1>14. CASE Crash(w)
  BY <1>14, <1>b, <1>q DEF Crash
<1> QED
  BY <1>1, <1>2, <1>3, <1>4, <1>5, <1>6, <1>7, <1>8, <1>9, <1>10, <1>11, <1>12,
     <1>13, <1>14 DEF WorkerStep

\* A request starts, or ends with or without publishing its task.
LEMMA RequestEndsKeepJobInv ==
    ASSUME JobInv, Inv', NEW c \in Clients, UNCHANGED <<roadmaps, jobs, wrk>>,
           \A d \in Clients \ {c} : req'[d] = req[d],
           req'[c].pc \in {"idle", "create"},
           \/ /\ queue' = queue
              /\ \/ losses' # 0
                 \/ req[c].roadmap = 0
                 \/ req[c].pc \in {"find", "insert"}
           \/ /\ req[c].pc = "enqueue"
              /\ \E m : /\ m.roadmap = req[c].roadmap /\ m.job = RequestJob(c)
                        /\ queue' = queue \cup {m},
           losses' = 0 => losses = 0
    PROVE  JobInv'
<1>o. JobsNamed /\ JobsFollow /\ PendingHasCarrier
  BY DEF JobInv
<1>1. /\ Created' = Created /\ \A i : KeyOf(i)' = KeyOf(i)
      /\ \A w \in Workers : Target(w)' = Target(w)
      /\ \A d \in Clients \ {c} : RequestJob(d)' = RequestJob(d)
  BY DEF Created, KeyOf, Target, RequestJob
<1>2. ASSUME NEW i, NEW k, Claim(i, k)' PROVE Claim(i, k)
  <2>1. CASE \E m \in queue' : m.roadmap = i /\ m.job = k
    BY <2>1 DEF Claim
  <2>2. CASE \E w \in Workers :
                wrk'[w].pc # "idle" /\ Target(w)' = i /\ wrk'[w].msg.job = k
    BY <1>1, <2>2 DEF Claim
  <2>3. CASE \E d \in Clients : /\ req'[d].pc = "enqueue" /\ req'[d].roadmap = i
                                /\ RequestJob(d)' = k
    BY <1>1, <2>3 DEF Claim
  <2> QED
    BY <1>2, <2>1, <2>2, <2>3 DEF Claim
<1>3. JobsNamed'
  <2>1. (\A d \in Clients : req[d].pc \in {"find", "insert", "enqueue"} =>
            req[d].roadmap \in Created /\ KeyOf(req[d].roadmap) = RequestJob(d))'
    BY <1>o DEF JobsNamed, Created, KeyOf, RequestJob
  <2>2. (\A i \in Ids, k \in JobKey : Claim(i, k) =>
            jobs[k].row # NoJob /\ i \in Created /\ KeyOf(i) = k)'
    BY <1>o, <1>1, <1>2 DEF JobsNamed
  <2>3. (\A k \in JobKey : jobs[k].row # NoJob =>
            jobs[k].roadmap \in Created /\ KeyOf(jobs[k].roadmap) = k)'
    BY <1>o DEF JobsNamed, Created, KeyOf
  <2> QED
    BY <1>o, <2>1, <2>2, <2>3 DEF JobsNamed
<1>4. JobsFollow'
  BY <1>o DEF JobsFollow, Alone, Created, KeyOf, Target
<1>5. PendingHasCarrier'
  <2> SUFFICES ASSUME losses' = 0, NEW k \in JobKey, jobs[k].row # NoJob
               PROVE  (LET id == jobs[k].roadmap
                       IN  /\ id \in Ids
                           /\ roadmaps[id].status = "pending" => HasCarrier(id))'
    BY DEF PendingHasCarrier
  <2>1. PICK id \in Ids : /\ id = jobs[k].roadmap
                          /\ roadmaps[id].status = "pending" => HasCarrier(id)
    BY <1>o DEF PendingHasCarrier
  <2>2. ASSUME HasCarrier(id) PROVE HasCarrier(id)'
    <3>1. CASE \E m \in queue : m.roadmap = id
      BY <3>1 DEF HasCarrier
    <3>2. CASE \E w \in Workers : wrk[w].pc # "idle" /\ Target(w) = id
      BY <1>1, <3>2 DEF HasCarrier
    <3>3. CASE \E d \in Clients \ {c} : req[d].pc # "idle" /\ req[d].roadmap = id
      BY <3>3 DEF HasCarrier
    <3>4. CASE req[c].pc # "idle" /\ req[c].roadmap = id
      <4>1. req[c].roadmap # 0 /\ req[c].pc \notin {"find", "insert"}
        BY <1>o, <2>1, <3>4, RoadmapConstants DEF JobsNamed
      <4> QED
        BY <3>4, <4>1 DEF HasCarrier
    <3> QED
      BY <2>2, <3>1, <3>2, <3>3, <3>4 DEF HasCarrier
  <2> QED
    BY <2>1, <2>2
<1> QED
  BY <1>3, <1>4, <1>5 DEF JobInv

LEMMA FindKeepsJobInv ==
    ASSUME JobInv, Inv', NEW c \in Clients, FindJob(c)
    PROVE  JobInv'
<1>o. /\ JobsNamed /\ JobsFollow /\ PendingHasCarrier
      /\ req \in [Clients -> Request]
  BY DEF JobInv, Inv, TypeInv, TypeOK
<1>1. /\ UNCHANGED <<roadmaps, jobs, queue, wrk, losses>>
      /\ \A d \in Clients \ {c} : req'[d] = req[d]
      /\ req[c].pc = "find" /\ req'[c].pc \in {"insert", "enqueue"}
      /\ req'[c].pc = "enqueue" => jobs[RequestJob(c)].row # NoJob
      /\ \A d \in Clients : /\ req'[d].roadmap = req[d].roadmap
                            /\ req'[d].key = req[d].key
  BY <1>o DEF FindJob, Continue, Request
<1>2. /\ Created' = Created /\ \A i : KeyOf(i)' = KeyOf(i)
      /\ \A w \in Workers : Target(w)' = Target(w)
      /\ \A d \in Clients : RequestJob(d)' = RequestJob(d)
  BY <1>1 DEF Created, KeyOf, Target, RequestJob
<1>3. (\A i \in Ids, k \in JobKey : Claim(i, k) =>
          jobs[k].row # NoJob /\ i \in Created /\ KeyOf(i) = k)'
  <2> SUFFICES ASSUME NEW i \in Ids, NEW k \in JobKey, Claim(i, k)'
               PROVE  jobs[k].row # NoJob /\ i \in Created /\ KeyOf(i) = k
    BY <1>1, <1>2
  <2>1. CASE Claim(i, k)
    BY <1>o, <2>1 DEF JobsNamed
  <2>2. CASE req'[c].pc = "enqueue" /\ req[c].roadmap = i /\ RequestJob(c) = k
    BY <1>o, <1>1, <2>2 DEF JobsNamed
  <2> QED
    BY <1>1, <1>2, <2>1, <2>2 DEF Claim
<1>4. (\A d \in Clients : req[d].pc \in {"find", "insert", "enqueue"} =>
          req[d].roadmap \in Created /\ KeyOf(req[d].roadmap) = RequestJob(d))'
  BY <1>o, <1>1 DEF JobsNamed, Created, KeyOf, RequestJob
<1>5. JobsNamed'
  <2>1. (\A k \in JobKey : jobs[k].row # NoJob =>
            jobs[k].roadmap \in Created /\ KeyOf(jobs[k].roadmap) = k)'
    BY <1>o, <1>1 DEF JobsNamed, Created, KeyOf
  <2>2. (\A d \in Clients : req[d].pc \in {"find", "insert"} =>
            \A k \in JobKey : jobs[k].row # NoJob => jobs[k].roadmap # req[d].roadmap)'
    BY <1>o, <1>1 DEF JobsNamed
  <2> QED
    BY <1>3, <1>4, <2>1, <2>2 DEF JobsNamed
<1>6. JobsFollow'
  BY <1>o, <1>1 DEF JobsFollow, Alone, Created, KeyOf, Target
<1>7. PendingHasCarrier'
  <2>1. \A id : HasCarrier(id) => HasCarrier(id)'
    BY <1>1, <1>2 DEF HasCarrier
  <2> QED
    BY <1>o, <1>1, <2>1 DEF PendingHasCarrier, HasCarrier, Target
<1> QED
  BY <1>5, <1>6, <1>7 DEF JobInv

\* The request of the roadmap inserts the row and will publish the task.
LEMMA InsertKeepsJobInv ==
    ASSUME JobInv, Inv', NEW c \in Clients, req[c].pc = "insert",
           jobs[RequestJob(c)].row = NoJob,
           jobs' = [jobs EXCEPT ![RequestJob(c)] =
                       [row |-> NewJob, roadmap |-> req[c].roadmap]],
           Continue(c, "enqueue"), UNCHANGED <<roadmaps, queue, wrk, losses>>
    PROVE  JobInv'
<1>o. /\ JobsNamed /\ JobsFollow /\ PendingHasCarrier
      /\ req \in [Clients -> Request] /\ jobs \in [JobKey -> JobRow]
      /\ OneOwner /\ Phases
  BY DEF JobInv, Inv, TypeInv, TypeOK
<1>k. PICK k \in JobKey, r \in Ids : k = RequestJob(c) /\ r = req[c].roadmap
  BY RequestHasJob DEF JobInv, Inv, TypeInv
<1>1. /\ jobs'[k].row = NewJob /\ jobs'[k].roadmap = r /\ NewJob # NoJob
      /\ \A l \in JobKey \ {k} : jobs'[l] = jobs[l]
  BY <1>o, <1>k DEF NewJob, NoJob
<1>2. /\ \A d \in Clients \ {c} : req'[d] = req[d]
      /\ req'[c].pc = "enqueue"
      /\ \A d \in Clients : /\ req'[d].roadmap = req[d].roadmap
                            /\ req'[d].key = req[d].key
  BY <1>o DEF Continue, Request
<1>3. /\ Created' = Created /\ \A i : KeyOf(i)' = KeyOf(i)
      /\ \A w \in Workers : Target(w)' = Target(w)
      /\ \A d \in Clients : RequestJob(d)' = RequestJob(d)
  BY <1>2 DEF Created, KeyOf, Target, RequestJob
<1>4. r \in Created /\ KeyOf(r) = k /\ Fresh(roadmaps[r])
  BY <1>o, <1>k, RoadmapConstants DEF JobsNamed, Phases
<1>5. (\A i \in Ids, l \in JobKey : Claim(i, l) =>
          jobs[l].row # NoJob /\ i \in Created /\ KeyOf(i) = l)'
  <2> SUFFICES ASSUME NEW i \in Ids, NEW l \in JobKey, Claim(i, l)'
               PROVE  jobs'[l].row # NoJob /\ i \in Created /\ KeyOf(i) = l
    BY <1>3
  <2>1. CASE Claim(i, l)
    BY <1>o, <1>1, <2>1 DEF JobsNamed
  <2>2. CASE r = i /\ k = l
    BY <1>1, <1>4, <2>2
  <2> QED
    BY <1>k, <1>2, <1>3, <2>1, <2>2 DEF Claim
<1>6. (\A d \in Clients : req[d].pc \in {"find", "insert", "enqueue"} =>
          req[d].roadmap \in Created /\ KeyOf(req[d].roadmap) = RequestJob(d))'
  BY <1>o, <1>2 DEF JobsNamed, Created, KeyOf, RequestJob
<1>7. (\A l \in JobKey : jobs[l].row # NoJob =>
          jobs[l].roadmap \in Created /\ KeyOf(jobs[l].roadmap) = l)'
  <2> SUFFICES ASSUME NEW l \in JobKey, jobs'[l].row # NoJob
               PROVE  (jobs[l].roadmap \in Created /\ KeyOf(jobs[l].roadmap) = l)'
    OBVIOUS
  <2>1. CASE l = k
    BY <1>1, <1>4, <2>1 DEF Created, KeyOf
  <2>2. CASE l # k
    BY <1>o, <1>1, <2>2 DEF JobsNamed, Created, KeyOf
  <2> QED
    BY <2>1, <2>2
<1>8. \A d \in Clients : req'[d].pc \in {"find", "insert"} =>
         \A l \in JobKey : jobs'[l].row # NoJob => jobs'[l].roadmap # req'[d].roadmap
  <2> SUFFICES ASSUME NEW d \in Clients, req'[d].pc \in {"find", "insert"},
                      NEW l \in JobKey, jobs'[l].row # NoJob
               PROVE  jobs'[l].roadmap # req[d].roadmap
    BY <1>2
  <2>1. d # c /\ req[d].pc \in {"find", "insert"}
    BY <1>2
  <2>2. CASE l = k
    BY <1>o, <1>k, <1>1, <2>1, <2>2, RoadmapConstants DEF OneOwner
  <2>3. CASE l # k
    BY <1>o, <1>1, <2>1, <2>3 DEF JobsNamed
  <2> QED
    BY <2>2, <2>3
<1>9. JobsNamed'
  BY <1>5, <1>6, <1>7, <1>8 DEF JobsNamed
<1>10. JobsFollow'
  <2>1. \A i \in Created : Alone(i)' => Alone(i)
    BY <1>3 DEF Alone
  <2>2. ASSUME NEW i \in Created, Alone(i), jobs'[KeyOf(i)].row # NoJob
        PROVE  Follows(jobs'[KeyOf(i)].row, roadmaps[i])
    <3>1. CASE KeyOf(i) = k
      <4>1. i = r
        BY <1>4, <2>2, <3>1 DEF Alone
      <4> QED
        BY <1>1, <1>4, <3>1, <4>1 DEF Follows, Fresh, NewJob
    <3>2. CASE KeyOf(i) # k
      <4>1. KeyOf(i) \in JobKey
        BY DEF KeyOf, Created, JobKey, JobInv, Inv, TypeInv, TypeOK, Roadmap
      <4> QED
        BY <1>o, <1>1, <2>2, <3>2, <4>1 DEF JobsFollow
    <3> QED
      BY <3>1, <3>2
  <2>3. ASSUME NEW w \in Workers, wrk[w].pc = "fail_roadmap", Alone(Target(w))'
        PROVE  jobs'[wrk[w].msg.job].row.status = "dead_letter"
    <3>1. Target(w) \in Ids /\ wrk[w].msg.job \in JobKey
      BY <2>3 DEF JobInv, Inv, TypeInv, TypeOK, Message, Target
    <3>2. Claim(Target(w), wrk[w].msg.job)
      BY <2>3 DEF Claim
    <3>3. wrk[w].msg.job # k /\ Alone(Target(w))
      BY <1>o, <1>k, <1>3, <2>1, <2>3, <3>1, <3>2 DEF JobsNamed
    <3> QED
      BY <1>o, <1>1, <2>3, <3>1, <3>3 DEF JobsFollow
  <2>4. \A i \in Created' : Alone(i)' /\ jobs'[KeyOf(i)'].row # NoJob =>
           Follows(jobs'[KeyOf(i)'].row, roadmaps'[i])
    BY <1>3, <2>1, <2>2
  <2> QED
    BY <2>3, <2>4 DEF JobsFollow, Follows, KeyOf
<1>11. PendingHasCarrier'
  <2> SUFFICES ASSUME losses' = 0, NEW l \in JobKey, jobs'[l].row # NoJob
               PROVE  (LET id == jobs[l].roadmap
                       IN  /\ id \in Ids
                           /\ roadmaps[id].status = "pending" => HasCarrier(id))'
    BY DEF PendingHasCarrier
  <2>1. \A id : HasCarrier(id) => HasCarrier(id)'
    BY <1>2, <1>3 DEF HasCarrier
  <2>2. HasCarrier(r)'
    BY <1>k, <1>2 DEF HasCarrier
  <2>3. CASE l = k
    BY <1>1, <2>2, <2>3 DEF HasCarrier, Target
  <2>4. CASE l # k
    <3>1. /\ jobs'[l] = jobs[l] /\ losses = 0
          /\ roadmaps' = roadmaps
      BY <1>1, <2>4
    <3>2. /\ jobs[l].roadmap \in Ids
          /\ roadmaps[jobs[l].roadmap].status = "pending" =>
                HasCarrier(jobs[l].roadmap)
      BY <1>o, <3>1 DEF PendingHasCarrier
    <3> HIDE DEF HasCarrier
    <3> QED
      BY <2>1, <3>1, <3>2
  <2> QED
    BY <2>3, <2>4
<1> QED
  BY <1>9, <1>10, <1>11 DEF JobInv

\* A new roadmap is in no job row and takes no key away from a job.
LEMMA CreateKeepsJobInv ==
    ASSUME JobInv, Inv', NEW c \in Clients, CreateRoadmap(c)
    PROVE  JobInv'
<1>o. /\ JobsNamed /\ JobsFollow /\ PendingHasCarrier
      /\ TypeInv /\ KeysInOrder
      /\ req \in [Clients -> Request] /\ roadmaps \in [Ids -> Roadmap]
      /\ req[c].roadmap = 0
  BY DEF JobInv, Inv, TypeInv, TypeOK, RequestsNumbered, CreateRoadmap
<1>i. PICK i \in Ids : i = Cardinality(Created) + 1
  BY DEF CreateRoadmap
<1>1. /\ UNCHANGED <<jobs, queue, wrk, losses>>
      /\ req[c].pc = "create" /\ req'[c].pc = "find"
      /\ req'[c].roadmap = i /\ req'[c].key = req[c].key
      /\ \A d \in Clients \ {c} : req'[d] = req[d]
      /\ \A j \in Ids \ {i} : roadmaps'[j] = roadmaps[j]
      /\ roadmaps'[i].status = "pending" /\ roadmaps'[i].key = req[c].key
  BY <1>o, <1>i DEF CreateRoadmap, Request
<1>2. i \notin Created
  BY <1>o, <1>i, NextKeyIsFree
<1>3. /\ Created' = Created \cup {i}
      /\ \A j \in Created : KeyOf(j)' = KeyOf(j)
      /\ KeyOf(i)' = RequestJob(c)'
      /\ \A w \in Workers : Target(w)' = Target(w)
      /\ \A d \in Clients \ {c} : RequestJob(d)' = RequestJob(d)
  BY <1>1, <1>2 DEF Created, KeyOf, RequestJob, Target
<1>4. ASSUME NEW j, NEW k, Claim(j, k)' PROVE Claim(j, k)
  BY <1>1, <1>3, <1>4 DEF Claim
<1>5. JobsNamed'
  <2>1. (\A k \in JobKey : jobs[k].row # NoJob =>
            jobs[k].roadmap \in Created /\ KeyOf(jobs[k].roadmap) = k)'
    BY <1>o, <1>1, <1>2 DEF JobsNamed, Created, KeyOf
  <2>2. (\A j \in Ids, k \in JobKey : Claim(j, k) =>
            jobs[k].row # NoJob /\ j \in Created /\ KeyOf(j) = k)'
    BY <1>o, <1>1, <1>3, <1>4 DEF JobsNamed
  <2>3. (\A d \in Clients : req[d].pc \in {"find", "insert", "enqueue"} =>
            req[d].roadmap \in Created /\ KeyOf(req[d].roadmap) = RequestJob(d))'
    BY <1>o, <1>1, <1>2 DEF JobsNamed, Created, KeyOf, RequestJob
  <2>4. (\A d \in Clients : req[d].pc \in {"find", "insert"} =>
            \A k \in JobKey : jobs[k].row # NoJob => jobs[k].roadmap # req[d].roadmap)'
    BY <1>o, <1>1, <1>2 DEF JobsNamed
  <2> QED
    BY <2>1, <2>2, <2>3, <2>4 DEF JobsNamed
<1>6. JobsFollow'
  <2>1. \A j \in Created : Alone(j)' => Alone(j)
    BY <1>3 DEF Alone
  <2>2. ASSUME Alone(i)', jobs[KeyOf(i)'].row # NoJob PROVE FALSE
    <3>1. KeyOf(i)' \in JobKey
      BY <1>o, <1>1 DEF KeyOf, JobKey, Request
    <3>2. PICK j \in Created : j = jobs[KeyOf(i)'].roadmap /\ KeyOf(j) = KeyOf(i)'
      BY <1>o, <2>2, <3>1 DEF JobsNamed
    <3> QED
      BY <1>2, <1>3, <2>2, <3>2 DEF Alone
  <2>3. \A j \in Created' : Alone(j)' /\ jobs'[KeyOf(j)'].row # NoJob =>
           Follows(jobs'[KeyOf(j)'].row, roadmaps'[j])
    BY <1>o, <1>1, <1>2, <1>3, <2>1, <2>2 DEF JobsFollow, Created
  <2>4. \A w \in Workers : wrk[w].pc # "idle" => Target(w) \in Created
    BY <1>o DEF JobsNamed, Claim, TypeInv, TypeOK, Message, Target
  <2>5. \A w \in Workers : wrk'[w].pc = "fail_roadmap" /\ Alone(Target(w))' =>
           jobs'[wrk'[w].msg.job].row.status = "dead_letter"
    BY <1>o, <1>1, <2>1, <2>4, <1>3 DEF JobsFollow
  <2> QED
    BY <2>3, <2>5 DEF JobsFollow, Follows, KeyOf
<1>7. PendingHasCarrier'
  <2> SUFFICES ASSUME losses' = 0, NEW k \in JobKey, jobs[k].row # NoJob
               PROVE  (LET id == jobs[k].roadmap
                       IN  /\ id \in Ids
                           /\ roadmaps[id].status = "pending" => HasCarrier(id))'
    BY <1>1 DEF PendingHasCarrier
  <2>1. PICK id \in Created : id = jobs[k].roadmap
    BY <1>o DEF JobsNamed
  <2>2. id \in Ids /\ roadmaps'[id] = roadmaps[id] /\ id # 0
    BY <1>1, <1>2, RoadmapConstants DEF Created
  <2>3. roadmaps[id].status = "pending" => HasCarrier(id)
    BY <1>o, <1>1, <2>1 DEF PendingHasCarrier
  <2>4. HasCarrier(id) => HasCarrier(id)'
    BY <1>o, <1>1, <1>3, <2>2 DEF HasCarrier
  <2> QED
    BY <1>1, <2>1, <2>2, <2>3, <2>4 DEF HasCarrier, Target
<1> QED
  BY <1>5, <1>6, <1>7 DEF JobInv

LEMMA RequestKeepsJobInv ==
    ASSUME JobInv, NEW c \in Clients,
           \/ \E u \in Users, k \in Keys \cup {NoKey} : Post(c, u, k)
           \/ RequestStep(c)
           \/ RequestDies(c)
    PROVE  JobInv'
<1>o. /\ Inv' /\ req \in [Clients -> Request] /\ losses \in 0 .. MaxFaults
      /\ req[c].pc \in {"idle", "create"} => req[c].roadmap = 0
  BY RequestStepKeepsInv DEF JobInv, Inv, TypeInv, TypeOK, RequestsNumbered
<1>b. ASSUME EndRequest(c)
      PROVE  req'[c].pc = "idle" /\ \A d \in Clients \ {c} : req'[d] = req[d]
  BY <1>o, <1>b DEF EndRequest, IdleRequest
<1>1. ASSUME NEW u \in Users, NEW k \in Keys \cup {NoKey}, Post(c, u, k)
      PROVE  JobInv'
  <2>1. /\ req'[c].pc = "create" /\ \A d \in Clients \ {c} : req'[d] = req[d]
        /\ req[c].pc = "idle"
        /\ UNCHANGED <<roadmaps, jobs, queue, wrk, losses>>
    BY <1>o, <1>1 DEF Post, IdleRequest
  <2> QED
    BY <1>o, <2>1, RequestEndsKeepJobInv
<1>2. CASE CreateRoadmap(c)
  BY <1>o, <1>2, CreateKeepsJobInv
<1>3. CASE FindJob(c)
  BY <1>o, <1>3, FindKeepsJobInv
<1>4. CASE InsertJob(c)
  <2>1. CASE jobs[RequestJob(c)].row = NoJob
    BY <1>o, <1>4, <2>1, InsertKeepsJobInv DEF InsertJob
  <2>2. CASE jobs[RequestJob(c)].row # NoJob
    BY <1>o, <1>b, <1>4, <2>2, RequestEndsKeepJobInv DEF InsertJob
  <2> QED
    BY <2>1, <2>2
<1>5. CASE Enqueue(c)
  <2> DEFINE m == [roadmap |-> req[c].roadmap, job |-> RequestJob(c), retries |-> 0]
  <2>1. /\ queue' = queue \cup {m}
        /\ m.roadmap = req[c].roadmap /\ m.job = RequestJob(c)
    BY <1>5 DEF Enqueue
  <2> HIDE DEF m
  <2> QED
    BY <1>o, <1>b, <1>5, <2>1, RequestEndsKeepJobInv DEF Enqueue
<1>6. CASE RequestDies(c)
  <2>1. losses' # 0
    BY <1>o, <1>6, RoadmapConstants DEF RequestDies
  <2> QED
    BY <1>o, <1>b, <1>6, <2>1, RequestEndsKeepJobInv DEF RequestDies
<1> QED
  BY <1>1, <1>2, <1>3, <1>4, <1>5, <1>6 DEF RequestStep

LEMMA JobInvInductive == JobInv /\ [Next]_vars => JobInv'
<1> SUFFICES ASSUME JobInv, [Next]_vars
             PROVE  JobInv'
  OBVIOUS
<1>1. CASE Next
  BY <1>1, RequestKeepsJobInv, WorkerKeepsJobInv DEF Next
<1>2. CASE UNCHANGED vars
  <2>1. Inv'
    BY <1>2, InvInductive DEF JobInv
  <2>2. JobsNamed'
    BY <1>2 DEF JobInv, JobsNamed, Claim, Created, KeyOf, RequestJob, Target, vars
  <2>3. JobsFollow'
    BY <1>2 DEF JobInv, JobsFollow, Alone, Created, KeyOf, Target, vars
  <2>4. PendingHasCarrier'
    BY <1>2 DEF JobInv, PendingHasCarrier, HasCarrier, Target, vars
  <2> QED
    BY <2>1, <2>2, <2>3, <2>4 DEF JobInv
<1> QED
  BY <1>1, <1>2

LEMMA JobInvariant == Spec => []JobInv
  BY JobInvInitial, JobInvInductive, PTL DEF Spec

(***************************************************************************)
(* Whoever inserts a job also publishes its task, and a worker gives the   *)
(* task up only after it has settled the roadmap: while nothing is lost,   *)
(* no pending roadmap with a job is forgotten.                             *)
(***************************************************************************)
THEOREM PendingIsCarried == Spec => []PendingHasCarrier
  BY JobInvariant, PTL DEF JobInv

\* The roadmaps of a key whose number is one are one.
LEMMA SharingAlone ==
    ASSUME Inv, JobsNamed, NEW k \in JobKey, Cardinality(Sharing(k)) = 1,
           jobs[k].row # NoJob
    PROVE  /\ jobs[k].roadmap \in Created /\ KeyOf(jobs[k].roadmap) = k
           /\ Alone(jobs[k].roadmap)
<1>1. PICK n \in 0 .. MaxRoadmaps : Created = 1 .. n
  BY DEF Inv, KeysInOrder
<1>2. IsFiniteSet(Sharing(k))
  <2>1. IsFiniteSet(1 .. n)
    BY FS_Interval
  <2>2. Sharing(k) \subseteq 1 .. n
    BY <1>1 DEF Sharing
  <2> QED
    BY <2>1, <2>2, FS_Subset
<1>3. \E x : Sharing(k) = {x}
  BY <1>2, FS_Singleton
<1>4. /\ jobs[k].roadmap \in Created /\ KeyOf(jobs[k].roadmap) = k
  BY DEF JobsNamed
<1>5. \A j \in Created : KeyOf(j) = k => j \in Sharing(k)
  BY DEF Sharing, KeyOf
<1> QED
  BY <1>3, <1>4, <1>5 DEF Alone

(***************************************************************************)
(* A client that polls the job and one that polls the roadmap agree, for a *)
(* key that one roadmap was requested with: the two commits that settle    *)
(* them cannot be torn apart by retries, interrupts or losses.             *)
(***************************************************************************)
THEOREM JobTellsTheRoadmap == Spec => []JobAndRoadmapAgree
<1>1. ASSUME JobInv PROVE JobAndRoadmapAgree
  <2> SUFFICES ASSUME NEW k \in JobKey, Cardinality(Sharing(k)) = 1,
                      jobs[k].row # NoJob
               PROVE  Follows(jobs[k].row, roadmaps[jobs[k].roadmap])
    BY DEF JobAndRoadmapAgree, Follows
  <2>1. /\ jobs[k].roadmap \in Created /\ KeyOf(jobs[k].roadmap) = k
        /\ Alone(jobs[k].roadmap)
    BY <1>1, SharingAlone DEF JobInv
  <2> QED
    BY <1>1, <2>1 DEF JobInv, JobsFollow
<1> QED
  BY <1>1, JobInvariant, PTL

-----------------------------------------------------------------------------
\* What the user who polls the roadmap id sees of it.
Seen(id) == [status |-> roadmaps[id].status, contract |-> roadmaps[id].steps]

\* What the users see of all roadmaps: the ledger of the refinement.
AllSeen == [id \in Ids |-> Seen(id)]

LEMMA InitialLedger == Init => Ledger!Init
  BY DEF Init, NoRoadmap, Ledger!Init, Ledger!Absent

\* A step that writes one roadmap moves the ledger at that roadmap alone.
LEMMA LedgerMoves ==
    ASSUME NEW id \in Ids, \A i \in Ids \ {id} : roadmaps'[i] = roadmaps[i]
    PROVE  AllSeen' = [AllSeen EXCEPT ![id] = Seen(id)']
  BY DEF AllSeen, Seen

\* A request adds its roadmap to the ledger.
LEMMA CreateRequests ==
    ASSUME Inv, NEW c \in Clients, CreateRoadmap(c)
    PROVE  Ledger!Next
<1>1. TypeInv /\ KeysInOrder /\ RowsWhole /\ roadmaps \in [Ids -> Roadmap]
  BY DEF Inv, TypeInv, TypeOK
<1>2. PICK id \in Ids : /\ id = Cardinality(Created) + 1
                        /\ roadmaps' = [roadmaps EXCEPT ![id] = NewRoadmap(c)]
  BY DEF CreateRoadmap, NewRoadmap
<1>3. id \notin Created
  BY <1>1, <1>2, NextKeyIsFree
<1>4. Seen(id) = [status |-> "none", contract |-> "none"]
  BY <1>1, <1>2, <1>3 DEF Seen, Created, RowsWhole
<1>5. Seen(id)' = [status |-> "pending", contract |-> "none"]
  BY <1>1, <1>2 DEF Seen, NewRoadmap
<1>6. AllSeen' = [AllSeen EXCEPT ![id] = Seen(id)']
  BY <1>1, <1>2, LedgerMoves
<1>7. AllSeen[id] = Seen(id)
  BY <1>2 DEF AllSeen
<1>8. AllSeen' = [AllSeen EXCEPT ![id].status = "pending"]
  <2>1. [AllSeen[id] EXCEPT !.status = "pending"]
           = [status |-> "pending", contract |-> "none"]
    BY <1>4, <1>7
  <2> QED
    BY <1>5, <1>6, <2>1
<1>9. Ledger!Request(id)
  BY <1>4, <1>7, <1>8 DEF Ledger!Request, AllSeen, Seen
<1> QED
  BY <1>2, <1>9 DEF Ledger!Next

\* A worker that applies a contract delivers it.
LEMMA ApplyDelivers ==
    ASSUME Inv, NEW w \in Workers, ApplyContract(w)
    PROVE  Ledger!Next
<1>1. PICK id \in Ids, c \in Steps \ {"none"} :
         /\ id = Target(w) /\ c = wrk[w].steps /\ Fresh(roadmaps[id])
         /\ roadmaps \in [Ids -> Roadmap]
  BY Owners DEF Inv, Phases, TaskPhase, TypeInv, TypeOK, TasksEquipped, Task,
     ApplyContract
<1>2. roadmaps' = [roadmaps EXCEPT ![id] =
                      [@ EXCEPT !.status = "completed", !.steps = c]]
  BY <1>1 DEF ApplyContract
<1>4. Seen(id) = [status |-> "pending", contract |-> "none"]
  BY <1>1 DEF Seen, Fresh
<1>5. Seen(id)' = [status |-> "completed", contract |-> c]
  BY <1>1, <1>2 DEF Seen, Roadmap
<1>6. AllSeen' = [AllSeen EXCEPT ![id] = Seen(id)']
  BY <1>1, <1>2, LedgerMoves
<1>7. AllSeen[id] = Seen(id)
  BY <1>1 DEF AllSeen
<1>8. Ledger!Deliver(id, c)
  BY <1>4, <1>5, <1>6, <1>7 DEF Ledger!Deliver, AllSeen, Seen
<1> QED
  BY <1>1, <1>8 DEF Ledger!Next

\* A worker that gives up reports the failure.
LEMMA GivingUpFails ==
    ASSUME Inv, NEW w \in Workers, FailRoadmap(w)
    PROVE  Ledger!Next
<1>1. PICK id \in Ids :
         /\ id = Target(w) /\ (Fresh(roadmaps[id]) \/ Delivered(roadmaps[id]))
         /\ roadmaps \in [Ids -> Roadmap]
  BY Owners DEF Inv, Phases, TaskPhase, TypeInv, TypeOK, FailRoadmap
<1>2. roadmaps' = [roadmaps EXCEPT ![id].status = "failed"]
  BY <1>1 DEF FailRoadmap
<1>4. Seen(id).status \in {"pending", "completed"}
  BY <1>1 DEF Seen, Fresh, Delivered
<1>5. Seen(id)' = [Seen(id) EXCEPT !.status = "failed"]
  BY <1>1, <1>2 DEF Seen, Roadmap
<1>6. AllSeen' = [AllSeen EXCEPT ![id] = Seen(id)']
  BY <1>1, <1>2, LedgerMoves
<1>7. AllSeen[id] = Seen(id)
  BY <1>1 DEF AllSeen
<1>8. Ledger!Fail(id)
  BY <1>4, <1>5, <1>6, <1>7 DEF Ledger!Fail, AllSeen, Seen
<1> QED
  BY <1>1, <1>8 DEF Ledger!Next

\* A step of Roadmaps is a step of RoadmapLedger, or changes nothing seen.
LEMMA LedgerStep ==
    ASSUME Inv, [Next]_vars
    PROVE  Ledger!Next \/ AllSeen' = AllSeen
<1>1. ASSUME UNCHANGED roadmaps
      PROVE  AllSeen' = AllSeen
  BY <1>1 DEF AllSeen, Seen
<1>2. ASSUME NEW c \in Clients,
             \/ \E u \in Users, k \in Keys \cup {NoKey} : Post(c, u, k)
             \/ RequestStep(c)
             \/ RequestDies(c)
      PROVE  CreateRoadmap(c) \/ UNCHANGED roadmaps
  BY <1>2 DEF Post, RequestStep, FindJob, InsertJob, Enqueue, RequestDies
<1>3. ASSUME NEW w \in Workers, WorkerStep(w) \/ Interrupt(w) \/ Crash(w)
      PROVE  ApplyContract(w) \/ FailRoadmap(w) \/ UNCHANGED roadmaps
  <2>1. CASE SetPending(w)
    <3>1. wrk[w].status = "pending"
      BY <2>1 DEF SetPending, Inv, Phases, TaskPhase
    <3> QED
      BY <2>1, <3>1 DEF SetPending
  <2> QED
    BY <1>3, <2>1 DEF WorkerStep, Take, MarkRunning, LoadRoadmap, Generate,
       GenerateFails, MarkCompleted, Finish, FailJob, Republish, Interrupt, Crash
<1>4. CASE Next
  BY <1>1, <1>2, <1>3, <1>4, CreateRequests, ApplyDelivers, GivingUpFails DEF Next
<1>5. CASE UNCHANGED vars
  BY <1>1, <1>5 DEF vars
<1> QED
  BY <1>4, <1>5

(***************************************************************************)
(* What a user sees of the roadmaps is what RoadmapLedger promises: each   *)
(* is requested once, a contract is delivered once and never exchanged,    *)
(* and a failure is final.                                                 *)
(***************************************************************************)
THEOREM LedgerIsKept == Spec => LedgerKept
<1>1. ASSUME Inv, [Next]_vars
      PROVE  [Ledger!Next]_(AllSeen)
  BY <1>1, LedgerStep
<1> QED
  BY <1>1, InitialLedger, Invariant, PTL DEF Spec, LedgerKept, Ledger!Spec, AllSeen, Seen
=============================================================================
