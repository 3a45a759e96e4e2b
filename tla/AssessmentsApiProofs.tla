------------------------ MODULE AssessmentsApiProofs ------------------------
(***************************************************************************)
(* Type correctness of AssessmentsApi and the two facts about a user that  *)
(* overlapping requests could break: the counter stays within the limit    *)
(* and the snapshots are numbered without a gap.  Of requests that come    *)
(* one at a time, also that the counter accounts for what was created.     *)
(* The step lemmas are about ApiNext alone, so ScorePipelineProofs can use *)
(* them as well.                                                           *)
(***************************************************************************)
EXTENDS AssessmentsApi, FiniteSetTheorems, TLAPS

(***************************************************************************)
(* A request that is about to charge read a count below the limit.         *)
(***************************************************************************)
ChargeBelowLimit ==
    \A c \in Clients :
        req[c].pc = "charge" => req[c].read < FreeLimit /\ FreeLimit > 0

(***************************************************************************)
(* A request that is about to insert has read 0 or a version that exists.  *)
(* It may be stale: other requests add versions meanwhile.                 *)
(***************************************************************************)
VersionReadExists ==
    \A c \in Clients :
        req[c].pc = "insert" =>
            req[c].snap \in snapshots[Owner(req[c].id)] \cup {0}

ApiInv ==
    /\ ApiTypeOK
    /\ CounterWithinLimit
    /\ ChargeBelowLimit
    /\ SnapshotPerAssessment
    /\ VersionReadExists

-----------------------------------------------------------------------------
(***************************************************************************)
(* The rows a user has are finitely many, because the keys are.            *)
(***************************************************************************)
LEMMA CreatedFinite ==
    ASSUME NEW u \in Users
    PROVE  IsFiniteSet(Created(u)) /\ Cardinality(Created(u)) \in Nat
<1>1. IsFiniteSet({u} \X Keys)
  BY FS_Singleton, FS_Product, ApiAssumption
<1>2. Created(u) \subseteq {u} \X Keys
  BY DEF Created, Ids, Owner
<1> QED
  BY <1>1, <1>2, FS_Subset, FS_CardinalityType

(***************************************************************************)
(* get_latest_snapshot_version of versions 1 .. n is n.                    *)
(***************************************************************************)
LEMMA LatestOfRun ==
    ASSUME NEW u \in Users, NEW n \in Nat, snapshots[u] = 1 .. n
    PROVE  LatestSnapshot(u) = n
<1>1. CASE n = 0
  BY <1>1 DEF LatestSnapshot
<1>2. CASE n # 0
  <2>1. n \in snapshots[u] /\ \A x \in snapshots[u] : n >= x
    BY <1>2
  <2>2. \A v \in snapshots[u] :
          (\A x \in snapshots[u] : v >= x) => v = n
    BY <2>1
  <2> QED
    BY <2>1, <2>2, <1>2 DEF LatestSnapshot
<1> QED
  BY <1>1, <1>2

LEMMA OwnerIsUser ==
    ASSUME NEW id \in Ids PROVE Owner(id) \in Users
BY DEF Ids, Owner

-----------------------------------------------------------------------------
LEMMA ApiInvInit == ApiInit => ApiInv
<1> SUFFICES ASSUME ApiInit PROVE ApiInv
  OBVIOUS
<1> USE ApiAssumption
<1>1. ApiTypeOK
  BY DEF ApiInit, ApiTypeOK, Request, IdleRequest, ReqPc, Job, NoJob, NoId,
         NoCounter
<1>2. CounterWithinLimit /\ ChargeBelowLimit /\ VersionReadExists
  BY DEF ApiInit, CounterWithinLimit, ChargeBelowLimit, VersionReadExists,
         IdleRequest, NoCounter
<1>3. SnapshotPerAssessment
  <2>1. \A u \in Users : Created(u) = {}
    BY DEF ApiInit, Created
  <2> QED
    BY <2>1, FS_EmptySet DEF ApiInit, SnapshotPerAssessment
<1> QED
  BY <1>1, <1>2, <1>3 DEF ApiInv

(***************************************************************************)
(* The rows the snapshot numbering is about do not change.                 *)
(***************************************************************************)
LEMMA SnapshotsUnchanged ==
    SnapshotPerAssessment /\ UNCHANGED <<snapshots, assessments>>
        => SnapshotPerAssessment'
BY DEF SnapshotPerAssessment, Created

(***************************************************************************)
(* A request that moves on keeps the type of the requests.                 *)
(***************************************************************************)
RequestTypes ==
    /\ req \in [Clients -> Request]
    /\ \A c \in Clients : req[c].pc # "idle" => req[c].id \in Ids

LEMMA RequestWritten ==
    ASSUME RequestTypes, NEW c \in Clients, NEW r \in Request,
           r.pc # "idle" => r.id \in Ids, req' = [req EXCEPT ![c] = r]
    PROVE  RequestTypes'
BY DEF RequestTypes

LEMMA RequestAdvances ==
    ASSUME RequestTypes, NEW c \in Clients, req[c].pc # "idle",
           NEW p \in ReqPc, Goto(c, p)
    PROVE  RequestTypes'
BY DEF RequestTypes, Goto, Request

LEMMA RequestEnds ==
    ASSUME RequestTypes, NEW c \in Clients, Finish(c)
    PROVE  RequestTypes'
<1>1. IdleRequest \in Request /\ IdleRequest.pc = "idle"
  BY DEF IdleRequest, Request, ReqPc, AssessmentStatus, NoCounter
<1> QED
  BY <1>1, RequestWritten DEF Finish

(***************************************************************************)
(* Every step of a request keeps the types.                                *)
(***************************************************************************)
LEMMA ApiTypeStep ==
    ASSUME ApiInv, ApiNext PROVE ApiTypeOK'
<1> USE ApiAssumption
<1>0. /\ used \in [Users -> Nat \cup {NoCounter}]
      /\ snapshots \in [Users -> SUBSET Nat]
      /\ assessments \in [Ids -> AssessmentStatus \cup {"absent"}]
      /\ jobs \in [Ids -> Job \cup {NoJob}]
      /\ queue \subseteq Message
      /\ dispatches \in [Ids -> Nat]
      /\ RequestTypes
      /\ posts \in 0 .. MaxPosts
      /\ faults \in 0 .. MaxFaults
  BY DEF ApiInv, ApiTypeOK, RequestTypes
<1>a. PICK c \in Clients :
        \/ \E id \in Ids, program \in Programs : Post(c, id, program)
        \/ RequestStep(c)
        \/ RequestDies(c)
  BY DEF ApiNext
<1>b. /\ req[c] \in Request
      /\ req[c].pc # "idle" => req[c].id \in Ids /\ Owner(req[c].id) \in Users
  BY <1>0, OwnerIsUser DEF RequestTypes
<1>c. SUFFICES
        /\ used' \in [Users -> Nat \cup {NoCounter}]
        /\ snapshots' \in [Users -> SUBSET Nat]
        /\ assessments' \in [Ids -> AssessmentStatus \cup {"absent"}]
        /\ jobs' \in [Ids -> Job \cup {NoJob}]
        /\ queue' \subseteq Message
        /\ dispatches' \in [Ids -> Nat]
        /\ RequestTypes'
        /\ posts' \in 0 .. MaxPosts
        /\ faults' \in 0 .. MaxFaults
  BY DEF ApiTypeOK, RequestTypes
<1>1. ASSUME NEW id \in Ids, NEW program \in Programs, Post(c, id, program)
      PROVE  RequestTypes' /\ posts' \in 0 .. MaxPosts
  <2> DEFINE fresh == [IdleRequest EXCEPT !.pc = "quota", !.id = id,
                                          !.program = program]
             known == [IdleRequest EXCEPT !.pc = "find_job", !.id = id,
                                          !.seen = assessments[id]]
  <2>1. /\ fresh \in Request /\ fresh.id = id
        /\ known \in Request /\ known.id = id
    BY <1>0 DEF Request, ReqPc, IdleRequest, NoCounter, AssessmentStatus
  <2>2. req' = [req EXCEPT ![c] = fresh] \/ req' = [req EXCEPT ![c] = known]
    BY <1>1 DEF Post
  <2>3. posts' \in 0 .. MaxPosts
    BY <1>0, <1>1 DEF Post
  <2> HIDE DEF fresh, known
  <2> QED
    BY <1>0, <2>1, <2>2, <2>3, RequestWritten
<1>2. ASSUME ReadQuota(c) PROVE RequestTypes'
  <2>1. CASE Goto(c, "snapshot") \/ Finish(c)
    BY <1>0, <1>2, <2>1, RequestAdvances, RequestEnds DEF ReadQuota, ReqPc
  <2>2. CASE req' = [req EXCEPT ![c].pc = "charge",
                                ![c].read = used[Owner(req[c].id)]]
    <3> DEFINE r == [req[c] EXCEPT !.pc = "charge",
                                   !.read = used[Owner(req[c].id)]]
    <3>1. r \in Request /\ r.id \in Ids
      BY <1>0, <1>b, <1>2 DEF ReadQuota, Request, ReqPc
    <3>2. req' = [req EXCEPT ![c] = r]
      BY <1>0, <2>2 DEF RequestTypes
    <3> HIDE DEF r
    <3> QED
      BY <1>0, <3>1, <3>2, RequestWritten
  <2> QED
    BY <1>2, <2>1, <2>2 DEF ReadQuota
<1>3. ASSUME CommitQuota(c)
      PROVE  RequestTypes' /\ used' \in [Users -> Nat \cup {NoCounter}]
  <2>1. RequestTypes'
    BY <1>0, <1>3, RequestAdvances, RequestEnds DEF CommitQuota, ReqPc
  <2>2. (IF req[c].read = NoCounter THEN 1 ELSE req[c].read + 1) \in Nat
    BY <1>b DEF Request, NoCounter
  <2> QED
    BY <1>0, <1>b, <1>3, <2>1, <2>2 DEF CommitQuota
<1>4. ASSUME ReadSnapshotVersion(c) PROVE RequestTypes'
  <2>1. req[c].id \in Ids
    BY <1>b, <1>4 DEF ReadSnapshotVersion
  <2>2. LatestSnapshot(Owner(req[c].id)) \in Nat
    BY <2>1, OwnerIsUser, CreatedFinite, LatestOfRun
       DEF ApiInv, SnapshotPerAssessment
  <2> DEFINE r == [req[c] EXCEPT !.pc = "insert",
                                 !.snap = LatestSnapshot(Owner(req[c].id))]
  <2>3. r \in Request /\ r.id \in Ids
    BY <1>b, <2>1, <2>2 DEF Request, ReqPc
  <2>4. req' = [req EXCEPT ![c] = r]
    BY <1>0, <1>4 DEF ReadSnapshotVersion, RequestTypes
  <2> HIDE DEF r
  <2> QED
    BY <1>0, <2>3, <2>4, RequestWritten
<1>5. ASSUME InsertAssessment(c)
      PROVE  /\ RequestTypes'
             /\ snapshots' \in [Users -> SUBSET Nat]
             /\ assessments' \in [Ids -> AssessmentStatus \cup {"absent"}]
  <2>1. RequestTypes'
    BY <1>0, <1>5, RequestAdvances, RequestEnds DEF InsertAssessment, ReqPc
  <2>2. req[c].snap + 1 \in Nat
    BY <1>b DEF Request
  <2>3. snapshots' \in [Users -> SUBSET Nat]
    BY <1>0, <1>b, <1>5, <2>2 DEF InsertAssessment
  <2> QED
    BY <1>0, <1>5, <2>1, <2>3 DEF InsertAssessment, AssessmentStatus
<1>6. ASSUME RefreshAssessment(c) PROVE RequestTypes'
  <2> DEFINE r == [req[c] EXCEPT !.pc = "find_job",
                                 !.seen = assessments[req[c].id]]
  <2>1. r \in Request /\ r.id \in Ids
    BY <1>0, <1>b, <1>6 DEF RefreshAssessment, Request, ReqPc
  <2>2. req' = [req EXCEPT ![c] = r]
    BY <1>0, <1>6 DEF RefreshAssessment, RequestTypes
  <2> HIDE DEF r
  <2> QED
    BY <1>0, <2>1, <2>2, RequestWritten
<1>7. ASSUME FindJob(c) PROVE RequestTypes'
  BY <1>0, <1>7, RequestAdvances DEF FindJob, ReqPc
<1>8. ASSUME InsertJob(c)
      PROVE  RequestTypes' /\ jobs' \in [Ids -> Job \cup {NoJob}]
  <2>1. RequestTypes'
    BY <1>0, <1>8, RequestAdvances, RequestEnds DEF InsertJob, ReqPc
  <2> QED
    BY <1>0, <1>8, <2>1 DEF InsertJob, Job, JobStatus, NewJob
<1>9. ASSUME Enqueue(c)
      PROVE  /\ RequestTypes'
             /\ queue' \subseteq Message
             /\ dispatches' \in [Ids -> Nat]
  <2>1. RequestTypes'
    BY <1>0, <1>9, RequestEnds DEF Enqueue
  <2>2. [id |-> req[c].id, dispatch |-> dispatches[req[c].id], retries |-> 0]
           \in Message
    BY <1>0, <1>b, <1>9 DEF Enqueue, Message
  <2> QED
    BY <1>0, <1>9, <2>1, <2>2 DEF Enqueue
<1>10. ASSUME RequestDies(c)
       PROVE  RequestTypes' /\ faults' \in 0 .. MaxFaults
  BY <1>0, <1>10, RequestEnds DEF RequestDies
<1>11. CASE \E id \in Ids, program \in Programs : Post(c, id, program)
  BY <1>0, <1>1, <1>11 DEF Post
<1>12. CASE ReadQuota(c)
  BY <1>0, <1>2, <1>12 DEF ReadQuota
<1>13. CASE CommitQuota(c)
  BY <1>0, <1>3, <1>13 DEF CommitQuota
<1>14. CASE ReadSnapshotVersion(c)
  BY <1>0, <1>4, <1>14 DEF ReadSnapshotVersion
<1>15. CASE InsertAssessment(c)
  BY <1>0, <1>5, <1>15 DEF InsertAssessment
<1>16. CASE RefreshAssessment(c)
  BY <1>0, <1>6, <1>16 DEF RefreshAssessment
<1>17. CASE FindJob(c)
  BY <1>0, <1>7, <1>17 DEF FindJob
<1>18. CASE InsertJob(c)
  BY <1>0, <1>8, <1>18 DEF InsertJob
<1>19. CASE Enqueue(c)
  BY <1>0, <1>9, <1>19 DEF Enqueue
<1>20. CASE RequestDies(c)
  BY <1>0, <1>10, <1>20 DEF RequestDies
<1> QED
  BY <1>a, <1>11, <1>12, <1>13, <1>14, <1>15, <1>16, <1>17, <1>18, <1>19, <1>20
     DEF RequestStep

(***************************************************************************)
(* The counter stays within the limit: the value written is one more than  *)
(* a count that was below the limit when it was read, however old it is.   *)
(***************************************************************************)
LEMMA CounterStep ==
    ASSUME ApiInv, ApiNext
    PROVE  CounterWithinLimit' /\ ChargeBelowLimit'
<1> USE ApiAssumption DEF ApiInv, ApiTypeOK, Request, NoCounter
<1>a. PICK c \in Clients :
        \/ \E id \in Ids, program \in Programs : Post(c, id, program)
        \/ RequestStep(c)
        \/ RequestDies(c)
  BY DEF ApiNext
<1> USE DEF CounterWithinLimit, ChargeBelowLimit, Goto, Finish, IdleRequest
<1>1. ASSUME NEW id \in Ids, NEW program \in Programs, Post(c, id, program)
      PROVE  CounterWithinLimit' /\ ChargeBelowLimit'
  BY <1>1 DEF Post
<1>2. CASE ReadQuota(c)
  BY <1>2, OwnerIsUser DEF ReadQuota
<1>3. CASE CommitQuota(c)
  BY <1>3, OwnerIsUser DEF CommitQuota
<1>4. CASE ReadSnapshotVersion(c)
  BY <1>4 DEF ReadSnapshotVersion
<1>5. CASE InsertAssessment(c)
  <2>1. \A d \in Clients : req'[d].pc = "charge" => req'[d] = req[d]
    BY <1>5 DEF InsertAssessment
  <2>2. used' = used
    BY <1>5 DEF InsertAssessment
  <2> QED
    BY <2>1, <2>2
<1>6. CASE RefreshAssessment(c)
  BY <1>6 DEF RefreshAssessment
<1>7. CASE FindJob(c)
  BY <1>7 DEF FindJob
<1>8. CASE InsertJob(c)
  BY <1>8 DEF InsertJob
<1>9. CASE Enqueue(c)
  BY <1>9 DEF Enqueue
<1>10. CASE RequestDies(c)
  BY <1>10 DEF RequestDies
<1> QED
  BY <1>a, <1>1, <1>2, <1>3, <1>4, <1>5, <1>6, <1>7, <1>8, <1>9, <1>10
     DEF RequestStep

(***************************************************************************)
(* The numbering of the snapshots survives an insert with a stale version: *)
(* a version that exists already is refused by the unique constraint, and  *)
(* the only other one a request can hold is the next.  An insert that is   *)
(* refused for its program undoes the snapshot as well.                    *)
(***************************************************************************)
LEMMA InsertKeepsNumbering ==
    ASSUME ApiInv, NEW c \in Clients, InsertAssessment(c)
    PROVE  SnapshotPerAssessment' /\ VersionReadExists'
<1> DEFINE id == req[c].id
           u  == Owner(id)
           version == req[c].snap + 1
           refused == \/ version \in snapshots[u] \/ assessments[id] # "absent"
                      \/ req[c].program \notin StoredPrograms
<1>0. id \in Ids /\ u \in Users /\ req[c].snap \in Nat
  BY OwnerIsUser DEF ApiInv, ApiTypeOK, Request, InsertAssessment
<1>1. CASE refused
  <2>1. UNCHANGED <<snapshots, assessments>>
    BY <1>1 DEF InsertAssessment
  <2>2. req' = [req EXCEPT ![c] = IdleRequest]
    BY <1>1 DEF InsertAssessment, Finish
  <2>3. VersionReadExists'
    BY <2>1, <2>2 DEF ApiInv, ApiTypeOK, VersionReadExists, IdleRequest
  <2> QED
    BY <2>1, <2>3, SnapshotsUnchanged DEF ApiInv
<1>2. CASE ~refused
  <2> DEFINE n == Cardinality(Created(u))
  <2>1. /\ snapshots' = [snapshots EXCEPT ![u] = @ \cup {version}]
        /\ assessments' = [assessments EXCEPT ![id] = "pending"]
        /\ req' = [req EXCEPT ![c].pc = "refresh"]
    BY <1>2 DEF InsertAssessment, Goto
  <2>2. n \in Nat /\ IsFiniteSet(Created(u)) /\ snapshots[u] = 1 .. n
    BY <1>0, CreatedFinite DEF ApiInv, SnapshotPerAssessment
  <2>3. req[c].snap \in (1 .. n) \cup {0}
    BY <2>2 DEF ApiInv, VersionReadExists, InsertAssessment
  <2>4. version = n + 1
    BY <1>2, <2>2, <2>3
  <2>5. snapshots'[u] = 1 .. (n + 1)
    BY <1>0, <2>1, <2>2, <2>4 DEF ApiInv, ApiTypeOK
  <2>6. id \notin Created(u)
    BY <1>2 DEF Created
  <2>7. \A x \in Users :
          Created(x)' = IF x = u THEN Created(u) \cup {id} ELSE Created(x)
    BY <1>0, <2>1 DEF Created, ApiInv, ApiTypeOK
  <2>8. Cardinality(Created(u) \cup {id}) = n + 1
    BY <2>2, <2>6, FS_AddElement
  <2>9. SnapshotPerAssessment'
    <3> SUFFICES ASSUME NEW x \in Users
                 PROVE  snapshots'[x] = 1 .. Cardinality(Created(x)')
      BY DEF SnapshotPerAssessment
    <3>1. CASE x = u
      <4>1. Created(x)' = Created(u) \cup {id}
        BY <2>7, <3>1
      <4> QED
        BY <2>5, <2>8, <3>1, <4>1
    <3>2. CASE x # u
      <4>1. Created(x)' = Created(x)
        BY <2>7, <3>2
      <4>2. snapshots'[x] = snapshots[x]
        BY <1>0, <2>1, <3>2 DEF ApiInv, ApiTypeOK
      <4> QED
        BY <4>1, <4>2 DEF ApiInv, SnapshotPerAssessment
    <3> QED
      BY <3>1, <3>2
  <2>10. \A x \in Users : snapshots[x] \subseteq snapshots'[x]
    BY <1>0, <2>1 DEF ApiInv, ApiTypeOK
  <2>11. VersionReadExists'
    BY <2>1, <2>10, OwnerIsUser
       DEF ApiInv, ApiTypeOK, VersionReadExists, Request
  <2> QED
    BY <2>9, <2>11
<1> QED
  BY <1>1, <1>2

LEMMA NumberingStep ==
    ASSUME ApiInv, ApiNext
    PROVE  SnapshotPerAssessment' /\ VersionReadExists'
<1> USE DEF ApiInv, ApiTypeOK, Request, Goto, Finish, IdleRequest
<1>a. PICK c \in Clients :
        \/ \E id \in Ids, program \in Programs : Post(c, id, program)
        \/ RequestStep(c)
        \/ RequestDies(c)
  BY DEF ApiNext
<1>1. ASSUME NEW id \in Ids, NEW program \in Programs, Post(c, id, program)
      PROVE  SnapshotPerAssessment' /\ VersionReadExists'
  <2>1. \A d \in Clients : req'[d].pc = "insert" => req'[d] = req[d]
    BY <1>1 DEF Post
  <2>2. UNCHANGED <<snapshots, assessments>>
    BY <1>1 DEF Post
  <2> QED
    BY <2>1, <2>2, SnapshotsUnchanged DEF VersionReadExists
<1>2. CASE ReadQuota(c)
  BY <1>2, SnapshotsUnchanged DEF ReadQuota, VersionReadExists
<1>3. CASE CommitQuota(c)
  BY <1>3, SnapshotsUnchanged DEF CommitQuota, VersionReadExists
<1>4. CASE ReadSnapshotVersion(c)
  <2> DEFINE u == Owner(req[c].id)
             n == Cardinality(Created(u))
  <2>1. u \in Users
    BY <1>4, OwnerIsUser DEF ReadSnapshotVersion
  <2>2. n \in Nat /\ snapshots[u] = 1 .. n
    BY <2>1, CreatedFinite DEF SnapshotPerAssessment
  <2>3. LatestSnapshot(u) = n
    BY <2>1, <2>2, LatestOfRun
  <2>4. n \in snapshots[u] \cup {0}
    BY <2>2
  <2> QED
    BY <1>4, <2>3, <2>4, SnapshotsUnchanged
       DEF ReadSnapshotVersion, VersionReadExists
<1>5. CASE InsertAssessment(c)
  BY <1>5, InsertKeepsNumbering
<1>6. CASE RefreshAssessment(c)
  BY <1>6, SnapshotsUnchanged DEF RefreshAssessment, VersionReadExists
<1>7. CASE FindJob(c)
  BY <1>7, SnapshotsUnchanged DEF FindJob, VersionReadExists
<1>8. CASE InsertJob(c)
  BY <1>8, SnapshotsUnchanged DEF InsertJob, VersionReadExists
<1>9. CASE Enqueue(c)
  BY <1>9, SnapshotsUnchanged DEF Enqueue, VersionReadExists
<1>10. CASE RequestDies(c)
  BY <1>10, SnapshotsUnchanged DEF RequestDies, VersionReadExists
<1> QED
  BY <1>a, <1>1, <1>2, <1>3, <1>4, <1>5, <1>6, <1>7, <1>8, <1>9, <1>10
     DEF RequestStep

-----------------------------------------------------------------------------
LEMMA ApiInvStep == ApiInv /\ [ApiNext]_apiVars => ApiInv'
<1> SUFFICES ASSUME ApiInv, [ApiNext]_apiVars PROVE ApiInv'
  OBVIOUS
<1>1. CASE ApiNext
  BY <1>1, ApiTypeStep, CounterStep, NumberingStep DEF ApiInv
<1>2. CASE UNCHANGED apiVars
  BY <1>2 DEF apiVars, ApiInv, ApiTypeOK, CounterWithinLimit,
       ChargeBelowLimit, SnapshotPerAssessment, VersionReadExists, Created
<1> QED
  BY <1>1, <1>2

LEMMA ApiInvariant == ApiSpec => []ApiInv
<1> QED
  BY ApiInvInit, ApiInvStep, PTL DEF ApiSpec

(***************************************************************************)
(* Every row, message and request of create_assessment keeps its type.     *)
(***************************************************************************)
THEOREM ApiTypeCorrect == ApiSpec => []ApiTypeOK
<1>1. ApiInv => ApiTypeOK
  BY DEF ApiInv
<1> QED
  BY <1>1, ApiInvariant, PTL

(***************************************************************************)
(* consume_assessment_quota never writes a counter above the limit, for    *)
(* any number of overlapping requests.                                     *)
(***************************************************************************)
THEOREM CounterBounded == ApiSpec => []CounterWithinLimit
<1>1. ApiInv => CounterWithinLimit
  BY DEF ApiInv
<1> QED
  BY <1>1, ApiInvariant, PTL

(***************************************************************************)
(* The snapshots of a user are numbered 1 .. n, one for each of the n      *)
(* assessments, for any number of overlapping requests.                    *)
(***************************************************************************)
THEOREM SnapshotsNumbered == ApiSpec => []SnapshotPerAssessment
<1>1. ApiInv => SnapshotPerAssessment
  BY DEF ApiInv
<1> QED
  BY <1>1, ApiInvariant, PTL

-----------------------------------------------------------------------------
(***************************************************************************)
(* Requests that come one at a time, in one session each.  What overlaps   *)
(* nobody's commits is still current when it is used: the key is unused,   *)
(* the count is the counter and the version is the latest.  The program is *)
(* one of those clients send, stored or not.                               *)
(***************************************************************************)
OneRequest == \A c, d \in Clients : c = d

\* Clients only name programs there is a row for.
ProgramsStored == Programs \subseteq StoredPrograms

Count(u) == IF used[u] = NoCounter THEN 0 ELSE used[u]

ReadsCurrent ==
    \A c \in Clients :
        LET id == req[c].id
        IN  /\ req[c].pc \in {"quota", "charge", "snapshot", "insert"} =>
                   assessments[id] = "absent" /\ req[c].program \in Programs
            /\ req[c].pc = "charge" => req[c].read = used[Owner(id)]
            /\ req[c].pc = "insert" => req[c].snap + 1 \notin snapshots[Owner(id)]

\* n charges that nothing was created for: none but those of requests that
\* died, unless a program may be unknown.
Accounted(n) == n \in Nat /\ (ProgramsStored => n <= faults)

\* Each assessment is counted once.
QuotaAccounted ==
    \A u \in Users \ ProUsers :
        Accounted(Count(u) - Cardinality(Created(u)) - Cardinality(Paid(u)))

SerialInv == ReadsCurrent /\ QuotaAccounted

\* The only request there can be, as a number: has it paid for u?
PaidBy(c, u) ==
    IF req[c].pc \in {"snapshot", "insert"} /\ Owner(req[c].id) = u
    THEN 1 ELSE 0

LEMMA PaidIsOne ==
    ASSUME OneRequest, NEW c \in Clients
    PROVE  \A u : /\ Cardinality(Paid(u)) = PaidBy(c, u)
                  /\ Cardinality(Paid(u)') = PaidBy(c, u)'
<1> TAKE u
<1>0. \A d \in Clients : d = c
  BY DEF OneRequest
<1>1. Paid(u) = IF PaidBy(c, u) = 1 THEN {c} ELSE {}
  BY <1>0 DEF Paid, PaidBy
<1>2. Paid(u)' = IF PaidBy(c, u)' = 1 THEN {c} ELSE {}
  BY <1>0 DEF Paid, PaidBy
<1>3. PaidBy(c, u) \in {0, 1} /\ PaidBy(c, u)' \in {0, 1}
  BY DEF PaidBy
<1>4. Cardinality({c}) = 1 /\ Cardinality({}) = 0
  BY FS_Singleton, FS_EmptySet
<1> QED
  BY <1>1, <1>2, <1>3, <1>4

LEMMA OneRequestPays ==
    ASSUME OneRequest
    PROVE  \A u : Cardinality(Paid(u)) \in {0, 1}
<1>1. CASE Clients = {}
  BY <1>1, FS_EmptySet DEF Paid
<1>2. ASSUME NEW c \in Clients
      PROVE  \A u : Cardinality(Paid(u)) \in {0, 1}
  BY PaidIsOne DEF PaidBy
<1> QED
  BY <1>1, <1>2

\* Nobody pays, creates or dies.
LEMMA QuotaUntouched ==
    ASSUME QuotaAccounted, UNCHANGED <<used, assessments, faults>>,
           \A u \in Users : Cardinality(Paid(u)') = Cardinality(Paid(u))
    PROVE  QuotaAccounted'
BY DEF QuotaAccounted, Accounted, Count, Created

LEMMA SerialInit == ApiInit => SerialInv
<1> SUFFICES ASSUME ApiInit PROVE SerialInv
  OBVIOUS
<1>1. ReadsCurrent
  BY DEF ApiInit, ReadsCurrent, IdleRequest
<1>2. \A u \in Users : Created(u) = {} /\ Paid(u) = {} /\ Count(u) = 0
  BY DEF ApiInit, Created, Paid, Count, IdleRequest
<1>3. QuotaAccounted
  <2>1. \A u \in Users : /\ Cardinality(Created(u)) = 0
                        /\ Cardinality(Paid(u)) = 0
    BY <1>2, FS_EmptySet
  <2> QED
    BY <1>2, <2>1 DEF QuotaAccounted, Accounted, ApiInit
<1> QED
  BY <1>1, <1>3 DEF SerialInv

(***************************************************************************)
(* The two commits that move the account: the counter goes up by one when  *)
(* the request pays, and the payment becomes an assessment.                *)
(***************************************************************************)
LEMMA CommitQuotaSerial ==
    ASSUME OneRequest, ApiInv, SerialInv, NEW c \in Clients, CommitQuota(c)
    PROVE  SerialInv'
<1> DEFINE x == Owner(req[c].id)
<1>0. /\ req \in [Clients -> Request] /\ used \in [Users -> Nat \cup {NoCounter}]
      /\ x \in Users /\ \A d \in Clients : d = c
      /\ req[c].pc = "charge" /\ req[c].read = used[x]
      /\ assessments[req[c].id] = "absent" /\ req[c].program \in Programs
  BY OwnerIsUser DEF ApiInv, ApiTypeOK, CommitQuota, SerialInv, ReadsCurrent, OneRequest
<1>1. /\ used' = [used EXCEPT ![x] = Count(x) + 1]
      /\ req' = [req EXCEPT ![c].pc = "snapshot"]
      /\ UNCHANGED <<assessments, faults, snapshots>>
  BY <1>0 DEF CommitQuota, Count, Goto
<1>2. /\ req'[c].pc = "snapshot" /\ req'[c].id = req[c].id
      /\ req'[c].program = req[c].program
  BY <1>0, <1>1 DEF Request
<1>3. ReadsCurrent'
  BY <1>0, <1>1, <1>2 DEF ReadsCurrent
<1>4. QuotaAccounted'
  <2> SUFFICES ASSUME NEW u \in Users \ ProUsers
               PROVE  Accounted(Count(u) - Cardinality(Created(u))
                                         - Cardinality(Paid(u)))'
    BY DEF QuotaAccounted
  <2>1. Created(u)' = Created(u) /\ faults' = faults
    BY <1>1 DEF Created
  <2>2. Cardinality(Created(u)) \in Nat /\ Count(u) \in Nat
    BY <1>0, CreatedFinite DEF Count, NoCounter
  <2>3. Count(u)' = IF u = x THEN Count(u) + 1 ELSE Count(u)
    <3>1. CASE u = x
      <4>1. used'[u] = Count(u) + 1
        BY <1>0, <1>1, <3>1
      <4> QED
        BY <2>2, <3>1, <4>1 DEF Count, NoCounter
    <3>2. CASE u # x
      BY <1>0, <1>1, <3>2 DEF Count
    <3> QED
      BY <3>1, <3>2
  <2>4. /\ Cardinality(Paid(u)) = 0
        /\ Cardinality(Paid(u)') = IF u = x THEN 1 ELSE 0
    BY <1>0, <1>2, PaidIsOne DEF PaidBy
  <2>5. Accounted(Count(u) - Cardinality(Created(u)) - Cardinality(Paid(u)))
    BY DEF SerialInv, QuotaAccounted
  <2> QED
    BY <2>1, <2>2, <2>3, <2>4, <2>5 DEF Accounted
<1> QED
  BY <1>3, <1>4 DEF SerialInv

LEMMA InsertAssessmentSerial ==
    ASSUME OneRequest, ApiInv, SerialInv, NEW c \in Clients, InsertAssessment(c)
    PROVE  SerialInv'
<1> DEFINE id == req[c].id
           x == Owner(id)
           known == req[c].program \in StoredPrograms
<1>0. /\ req \in [Clients -> Request] /\ used \in [Users -> Nat \cup {NoCounter}]
      /\ assessments \in [Ids -> AssessmentStatus \cup {"absent"}]
      /\ id \in Ids /\ x \in Users /\ \A d \in Clients : d = c
      /\ req[c].pc = "insert" /\ assessments[id] = "absent"
      /\ req[c].snap + 1 \notin snapshots[x]
      /\ ProgramsStored => known
  BY OwnerIsUser DEF ApiInv, ApiTypeOK, InsertAssessment, SerialInv,
     ReadsCurrent, OneRequest, ProgramsStored
<1>1. /\ assessments' = IF known THEN [assessments EXCEPT ![id] = "pending"]
                                 ELSE assessments
      /\ req' = [req EXCEPT ![c] = IF known THEN [@ EXCEPT !.pc = "refresh"]
                                            ELSE IdleRequest]
      /\ UNCHANGED <<used, faults>>
  BY <1>0 DEF InsertAssessment, Goto, Finish
<1>2. req'[c].pc \in {"refresh", "idle"}
  BY <1>0, <1>1 DEF Request, IdleRequest
<1>3. ReadsCurrent'
  BY <1>0, <1>2 DEF ReadsCurrent
<1>4. QuotaAccounted'
  <2> SUFFICES ASSUME NEW u \in Users \ ProUsers
               PROVE  Accounted(Count(u) - Cardinality(Created(u))
                                         - Cardinality(Paid(u)))'
    BY DEF QuotaAccounted
  <2>1. Count(u)' = Count(u) /\ faults' = faults
    BY <1>1 DEF Count
  <2>2. /\ Cardinality(Created(u)) \in Nat /\ Count(u) \in Nat
        /\ IsFiniteSet(Created(u))
    BY <1>0, CreatedFinite DEF Count, NoCounter
  <2>3. /\ id \notin Created(u)
        /\ Created(u)' = IF u = x /\ known THEN Created(u) \cup {id}
                                           ELSE Created(u)
    BY <1>0, <1>1 DEF Created
  <2>4. Cardinality(Created(u)') = IF u = x /\ known
                                   THEN Cardinality(Created(u)) + 1
                                   ELSE Cardinality(Created(u))
    BY <2>2, <2>3, FS_AddElement
  <2>5. /\ Cardinality(Paid(u)) = IF u = x THEN 1 ELSE 0
        /\ Cardinality(Paid(u)') = 0
    BY <1>0, <1>2, PaidIsOne DEF PaidBy
  <2>6. Accounted(Count(u) - Cardinality(Created(u)) - Cardinality(Paid(u)))
    BY DEF SerialInv, QuotaAccounted
  <2> QED
    BY <1>0, <2>1, <2>2, <2>4, <2>5, <2>6 DEF Accounted
<1> QED
  BY <1>3, <1>4 DEF SerialInv

LEMMA RequestDiesSerial ==
    ASSUME OneRequest, ApiInv, SerialInv, NEW c \in Clients, RequestDies(c)
    PROVE  SerialInv'
<1>0. /\ req \in [Clients -> Request] /\ used \in [Users -> Nat \cup {NoCounter}]
      /\ \A d \in Clients : d = c
      /\ req'[c].pc = "idle" /\ faults \in Nat /\ faults' = faults + 1
      /\ UNCHANGED <<used, assessments>>
  BY ApiAssumption
     DEF ApiInv, ApiTypeOK, RequestDies, Finish, IdleRequest, OneRequest
<1>1. ReadsCurrent'
  BY <1>0 DEF ReadsCurrent
<1>2. QuotaAccounted'
  <2> SUFFICES ASSUME NEW u \in Users \ ProUsers
               PROVE  Accounted(Count(u) - Cardinality(Created(u))
                                         - Cardinality(Paid(u)))'
    BY DEF QuotaAccounted
  <2>1. Count(u)' = Count(u) /\ Created(u)' = Created(u)
    BY <1>0 DEF Count, Created
  <2>2. Cardinality(Created(u)) \in Nat /\ Count(u) \in Nat
    BY <1>0, CreatedFinite DEF Count, NoCounter
  <2>3. Cardinality(Paid(u)) \in {0, 1} /\ Cardinality(Paid(u)') = 0
    BY <1>0, PaidIsOne DEF PaidBy
  <2>4. Accounted(Count(u) - Cardinality(Created(u)) - Cardinality(Paid(u)))
    BY DEF SerialInv, QuotaAccounted
  <2> QED
    BY <1>0, <2>1, <2>2, <2>3, <2>4 DEF Accounted
<1> QED
  BY <1>1, <1>2 DEF SerialInv

LEMMA SerialStep ==
    ASSUME OneRequest, ApiInv, SerialInv, ApiNext
    PROVE  SerialInv'
<1> DEFINE same == UNCHANGED <<used, snapshots, assessments, faults>>
           early == {"quota", "charge", "snapshot", "insert"}
<1>a. PICK c \in Clients :
        \/ \E id \in Ids, program \in Programs : Post(c, id, program)
        \/ RequestStep(c)
        \/ RequestDies(c)
  BY DEF ApiNext
<1>0. /\ req \in [Clients -> Request] /\ req[c] \in Request
      /\ used \in [Users -> Nat \cup {NoCounter}]
      /\ req[c].pc # "idle" => Owner(req[c].id) \in Users
      /\ \A d \in Clients : d = c
      /\ ReadsCurrent /\ QuotaAccounted
  BY OwnerIsUser DEF ApiInv, ApiTypeOK, OneRequest, SerialInv
<1>b. ASSUME same, req'[c].pc \notin early, req[c].pc \notin {"snapshot", "insert"}
      PROVE  SerialInv'
  <2>1. ReadsCurrent'
    BY <1>0, <1>b DEF ReadsCurrent
  <2>2. \A u : Cardinality(Paid(u)') = Cardinality(Paid(u))
    BY <1>b, PaidIsOne DEF PaidBy
  <2> QED
    BY <1>0, <1>b, <2>1, <2>2, QuotaUntouched DEF SerialInv
<1>g. /\ \A p : Goto(c, p) => req'[c] = [req[c] EXCEPT !.pc = p]
      /\ Finish(c) => req'[c].pc = "idle"
  BY <1>0 DEF Goto, Finish, IdleRequest
<1>1. ASSUME NEW id \in Ids, NEW program \in Programs, Post(c, id, program)
      PROVE  SerialInv'
  <2>1. /\ req[c].pc = "idle" /\ same /\ req'[c].id = id
        /\ \/ /\ assessments[id] = "absent"
              /\ req'[c].pc = "quota" /\ req'[c].program = program
           \/ req'[c].pc = "find_job"
    BY <1>0, <1>1 DEF Post, IdleRequest
  <2>2. ReadsCurrent'
    BY <1>0, <2>1 DEF ReadsCurrent
  <2>3. \A u : Cardinality(Paid(u)') = Cardinality(Paid(u))
    BY <2>1, PaidIsOne DEF PaidBy
  <2> QED
    BY <1>0, <2>1, <2>2, <2>3, QuotaUntouched DEF SerialInv
<1>2. CASE ReadQuota(c)
  <2> DEFINE u == Owner(req[c].id)
  <2>0. same /\ req[c].pc = "quota" /\ u \in Users
        /\ assessments[req[c].id] = "absent" /\ req[c].program \in Programs
    BY <1>0, <1>2 DEF ReadQuota, ReadsCurrent
  <2>1. CASE Finish(c)
    BY <1>b, <1>g, <2>0, <2>1
  <2>2. CASE u \in ProUsers /\ Goto(c, "snapshot")
    <3>1. /\ req'[c].pc = "snapshot" /\ req'[c].id = req[c].id
          /\ req'[c].program = req[c].program
      BY <1>0, <2>2 DEF Request, Goto
    <3>2. ReadsCurrent'
      BY <1>0, <2>0, <3>1 DEF ReadsCurrent
    <3>3. \A v \in Users \ ProUsers : Cardinality(Paid(v)') = Cardinality(Paid(v))
      BY <2>0, <2>2, <3>1, PaidIsOne DEF PaidBy
    <3>4. QuotaAccounted'
      BY <1>0, <2>0, <3>3 DEF QuotaAccounted, Accounted, Count, Created
    <3> QED
      BY <3>2, <3>4 DEF SerialInv
  <2>3. CASE req' = [req EXCEPT ![c].pc = "charge", ![c].read = used[u]]
    <3>1. /\ req'[c].pc = "charge" /\ req'[c].id = req[c].id
          /\ req'[c].read = used[u] /\ req'[c].program = req[c].program
      BY <1>0, <2>3 DEF Request
    <3>2. ReadsCurrent'
      BY <1>0, <2>0, <3>1 DEF ReadsCurrent
    <3>3. \A v : Cardinality(Paid(v)') = Cardinality(Paid(v))
      BY <2>0, <3>1, PaidIsOne DEF PaidBy
    <3> QED
      BY <1>0, <2>0, <3>2, <3>3, QuotaUntouched DEF SerialInv
  <2> QED
    BY <1>2, <2>1, <2>2, <2>3 DEF ReadQuota
<1>4. CASE ReadSnapshotVersion(c)
  <2> DEFINE u == Owner(req[c].id)
             n == Cardinality(Created(u))
  <2>0. same /\ req[c].pc = "snapshot" /\ u \in Users
        /\ assessments[req[c].id] = "absent" /\ req[c].program \in Programs
    BY <1>0, <1>4 DEF ReadSnapshotVersion, ReadsCurrent
  <2>1. n \in Nat /\ snapshots[u] = 1 .. n
    BY <2>0, CreatedFinite DEF ApiInv, SnapshotPerAssessment
  <2>2. LatestSnapshot(u) + 1 \notin snapshots[u]
    BY <2>0, <2>1, LatestOfRun
  <2>3. /\ req'[c].pc = "insert" /\ req'[c].id = req[c].id
        /\ req'[c].snap = LatestSnapshot(u) /\ req'[c].program = req[c].program
    BY <1>0, <1>4 DEF ReadSnapshotVersion, Request
  <2>4. ReadsCurrent'
    BY <1>0, <2>0, <2>2, <2>3 DEF ReadsCurrent
  <2>5. \A v : Cardinality(Paid(v)') = Cardinality(Paid(v))
    BY <2>0, <2>3, PaidIsOne DEF PaidBy
  <2> QED
    BY <1>0, <2>0, <2>4, <2>5, QuotaUntouched DEF SerialInv
<1>6. CASE RefreshAssessment(c)
  <2>1. same /\ req[c].pc = "refresh" /\ req'[c].pc = "find_job"
    BY <1>0, <1>6 DEF RefreshAssessment, Request
  <2> QED
    BY <1>b, <2>1
<1>7. CASE FindJob(c)
  <2>1. same /\ req[c].pc = "find_job" /\ req'[c].pc \in {"insert_job", "enqueue"}
    BY <1>0, <1>7 DEF FindJob, Goto, Request
  <2> QED
    BY <1>b, <2>1
<1>8. CASE InsertJob(c)
  <2>1. same /\ req[c].pc = "insert_job" /\ req'[c].pc \in {"idle", "enqueue"}
    BY <1>0, <1>8 DEF InsertJob, Goto, Finish, IdleRequest, Request
  <2> QED
    BY <1>b, <2>1
<1>9. CASE Enqueue(c)
  <2>1. same /\ req[c].pc = "enqueue" /\ req'[c].pc = "idle"
    BY <1>g, <1>9 DEF Enqueue
  <2> QED
    BY <1>b, <2>1
<1> QED
  BY <1>a, <1>1, <1>2, <1>4, <1>6, <1>7, <1>8, <1>9, CommitQuotaSerial,
     InsertAssessmentSerial, RequestDiesSerial DEF RequestStep

\* A step that changes none of what the account is made of.
LEMMA SerialUntouched ==
    ASSUME SerialInv, UNCHANGED <<used, snapshots, req, faults>>,
           \A id \in Ids : assessments'[id] = "absent" <=> assessments[id] = "absent",
           \A c \in Clients : req[c].pc # "idle" => req[c].id \in Ids
    PROVE  SerialInv'
<1>1. ReadsCurrent'
  BY DEF SerialInv, ReadsCurrent
<1>2. \A u : Created(u)' = Created(u) /\ Paid(u)' = Paid(u) /\ Count(u)' = Count(u)
  BY DEF Created, Paid, Count
<1>3. QuotaAccounted'
  BY <1>2 DEF SerialInv, QuotaAccounted, Accounted
<1> QED
  BY <1>1, <1>3 DEF SerialInv

LEMMA SerialInvariant ==
    ASSUME OneRequest
    PROVE  ApiSpec => [](ApiInv /\ SerialInv)
<1>1. ApiInv /\ SerialInv /\ [ApiNext]_apiVars => SerialInv'
  <2> SUFFICES ASSUME ApiInv, SerialInv, [ApiNext]_apiVars PROVE SerialInv'
    OBVIOUS
  <2>1. CASE ApiNext
    BY <2>1, SerialStep
  <2>2. CASE UNCHANGED apiVars
    BY <2>2, SerialUntouched DEF apiVars, ApiInv, ApiTypeOK
  <2> QED
    BY <2>1, <2>2
<1> QED
  BY <1>1, SerialInit, ApiInvariant, PTL DEF ApiSpec

\* What the account says when no request has died or named no program.
LEMMA AccountIsExact ==
    ASSUME OneRequest, ProgramsStored, ApiInv, SerialInv, faults = 0
    PROVE  QuotaExact
<1> SUFFICES ASSUME NEW u \in Users \ ProUsers
             PROVE  Count(u) = Cardinality(Created(u)) + Cardinality(Paid(u))
  BY DEF QuotaExact, Count
<1>1. Count(u) - Cardinality(Created(u)) - Cardinality(Paid(u)) = 0
  BY DEF SerialInv, QuotaAccounted, Accounted
<1>2. Count(u) \in Nat /\ Cardinality(Created(u)) \in Nat
  BY CreatedFinite DEF ApiInv, ApiTypeOK, Count, NoCounter
<1>3. Cardinality(Paid(u)) \in {0, 1}
  BY OneRequestPays
<1> QED
  BY <1>1, <1>2, <1>3

LEMMA AccountCoversCreated ==
    ASSUME OneRequest, ApiInv, SerialInv
    PROVE  FreeLimitRespected
<1> SUFFICES ASSUME NEW u \in Users \ ProUsers
             PROVE  Cardinality(Created(u)) <= FreeLimit
  BY DEF FreeLimitRespected
<1>1. Count(u) - Cardinality(Created(u)) - Cardinality(Paid(u)) >= 0
  BY DEF SerialInv, QuotaAccounted, Accounted
<1>2. /\ Count(u) \in Nat /\ Cardinality(Created(u)) \in Nat
      /\ Count(u) <= FreeLimit
  BY CreatedFinite, ApiAssumption
     DEF ApiInv, ApiTypeOK, CounterWithinLimit, Count, NoCounter
<1>3. Cardinality(Paid(u)) \in {0, 1}
  BY OneRequestPays
<1> QED
  BY <1>1, <1>2, <1>3, ApiAssumption

(***************************************************************************)
(* When requests come one at a time, name programs that exist, and none    *)
(* has died, the usage counter of a free user is the number of assessments *)
(* created, plus the one that is paid for and about to be inserted.  The   *)
(* run quota_charged shows that the programs have to exist.                *)
(***************************************************************************)
THEOREM QuotaExactOneByOne ==
    ASSUME OneRequest, ProgramsStored
    PROVE  ApiSpec => [](faults = 0 => QuotaExact)
<1>1. ApiInv /\ SerialInv => (faults = 0 => QuotaExact)
  BY AccountIsExact
<1> QED
  BY <1>1, SerialInvariant, PTL

(***************************************************************************)
(* The limit the README promises to free users holds when requests come    *)
(* one at a time, even when some die half-way or name no program that      *)
(* exists: only overlapping requests can break it, as the run              *)
(* api_limit_race shows.                                                   *)
(***************************************************************************)
THEOREM FreeLimitOneByOne ==
    ASSUME OneRequest
    PROVE  ApiSpec => []FreeLimitRespected
<1>1. ApiInv /\ SerialInv => FreeLimitRespected
  BY AccountCoversCreated
<1> QED
  BY <1>1, SerialInvariant, PTL
=============================================================================
