------------------------ MODULE ProgramVersionsProofs ------------------------
(***************************************************************************)
(* Publication and activation of program versions, for every number of     *)
(* versions, sources, pages and assessments and any span of time.          *)
(***************************************************************************)
EXTENDS ProgramVersions, TLAPS

\* What a publication has read: a page, the time, and versions that exist.
ReadEarlier ==
    \A s \in Feeds :
        /\ publishing[s] # Unread => publishing[s].page \in Pages
        /\ publishing[s].at <= moment
        /\ \A w \in publishing[s].listed : versions[w].status # "absent"

VersionsInv == VersionsTypeOK /\ ReadEarlier

-----------------------------------------------------------------------------
\* The types of the constants and of the rows code writes.
LEMMA VersionsConstants ==
    /\ LastMoment \in Nat /\ Never = LastMoment + 1
    /\ Versions \subseteq Nat \ {0}
    /\ NoVersion \in Version
    /\ \A row \in Patches :
          row.status # "absent" /\ (row.from < row.to => row \in Version)
  BY VersionsAssumption DEF Never, NoVersion, Version

LEMMA UnreadTyped ==
    /\ Unread \in [page : Pages \cup {"none"}, listed : SUBSET Versions,
                   at : 0 .. LastMoment]
    /\ Unread.listed = {} /\ Unread.at = 0
  BY VersionsConstants DEF Unread

\* A version keeps its type when its status is changed.
LEMMA StatusChanged ==
    ASSUME NEW row \in Version, NEW status \in {"draft", "active", "archived"}
    PROVE  [row EXCEPT !.status = status] \in Version
  BY DEF Version

LEMMA ActivatedTyped ==
    ASSUME NEW rows \in [Versions -> Version], NEW v \in Versions
    PROVE  LET activated == [rows EXCEPT ![v].status = "active"]
           IN  /\ activated \in [Versions -> Version]
               /\ activated[v].status = "active"
               /\ \A w \in Versions \ {v} : activated[w] = rows[w]
<1>1. [rows[v] EXCEPT !.status = "active"] \in Version
  BY StatusChanged
<1>2. [rows[v] EXCEPT !.status = "active"].status = "active"
  BY DEF Version
<1> QED
  BY <1>1, <1>2

LEMMA VersionsInitial == VersionsInit => VersionsInv
<1> SUFFICES ASSUME VersionsInit
             PROVE  VersionsInv
  OBVIOUS
<1>1. versions \in [Versions -> Version]
  <2>1. PICK status \in {"absent", "active", "draft"} :
           versions = [v \in Versions |->
                          IF v = newest THEN [NoVersion EXCEPT !.status = status]
                          ELSE NoVersion]
    BY DEF VersionsInit
  <2>2. [NoVersion EXCEPT !.status = status] \in Version
    BY <2>1, VersionsConstants DEF NoVersion, Version
  <2> QED
    BY <2>1, <2>2, VersionsConstants
<1>2. newest \in Versions \cup {0}
  BY DEF VersionsInit
<1>3. publishing = [s \in Feeds |-> Unread] /\ moment = 0
  BY DEF VersionsInit
<1>4. ReadEarlier
  BY <1>3 DEF ReadEarlier, Unread
<1> QED
  BY <1>1, <1>2, <1>3, <1>4, VersionsConstants
     DEF VersionsInit, VersionsInv, VersionsTypeOK, Unread

\* Archiving versions of a typed table leaves it typed.
LEMMA ArchivedTyped ==
    ASSUME NEW rows \in [Versions -> Version], NEW ws
    PROVE  /\ Archived(rows, ws) \in [Versions -> Version]
           /\ \A v \in Versions : rows[v].status # "absent"
                 => Archived(rows, ws)[v].status # "absent"
<1>1. ASSUME NEW v \in Versions
      PROVE  /\ rows[v] \in Version
             /\ [rows[v] EXCEPT !.status = "archived"] \in Version
             /\ [rows[v] EXCEPT !.status = "archived"].status = "archived"
  BY StatusChanged DEF Version
<1> QED
  BY <1>1 DEF Archived

\* The rows a publication commits are typed: a listed version has started.
LEMMA RepublishedTyped ==
    ASSUME VersionsTypeOK, NEW v \in Versions, NEW s \in Feeds,
           \A w \in publishing[s].listed : versions[w].from < publishing[s].at
    PROVE  Republished(v, publishing[s].listed, publishing[s].at)
              \in [Versions -> Version]
<1> DEFINE at == publishing[s].at
           listed == publishing[s].listed
<1>1. at \in 0 .. LastMoment /\ listed \subseteq Versions
  BY DEF VersionsTypeOK
<1>2. [status |-> "active", from |-> at, to |-> Never] \in Version
  BY <1>1, VersionsConstants DEF Version
<1>3. ASSUME NEW w \in listed
      PROVE  [status |-> "archived", from |-> versions[w].from, to |-> at] \in Version
  <2>1. versions[w] \in Version
    BY <1>1, <1>3 DEF VersionsTypeOK
  <2>2. versions[w].from \in 0 .. LastMoment /\ versions[w].from < at
    BY <2>1, <1>3 DEF Version
  <2> QED
    BY <1>1, <2>2, VersionsConstants DEF Version
<1>4. \A w \in Versions : versions[w] \in Version
  BY DEF VersionsTypeOK
<1> HIDE DEF at, listed
<1> QED
  BY <1>2, <1>3, <1>4 DEF Republished, at, listed

\* What a publication stores of the new version.
LEMMA RepublishedRow ==
    ASSUME NEW v \in Versions, NEW listed, NEW at, v \notin listed
    PROVE  Republished(v, listed, at)[v]
              = [status |-> "active", from |-> at, to |-> Never]
  BY DEF Republished

\* Every operation and every tick of the clock keeps the invariant.
LEMMA VersionsInductive == VersionsInv /\ [VersionsNext]_versionsVars => VersionsInv'
<1> SUFFICES ASSUME VersionsInv, [VersionsNext]_versionsVars
             PROVE  VersionsInv'
  OBVIOUS
<1> USE DEF VersionsInv, VersionsTypeOK, ReadEarlier
<1>1. ASSUME NEW v \in Versions, NEW row \in Patches, UpdateVersion(v, row)
      PROVE  VersionsInv'
  <2>1. row \in Version /\ row.status # "absent"
    BY <1>1, VersionsConstants DEF UpdateVersion
  <2>2. versions' = [versions EXCEPT ![v] = row]
    BY <1>1 DEF UpdateVersion
  <2>3. /\ versions' \in [Versions -> Version]
        /\ \A w \in Versions :
              versions[w].status # "absent" => versions'[w].status # "absent"
    BY <2>1, <2>2
  <2> QED
    BY <1>1, <2>3 DEF UpdateVersion
<1>2. ASSUME NEW v \in Versions, NEW force \in BOOLEAN, Activate(v, force)
      PROVE  VersionsInv'
  <2> DEFINE archived == Archived(versions, Active(versions) \ {v})
  <2>1. /\ archived \in [Versions -> Version]
        /\ \A w \in Versions :
              versions[w].status # "absent" => archived[w].status # "absent"
    BY ArchivedTyped
  <2>2. \/ versions' = [versions EXCEPT ![v].status = "active"]
        \/ versions' = [archived EXCEPT ![v].status = "active"]
    BY <1>2 DEF Activate
  <2>3. /\ versions' \in [Versions -> Version]
        /\ \A w \in Versions :
              versions[w].status # "absent" => versions'[w].status # "absent"
    <3> HIDE DEF archived
    <3>1. CASE versions' = [versions EXCEPT ![v].status = "active"]
      BY <3>1, ActivatedTyped
    <3>2. CASE versions' = [archived EXCEPT ![v].status = "active"]
      BY <3>2, <2>1, ActivatedTyped
    <3> QED
      BY <2>2, <3>1, <3>2
  <2> QED
    BY <1>2, <2>3 DEF Activate
<1>3. ASSUME NEW s \in Feeds, SkipRaw(s)
      PROVE  VersionsInv'
  BY <1>3 DEF SkipRaw
<1>4. ASSUME NEW s \in Feeds, NEW page \in Pages, RecordOnly(s, page)
      PROVE  VersionsInv'
  BY <1>4, VersionsConstants DEF RecordOnly, Stored
<1>5. ASSUME NEW s \in Feeds, NEW page \in Pages, ListActive(s, page)
      PROVE  VersionsInv'
  BY <1>5, VersionsConstants DEF ListActive, Active
<1>6. ASSUME NEW s \in Feeds, NEW v \in Versions, PublishVersion(s, v)
      PROVE  VersionsInv'
  <2>1. versions' \in [Versions -> Version]
    BY <1>6, RepublishedTyped DEF PublishVersion
  <2>3. ASSUME NEW w \in Versions, versions[w].status # "absent"
        PROVE  versions'[w].status # "absent"
    <3>1. w # v
      BY <1>6, <2>3 DEF PublishVersion
    <3>2. versions'[w] = Republished(v, publishing[s].listed, publishing[s].at)[w]
      BY <1>6 DEF PublishVersion
    <3> QED
      BY <2>3, <3>1, <3>2 DEF Republished
  <2>2. publishing[s].page \in Pages
    BY <1>6 DEF PublishVersion, Unread
  <2> QED
    BY <1>6, <2>1, <2>2, <2>3, VersionsConstants, UnreadTyped
       DEF PublishVersion, Stored
<1>7. ASSUME NEW s \in Feeds, PublicationFails(s)
      PROVE  VersionsInv'
  BY <1>7, UnreadTyped DEF PublicationFails
<1>8. ASSUME NEW a \in Requests, Request(a)
      PROVE  VersionsInv'
  BY <1>8 DEF Request
<1>9. ASSUME NEW a \in Requests, Score(a)
      PROVE  VersionsInv'
  BY <1>9 DEF Score
<1>10. CASE Later
  BY <1>10, VersionsConstants DEF Later
<1>11. CASE UNCHANGED versionsVars
  BY <1>11 DEF versionsVars
<1> QED
  BY <1>1, <1>2, <1>3, <1>4, <1>5, <1>6, <1>7, <1>8, <1>9, <1>10, <1>11
     DEF VersionsNext

LEMMA VersionsInvariant == VersionsSpec => []VersionsInv
  BY VersionsInitial, VersionsInductive, PTL DEF VersionsSpec

-----------------------------------------------------------------------------
(***************************************************************************)
(* Every row keeps a period that ends after it starts, through patches,    *)
(* forced activations and publications that end the versions they replace. *)
(***************************************************************************)
THEOREM VersionsTypeCorrect == VersionsSpec => []VersionsTypeOK
  BY VersionsInvariant, PTL DEF VersionsInv

\* Where no period overlaps that of an open version, it alone is in force.
LEMMA OpenVersionAlone ==
    ASSUME NEW rows \in [Versions -> Version], Consistent(rows),
           NEW v \in Versions, NEW at \in 0 .. LastMoment, at <= moment,
           moment \in 0 .. LastMoment,
           rows[v] = [status |-> "active", from |-> at, to |-> Never]
    PROVE  InForce(rows, moment) = {v}
<1>1. Active(rows) \subseteq Versions /\ v \in Active(rows)
  BY DEF Active
<1>2. ASSUME NEW w \in Active(rows), w # v
      PROVE  ~(rows[w].from <= moment /\ moment < rows[w].to)
  <2>1. ~Overlap(rows[v], rows[w])
    BY <1>1, <1>2 DEF Consistent, Overlapping
  <2>2. rows[w].from \in 0 .. LastMoment /\ rows[w].to \in 1 .. Never
    BY <1>1, <1>2 DEF Version
  <2> QED
    BY <2>1, <2>2, VersionsConstants DEF Overlap
<1>3. rows[v].from <= moment /\ moment < rows[v].to
  BY VersionsConstants
<1> QED
  BY <1>1, <1>2, <1>3 DEF InForce

(***************************************************************************)
(* From its commit a publication is the one version that assessments are   *)
(* scored with, whatever was published, patched or activated since it has  *)
(* read the active versions: ex_program_versions_active_no_overlap refuses *)
(* the commit otherwise.                                                   *)
(***************************************************************************)
THEOREM PublicationTakesEffect == VersionsSpec => PublicationInForce
<1> DEFINE New(v) == versions[v].status = "absent" /\ versions'[v].status # "absent"
           Alone == \A v \in Versions : New(v) => InForce(versions', moment) = {v}
<1>1. ASSUME VersionsInv, VersionsInv', [VersionsNext]_versionsVars
      PROVE  Alone
  <2> SUFFICES ASSUME NEW v \in Versions, New(v)
               PROVE  InForce(versions', moment) = {v}
    OBVIOUS
  <2> USE <1>1 DEF VersionsInv, VersionsTypeOK
  <2>1. ASSUME NEW x \in Versions, NEW row \in Patches, UpdateVersion(x, row)
        PROVE  FALSE
    BY <2>1 DEF UpdateVersion
  <2>2. ASSUME NEW x \in Versions, NEW force \in BOOLEAN, Activate(x, force)
        PROVE  FALSE
    <3> DEFINE archived == Archived(versions, Active(versions) \ {x})
    <3>1. x # v /\ v \notin Active(versions)
      BY <2>2 DEF Activate, Active
    <3>2. archived \in [Versions -> Version]
      BY ArchivedTyped
    <3>6. archived[v] = versions[v]
      BY <3>1 DEF Archived
    <3>3. \/ versions' = [versions EXCEPT ![x].status = "active"]
          \/ versions' = [archived EXCEPT ![x].status = "active"]
      BY <2>2 DEF Activate
    <3>4. versions'[v] = versions[v]
      <4> HIDE DEF archived
      <4> QED
        BY <3>1, <3>2, <3>3, <3>6, ActivatedTyped
    <3> QED
      BY <3>4
  <2>3. ASSUME NEW s \in Feeds, NEW x \in Versions, PublishVersion(s, x)
        PROVE  InForce(versions', moment) = {v}
    <3> DEFINE at == publishing[s].at
               listed == publishing[s].listed
    <3>1. at \in 0 .. LastMoment /\ at <= moment
      BY DEF ReadEarlier
    <3>2. Consistent(versions') /\ versions' = Republished(x, listed, at)
      BY <2>3 DEF PublishVersion
    <3>3. v = x
      <4> SUFFICES ASSUME v # x
                   PROVE  FALSE
        OBVIOUS
      <4>1. v \notin listed
        BY DEF ReadEarlier
      <4>2. versions'[v] = versions[v]
        BY <3>2, <4>1 DEF Republished
      <4> QED
        BY <4>2
    <3>4. versions'[v] = [status |-> "active", from |-> at, to |-> Never]
      <4>1. Republished(x, listed, at)[x]
               = [status |-> "active", from |-> at, to |-> Never]
        BY <2>3, RepublishedRow DEF PublishVersion, ReadEarlier
      <4> QED
        BY <3>2, <3>3, <4>1
    <3>5. versions' \in [Versions -> Version]
      OBVIOUS
    <3> HIDE DEF at, listed
    <3> QED
      BY <3>1, <3>2, <3>4, <3>5, OpenVersionAlone
  <2> QED
    BY ZenonT(60), <2>1, <2>2, <2>3
       DEF VersionsNext, SkipRaw, RecordOnly, ListActive, PublicationFails,
           Request, Score, Later, versionsVars
<1> QED
  BY <1>1, VersionsInvariant, PTL DEF VersionsSpec, PublicationInForce
=============================================================================
