--------------------------- MODULE ProgramVersions ---------------------------
(***************************************************************************)
(* The versions of one immigration program: what the rules API changes,    *)
(* what the ingestion publishes (Publisher with the diff and the decision  *)
(* of _execute_processing), and which version an assessment is scored      *)
(* with.  A version's number is its primary key: keys are random, so any   *)
(* unused one may be given to a new version.                               *)
(*                                                                         *)
(* POST /program-versions awaits a function that is not asynchronous, so   *)
(* it fails before it has stored anything: versions come from the seeds    *)
(* and from publications.                                                  *)
(***************************************************************************)
EXTENDS Integers, FiniteSets

CONSTANTS
    Versions,       \* primary keys, in their order
    Feeds,          \* rows of source_registry of the program, one url each
    Pages,          \* contents a source may have: raw hashes
    Meaning,        \* the semantic hash of a page
    Clear,          \* pages whose extraction reaches the confidence threshold
    Requests,       \* assessments
    Patches,        \* bound: what an administrator makes of a version
    LastMoment      \* bound: the clock

ASSUME VersionsAssumption ==
    /\ Versions \subseteq Nat \ {0}
    /\ IsFiniteSet(Versions)
    /\ \A page \in Pages : Meaning[page] # "none"
    /\ Clear \subseteq Pages
    /\ LastMoment \in Nat
    /\ Patches \subseteq [status : {"draft", "active", "archived"},
                          from : 0 .. LastMoment, to : 1 .. LastMoment + 1]

VARIABLES
    versions,       \* program_versions
    newest,         \* the version created last, 0 for none
    documents,      \* source_documents: the source and the version, 0 for none
    bronze,         \* checksum of the latest bronze_document of a source
    semantic,       \* semantic_hash of the last completed item of a source
    publishing,     \* publications that have read the active versions
    requests,       \* assessments: when requested and how scored
    moment          \* the clock

versionsVars == <<versions, newest, documents, bronze, semantic,
                  publishing, requests, moment>>

\* effective_to is NULL, _END_OF_TIME in the overlap query.
Never == LastMoment + 1

NoVersion == [status |-> "absent", from |-> 0, to |-> Never]

Version ==
    {v \in [status : {"absent", "draft", "active", "archived"},
            from : 0 .. LastMoment, to : 1 .. Never] : v.from < v.to}

Unread == [page |-> "none", listed |-> {}, at |-> 0]

VersionsTypeOK ==
    /\ versions \in [Versions -> Version]
    /\ newest \in Versions \cup {0}
    /\ documents \subseteq Feeds \X (Versions \cup {0})
    /\ bronze \in [Feeds -> Pages \cup {"none"}]
    /\ semantic \in [Feeds -> {Meaning[page] : page \in Pages} \cup {"none"}]
    /\ publishing \in [Feeds -> [page : Pages \cup {"none"},
                                 listed : SUBSET Versions, at : 0 .. LastMoment]]
    /\ requests \in [Requests ->
                        [status : {"none", "pending", "completed", "dead_letter"},
                         requested_at : 0 .. LastMoment]]
    /\ moment \in 0 .. LastMoment

\* Nothing, or what scripts/seed_mvp_rules.py or seed_mvp_catalog.py has left.
VersionsInit ==
    /\ \E status \in {"absent", "active", "draft"} :
          /\ newest \in IF status = "absent" THEN {0} ELSE Versions
          /\ versions = [v \in Versions |->
                            IF v = newest THEN [NoVersion EXCEPT !.status = status]
                            ELSE NoVersion]
    /\ documents = {}
    /\ bronze = [s \in Feeds |-> "none"]
    /\ semantic = [s \in Feeds |-> "none"]
    /\ publishing = [s \in Feeds |-> Unread]
    /\ requests = [a \in Requests |-> [status |-> "none", requested_at |-> 0]]
    /\ moment = 0

-----------------------------------------------------------------------------
Active(rows) == {v \in DOMAIN rows : rows[v].status = "active"}

\* Mutant of Overlap: effective_to is compared without coalesce, NULL with none.
Overlap_null(a, b) == a.from < b.to /\ b.from < a.to /\ a.to # Never /\ b.to # Never

\* Periods are closed at their start and open at their end.
Overlap(a, b) == a.from < b.to /\ b.from < a.to

\* find_active_overlap_for_program_version, before it insists on one row.
Overlapping(rows, v) ==
    {w \in Active(rows) \ {v} : Overlap(rows[v], rows[w])}

\* ex_program_versions_active_no_overlap
Consistent(rows) == \A v \in Active(rows) : Overlapping(rows, v) = {}

Archived(rows, ws) ==
    [v \in DOMAIN rows |->
        IF v \in ws THEN [rows[v] EXCEPT !.status = "archived"] ELSE rows[v]]

\* get_active_program_version
InForce(rows, at) ==
    {v \in Active(rows) :
        /\ rows[v].from <= at /\ at < rows[v].to
        /\ \A w \in Active(rows) :
              rows[w].from <= at /\ at < rows[w].to => rows[w].from <= rows[v].from}

-----------------------------------------------------------------------------
(***************************************************************************)
(* update_program_version.  A period that ends before it starts and one    *)
(* that overlaps an active version's are refused.                          *)
(***************************************************************************)
UpdateVersion(v, row) ==
    LET rows == [versions EXCEPT ![v] = row]
    IN  /\ versions[v].status # "absent"
        /\ row.from < row.to
        /\ row.status = "active" => Overlapping(rows, v) = {}
        /\ versions' = rows
        /\ UNCHANGED <<newest, documents, bronze, semantic,
                       publishing, requests, moment>>

(***************************************************************************)
(* activate_program_version.  With force, all active versions of the       *)
(* program are archived; the flush updates rows in the order of their      *)
(* keys, so one that conflicts and has a greater key than the target is    *)
(* still active when the target is updated, and the constraint refuses it. *)
(* More than one conflicting version raises MultipleResultsFound.          *)
(***************************************************************************)
Activate(v, force) ==
    LET conflicts == Overlapping(versions, v)
        activated(rows) == [rows EXCEPT ![v].status = "active"]
    IN  /\ versions[v].status # "absent"
        /\ \/ /\ conflicts = {}
              /\ versions' = activated(versions)
           \/ /\ force
              /\ Cardinality(conflicts) = 1
              /\ \A w \in conflicts : w < v
              /\ versions' = activated(Archived(versions, Active(versions) \ {v}))
        /\ UNCHANGED <<newest, documents, bronze, semantic,
                       publishing, requests, moment>>

-----------------------------------------------------------------------------
\* DiffEngine.compare: no hash of a previous item, or another one.
Changed(s, page) == semantic[s] # Meaning[page]

\* A task has stored what it has fetched as bronze.
Stored(s, page) ==
    /\ bronze' = [bronze EXCEPT ![s] = page]
    /\ semantic' = [semantic EXCEPT ![s] = Meaning[page]]

\* The raw hash is unchanged: skipped, and the item has no semantic hash.
SkipRaw(s) ==
    /\ publishing[s] = Unread
    /\ bronze[s] # "none"
    /\ semantic' = [semantic EXCEPT ![s] = "none"]
    /\ UNCHANGED <<versions, newest, documents, bronze,
                   publishing, requests, moment>>

(***************************************************************************)
(* Below the threshold (manual_review), or without a change (skipped):     *)
(* nothing is published.  The document refers to the newest version; if    *)
(* the source has one for it, uq_source_documents_program_version_source_- *)
(* url makes the transaction fail and nothing is stored.                   *)
(***************************************************************************)
RecordOnly(s, page) ==
    /\ publishing[s] = Unread
    /\ bronze[s] # page
    /\ page \notin Clear \/ ~Changed(s, page)
    /\ newest = 0 \/ <<s, newest>> \notin documents
    /\ documents' = documents \cup {<<s, newest>>}
    /\ Stored(s, page)
    /\ UNCHANGED <<versions, newest, publishing, requests, moment>>

\* _publish_version reads the time and the active versions.
ListActive(s, page) ==
    /\ publishing[s] = Unread
    /\ bronze[s] # page
    /\ page \in Clear /\ Changed(s, page)
    /\ publishing' = [publishing EXCEPT ![s] =
           [page |-> page, listed |-> Active(versions), at |-> moment]]
    /\ UNCHANGED <<versions, newest, documents, bronze, semantic, requests, moment>>

\* The rows after the publication of v, archive_program_versions first.
Republished(v, listed, at) ==
    [w \in Versions |->
        CASE w = v -> [status |-> "active", from |-> at, to |-> Never]
          [] w \in listed -> [status |-> "archived", from |-> versions[w].from, to |-> at]
          [] OTHER -> versions[w]]

(***************************************************************************)
(* The commit of a publication.  It is refused if a listed version would   *)
(* end before it starts (it is active in the future) or if one that was    *)
(* not listed is active by now.                                            *)
(***************************************************************************)
PublishVersion(s, v) ==
    LET p == publishing[s]
        rows == Republished(v, p.listed, p.at)
    IN  /\ p # Unread
        /\ versions[v].status = "absent"
        /\ \A w \in p.listed : versions[w].from < p.at
        /\ Consistent(rows)
        /\ versions' = rows
        /\ newest' = v
        /\ documents' = documents \cup {<<s, v>>}
        /\ Stored(s, p.page)
        /\ publishing' = [publishing EXCEPT ![s] = Unread]
        /\ UNCHANGED <<requests, moment>>

\* A refused or interrupted publication is rolled back.
PublicationFails(s) ==
    /\ publishing[s] # Unread
    /\ publishing' = [publishing EXCEPT ![s] = Unread]
    /\ UNCHANGED <<versions, newest, documents, bronze, semantic, requests, moment>>

-----------------------------------------------------------------------------
\* An assessment of the program, requested while a version is in force.
Request(a) ==
    /\ requests[a].status = "none"
    /\ InForce(versions, moment) # {}
    /\ requests' = [requests EXCEPT ![a] =
                       [status |-> "pending", requested_at |-> moment]]
    /\ UNCHANGED <<versions, newest, documents, bronze, semantic, publishing, moment>>

\* _compute_and_persist_assessment: without a version, a ValueError.
Score(a) ==
    /\ requests[a].status = "pending"
    /\ requests' = [requests EXCEPT ![a].status =
           IF InForce(versions, requests[a].requested_at) = {}
           THEN "dead_letter" ELSE "completed"]
    /\ UNCHANGED <<versions, newest, documents, bronze, semantic, publishing, moment>>

Later ==
    /\ moment < LastMoment
    /\ moment' = moment + 1
    /\ UNCHANGED <<versions, newest, documents, bronze, semantic, publishing, requests>>

VersionsNext ==
    \/ \E v \in Versions :
          \/ \E row \in Patches : UpdateVersion(v, row)
          \/ \E force \in BOOLEAN : Activate(v, force)
    \/ \E s \in Feeds :
          \/ SkipRaw(s)
          \/ \E page \in Pages : RecordOnly(s, page) \/ ListActive(s, page)
          \/ \E v \in Versions : PublishVersion(s, v)
          \/ PublicationFails(s)
    \/ \E a \in Requests : Request(a) \/ Score(a)
    \/ Later

VersionsSpec == VersionsInit /\ [][VersionsNext]_versionsVars

-----------------------------------------------------------------------------
(***************************************************************************)
(* A publication takes effect with its commit: assessments requested from  *)
(* then on are scored with the new version and no other, although the      *)
(* active versions and the time were read before another publication or a  *)
(* change by an administrator was committed.                               *)
(***************************************************************************)
PublicationInForce ==
    [][\A v \in Versions :
          versions[v].status = "absent" /\ versions'[v].status # "absent"
             => InForce(versions', moment) = {v}]_versionsVars

(***************************************************************************)
(* docs/06: "Seleciona program_version ativa na data da solicitação."  An  *)
(* assessment that was requested while a version was in force is scored,   *)
(* whatever is published before a worker takes it up.                      *)
(***************************************************************************)
RequestedVersionFound == \A a \in Requests : requests[a].status # "dead_letter"
=============================================================================
