------------------------------ MODULE Ingestion ------------------------------
(***************************************************************************)
(* The orchestration of the ingestion pipeline: a run with one item per    *)
(* source, ingest_source_task (or the synchronous reprocess-source         *)
(* request) working on an item, the health of the sources, and the         *)
(* finalizers of a run.  What an item publishes is ProgramVersions'.       *)
(*                                                                         *)
(* A step is a transaction.  SQLAlchemy writes the attributes that were    *)
(* changed and no others, so every process keeps what it has loaded.       *)
(***************************************************************************)
EXTENDS Integers, FiniteSets

CONSTANTS
    Sources,            \* active rows of source_registry
    Workers,            \* tasks and requests that run at a time
    MaxRetries,         \* ingestion_task_max_retries
    QuarantineAfter,    \* ingestion_quarantine_after_failures
    MaxRuns,            \* bound: runs created
    MaxItems,           \* bound: items they have in all
    MaxFaults           \* bound: lost publications, workers, finalizations

ASSUME IngestionAssumption ==
    /\ IsFiniteSet(Sources)
    /\ {MaxRetries, MaxRuns, MaxItems, MaxFaults} \subseteq Nat
    /\ QuarantineAfter \in Nat \ {0}

VARIABLES
    health,     \* source_registry: consecutive_failures and quarantine_until
    runs,       \* ingestion_run: status
    items,      \* ingestion_run_item: status and attempt_number
    unsent,     \* items committed with their run and not yet published
    queue,      \* messages on ingestion_queue
    wrk,        \* tasks and requests
    stranded,   \* items that failed and that no task will take up again
    streak,     \* failed fetches of a source since its last good one
    overlapped, \* sources that two processes have worked on at a time
    faults

vars == <<health, runs, items, unsent, queue, wrk,
          stranded, streak, overlapped, faults>>

Runs == 1 .. MaxRuns
Item == Runs \X Sources

Success == {"completed", "skipped", "manual_review"}
Closed == {"failed", "quarantined"}
Open == {"pending", "running"}

RunStatus == {"absent", "pending", "running", "completed", "failed"}

Message == [item : Item, retries : 0 .. MaxRetries]

Health == [failures : Nat, until : {"none", "past", "future"}]

Idle == [pc |-> "idle"]

\* seen: the run's status as loaded; write: the status the finalizer has chosen.
Work == {Idle} \cup
    [pc : {"check", "process", "fail_item", "list", "write"},
     item : Item, retries : 0 .. MaxRetries, sync : BOOLEAN, loaded : Health,
     exc : {"none", "transient", "definitive"},
     seen : RunStatus \cup {"none"}, write : RunStatus \cup {"none"}]

TypeOK ==
    /\ health \in [Sources -> Health]
    /\ runs \in [Runs -> RunStatus]
    /\ items \in [Item -> [status : {"absent"} \cup Open \cup Success \cup Closed,
                           attempt : 0 .. MaxRetries + 1]]
    /\ unsent \subseteq Item
    /\ queue \subseteq Message
    /\ wrk \in [Workers -> Work]
    /\ stranded \subseteq Item
    /\ streak \in [Sources -> Nat]
    /\ overlapped \subseteq Sources
    /\ faults \in 0 .. MaxFaults

Init ==
    /\ health = [s \in Sources |-> [failures |-> 0, until |-> "none"]]
    /\ runs = [r \in Runs |-> "absent"]
    /\ items = [i \in Item |-> [status |-> "absent", attempt |-> 0]]
    /\ unsent = {}
    /\ queue = {}
    /\ wrk = [w \in Workers |-> Idle]
    /\ stranded = {}
    /\ streak = [s \in Sources |-> 0]
    /\ overlapped = {}
    /\ faults = 0

-----------------------------------------------------------------------------
RunOf(i) == i[1]
SourceOf(i) == i[2]
ItemsOf(r) == {r} \X Sources

Advance(w, pc) == wrk' = [wrk EXCEPT ![w].pc = pc, ![w].exc = "none"]
Release(w) == wrk' = [wrk EXCEPT ![w] = Idle]
SetItem(i, status) == items' = [items EXCEPT ![i].status = status]

Created == {i \in Item : items[i].status # "absent"}

\* The next run of an empty slot, with its items, in one commit.
CreateRun(chosen) ==
    \E r \in Runs :
        /\ Cardinality(Created) + Cardinality(chosen) <= MaxItems
        /\ runs[r] = "absent" /\ \A q \in 1 .. r - 1 : runs[q] # "absent"
        /\ runs' = [runs EXCEPT ![r] = "pending"]
        /\ items' = [i \in Item |-> IF i \in {r} \X chosen
                                    THEN [status |-> "pending", attempt |-> 0]
                                    ELSE items[i]]
        /\ unsent' = unsent \cup ({r} \X chosen)
        /\ UNCHANGED <<health, queue, wrk, stranded, streak, overlapped, faults>>

\* dispatch_scheduled_ingestion: sources in quarantine are left out.
DispatchScheduled ==
    LET eligible == {s \in Sources : health[s].until # "future"}
    IN  eligible # {} /\ CreateRun(eligible)

\* dispatch_country_ingestion_task: list_active_sources.
DispatchCountry == CreateRun(Sources)

\* reprocess-source, whether the item is then published or worked on.
Reprocess(s) == CreateRun({s})

Publish(i) ==
    /\ i \in unsent
    /\ unsent' = unsent \ {i}
    /\ queue' = queue \cup {[item |-> i, retries |-> 0]}
    /\ UNCHANGED <<health, runs, items, wrk, stranded, streak, overlapped, faults>>

\* The broker refuses a message or the dispatcher dies: the rest stays unsent.
PublishFails(i) ==
    /\ i \in unsent
    /\ faults < MaxFaults
    /\ unsent' = unsent \ ItemsOf(RunOf(i))
    /\ faults' = faults + 1
    /\ UNCHANGED <<health, runs, items, queue, wrk, stranded, streak, overlapped>>

-----------------------------------------------------------------------------
Busy(s) == \E w \in Workers : wrk[w] # Idle /\ SourceOf(wrk[w].item) = s

\* get_run_item loads the item with its source and run; the item is running.
Begin(w, i, retries, sync) ==
    /\ wrk[w] = Idle
    /\ wrk' = [wrk EXCEPT ![w] =
                  [pc |-> "check", item |-> i, retries |-> retries, sync |-> sync,
                   loaded |-> health[SourceOf(i)], exc |-> "none",
                   seen |-> "none", write |-> "none"]]
    /\ items' = [items EXCEPT ![i] = [status |-> "running", attempt |-> retries + 1]]
    /\ runs' = [runs EXCEPT ![RunOf(i)] = IF @ = "pending" THEN "running" ELSE @]
    /\ overlapped' = overlapped \cup {s \in {SourceOf(i)} : Busy(s)}
    /\ UNCHANGED <<health, stranded, streak, faults>>

Take(w, m) ==
    /\ m \in queue
    /\ queue' = queue \ {m}
    /\ Begin(w, m.item, m.retries, FALSE)
    /\ UNCHANGED unsent

\* reprocess-source with sync: the request processes the run's only item (a
\* scheduled run of one source is in the same state as the request's).
ProcessSync(w, i) ==
    /\ i \in unsent
    /\ \A j \in ItemsOf(RunOf(i)) \ {i} : items[j].status = "absent"
    /\ unsent' = unsent \ {i}
    /\ Begin(w, i, 0, TRUE)
    /\ UNCHANGED queue

\* The source was in quarantine when it was loaded: no fetch.
Quarantined(w) ==
    /\ wrk[w].pc = "check"
    /\ wrk[w].loaded.until = "future"
    /\ SetItem(wrk[w].item, "quarantined")
    /\ Advance(w, "list")
    /\ UNCHANGED <<health, runs, unsent, queue, stranded, streak, overlapped, faults>>

\* fetcher.fetch returns.
Fetch(w) ==
    /\ wrk[w].pc = "check"
    /\ wrk[w].loaded.until # "future"
    /\ streak' = [streak EXCEPT ![SourceOf(wrk[w].item)] = 0]
    /\ Advance(w, "process")
    /\ UNCHANGED <<health, runs, items, unsent, queue, stranded, overlapped, faults>>

\* The content is the latest bronze document's: the health is left alone.
SkipUnchanged(w) ==
    /\ wrk[w].pc = "process"
    /\ SetItem(wrk[w].item, "skipped")
    /\ Advance(w, "list")
    /\ UNCHANGED <<health, runs, unsent, queue, stranded, streak, overlapped, faults>>

\* What an UPDATE makes of a row: attributes whose loaded value changes.
Written(row, loaded, new) ==
    [f \in DOMAIN row |-> IF new[f] = loaded[f] THEN row[f] ELSE new[f]]

\* Extraction and publication, reset_source_health and the item, in one commit.
Complete(w, status) ==
    LET s == SourceOf(wrk[w].item)
    IN  /\ wrk[w].pc = "process"
        /\ SetItem(wrk[w].item, status)
        /\ health' = [health EXCEPT ![s] =
               Written(@, wrk[w].loaded, [failures |-> 0, until |-> "none"])]
        /\ Advance(w, "list")
        /\ UNCHANGED <<runs, unsent, queue, stranded, streak, overlapped, faults>>

Quarantines(w) == wrk[w].loaded.failures + 1 >= QuarantineAfter

\* Mutant of FetchFails: the quarantine starts one failure late.
FetchFails_late(w, exc) ==
    LET s == SourceOf(wrk[w].item)
        failures == wrk[w].loaded.failures + 1
    IN  /\ wrk[w].pc = "check"
        /\ wrk[w].loaded.until # "future"
        /\ streak' = [streak EXCEPT ![s] = @ + 1]
        /\ health' = [health EXCEPT ![s] = Written(@, wrk[w].loaded,
               [failures |-> failures,
                until    |-> IF failures > QuarantineAfter THEN "future" ELSE "none"])]
        /\ wrk' = [wrk EXCEPT ![w].pc = "fail_item", ![w].exc = exc]
        /\ UNCHANGED <<runs, items, unsent, queue, stranded, overlapped, faults>>

(***************************************************************************)
(* The fetch raises.  No transaction is open, so the rollback expires      *)
(* nothing, and mark_source_failure counts up from what was loaded.        *)
(***************************************************************************)
FetchFails(w, exc) ==
    LET s == SourceOf(wrk[w].item)
    IN  /\ wrk[w].pc = "check"
        /\ wrk[w].loaded.until # "future"
        /\ streak' = [streak EXCEPT ![s] = @ + 1]
        /\ health' = [health EXCEPT ![s] = Written(@, wrk[w].loaded,
               [failures |-> wrk[w].loaded.failures + 1,
                until    |-> IF Quarantines(w) THEN "future" ELSE "none"])]
        /\ wrk' = [wrk EXCEPT ![w].pc = "fail_item", ![w].exc = exc]
        /\ UNCHANGED <<runs, items, unsent, queue, stranded, overlapped, faults>>

\* Mutant of HandleError: a transient error on the last attempt is dropped.
HandleError_dropped(w, exc) ==
    IF wrk[w].sync \/ (exc # "definitive" /\ wrk[w].retries >= MaxRetries)
    THEN /\ stranded' = IF wrk[w].sync THEN stranded \cup {wrk[w].item} ELSE stranded
         /\ Release(w)
         /\ UNCHANGED queue
    ELSE IF exc = "definitive"
         THEN Advance(w, "list") /\ UNCHANGED <<queue, stranded>>
         ELSE /\ queue' = queue \cup {[item    |-> wrk[w].item,
                                       retries |-> wrk[w].retries + 1]}
              /\ Release(w)
              /\ UNCHANGED stranded

(***************************************************************************)
(* The except clause of ingest_source_task: a dead letter finalizes the    *)
(* run, anything else is retried.  A request answers 500 and does neither. *)
(***************************************************************************)
HandleError(w, exc) ==
    \/ /\ wrk[w].sync
       /\ stranded' = stranded \cup {wrk[w].item}
       /\ Release(w)
       /\ UNCHANGED queue
    \/ /\ ~wrk[w].sync
       /\ exc = "definitive" \/ wrk[w].retries >= MaxRetries
       /\ stranded' = IF items'[wrk[w].item].status = "running"
                      THEN stranded \cup {wrk[w].item} ELSE stranded
       /\ Advance(w, "list")
       /\ UNCHANGED queue
    \/ /\ ~wrk[w].sync
       /\ exc = "transient" /\ wrk[w].retries < MaxRetries
       /\ queue' = queue \cup {[item |-> wrk[w].item, retries |-> wrk[w].retries + 1]}
       /\ Release(w)
       /\ UNCHANGED stranded

\* The second commit of _handle_processing_error, and the exception goes on.
FailItem(w) ==
    /\ wrk[w].pc = "fail_item"
    /\ SetItem(wrk[w].item, IF Quarantines(w) THEN "quarantined" ELSE "failed")
    /\ HandleError(w, wrk[w].exc)
    /\ UNCHANGED <<health, runs, unsent, streak, overlapped, faults>>

(***************************************************************************)
(* An exception after the first query: the rollback expires the source,    *)
(* reading source.id raises MissingGreenlet, and neither the source nor    *)
(* the item is told.  What reaches the task counts as transient.           *)
(***************************************************************************)
ProcessFails(w) ==
    /\ wrk[w].pc = "process"
    /\ UNCHANGED items
    /\ HandleError(w, "transient")
    /\ UNCHANGED <<health, runs, unsent, streak, overlapped, faults>>

-----------------------------------------------------------------------------
Statuses(r) == {items[i].status : i \in ItemsOf(r)} \ {"absent"}

\* Mutant of Verdict: an item that failed is not counted.
Verdict_failed_ignored(r) ==
    IF Statuses(r) \cap Open # {} THEN "running"
    ELSE IF Statuses(r) \cap {"quarantined"} # {} THEN "failed" ELSE "completed"

Verdict(r) ==
    IF Statuses(r) \cap Open # {} THEN "running"
    ELSE IF Statuses(r) \cap Closed # {} THEN "failed" ELSE "completed"

\* finalize_run loads the run and its items in a session of its own.
ListItems(w) ==
    LET r == RunOf(wrk[w].item)
    IN  /\ wrk[w].pc = "list"
        /\ wrk' = [wrk EXCEPT ![w].pc = "write",
                              ![w].seen = runs[r], ![w].write = Verdict(r)]
        /\ UNCHANGED <<health, runs, items, unsent, queue,
                       stranded, streak, overlapped, faults>>

\* Mutant of WriteRun: the UPDATE writes every column.
WriteRun_all_columns(w) ==
    /\ wrk[w].pc = "write"
    /\ runs' = [runs EXCEPT ![RunOf(wrk[w].item)] = wrk[w].write]
    /\ Release(w)
    /\ UNCHANGED <<health, items, unsent, queue, stranded, streak, overlapped, faults>>

WriteRun(w) ==
    /\ wrk[w].pc = "write"
    /\ runs' = [runs EXCEPT ![RunOf(wrk[w].item)] =
                   IF wrk[w].write = wrk[w].seen THEN @ ELSE wrk[w].write]
    /\ Release(w)
    /\ UNCHANGED <<health, items, unsent, queue, stranded, streak, overlapped, faults>>

\* A failing finalize_run is inside the try: the item is worked on again.
FinalizeFails(w) ==
    /\ wrk[w].pc \in {"list", "write"}
    /\ items[wrk[w].item].status \in Success \/ wrk[w].loaded.until = "future"
    /\ faults < MaxFaults
    /\ faults' = faults + 1
    /\ UNCHANGED items
    /\ HandleError(w, "transient")
    /\ UNCHANGED <<health, runs, unsent, streak, overlapped>>

\* The hard time limit, a lost worker, or an error inside the except clause.
Crash(w) ==
    /\ wrk[w] # Idle
    /\ faults < MaxFaults
    /\ faults' = faults + 1
    /\ Release(w)
    /\ UNCHANGED <<health, runs, items, unsent, queue, stranded, streak, overlapped>>

\* quarantine_until passes.
QuarantineEnds(s) ==
    /\ health[s].until = "future"
    /\ health' = [health EXCEPT ![s].until = "past"]
    /\ UNCHANGED <<runs, items, unsent, queue, wrk, stranded, streak, overlapped, faults>>

-----------------------------------------------------------------------------
WorkerStep(w) ==
    \/ \E m \in queue : Take(w, m)
    \/ Quarantined(w)
    \/ Fetch(w)
    \/ SkipUnchanged(w)
    \/ \E status \in Success : Complete(w, status)
    \/ \E exc \in {"transient", "definitive"} : FetchFails(w, exc)
    \/ FailItem(w)
    \/ ProcessFails(w)
    \/ ListItems(w)
    \/ WriteRun(w)

Next ==
    \/ DispatchScheduled
    \/ DispatchCountry
    \/ \E s \in Sources : Reprocess(s) \/ QuarantineEnds(s)
    \/ \E i \in unsent : Publish(i) \/ PublishFails(i)
    \/ \E w \in Workers :
          \/ WorkerStep(w)
          \/ \E i \in unsent : ProcessSync(w, i)
          \/ FinalizeFails(w)
          \/ Crash(w)

Spec == Init /\ [][Next]_vars

\* Dispatchers send what they have created; workers that are up keep working.
FairSpec ==
    /\ Spec
    /\ \A i \in Item : WF_vars(Publish(i))
    /\ \A w \in Workers : WF_vars(WorkerStep(w))

-----------------------------------------------------------------------------
(***************************************************************************)
(* GET /ingestion/runs reports a run as completed only when each of its    *)
(* items was: a finalizer that has listed the items before a retry or      *)
(* another task changed them does not make a success of a failure.  (The   *)
(* faults are left out: a finalize_run that fails makes the task redo an   *)
(* item that was completed.)                                               *)
(***************************************************************************)
CompletedRunAllSucceeded ==
    \A r \in Runs : runs[r] = "completed" /\ faults = 0
                       => Statuses(r) \subseteq Success

(***************************************************************************)
(* docs/06: a source that reaches the limit of consecutive failures is put *)
(* in quarantine.  The count is read before the fetch and written after    *)
(* it, so this is claimed of the sources no two processes have worked on   *)
(* at a time.                                                              *)
(***************************************************************************)
QuarantineReached ==
    \A s \in Sources \ overlapped :
        streak[s] >= QuarantineAfter => health[s].until # "none"

(***************************************************************************)
(* Every item is brought to an end, through retries and quarantine, except *)
(* those stranded by an error after the fetch, and those a fault has hit.  *)
(***************************************************************************)
ItemsSettle ==
    \A i \in Item :
        items[i].status \in Open
            ~> items[i].status \in Success \cup Closed \/ i \in stranded \/ faults > 0

(***************************************************************************)
(* The finalizers of a run overlap, each with the run and the items as it  *)
(* has loaded them.  When no item is retried, the last one to list sees    *)
(* the run's end and none of the others takes it back, so a client that    *)
(* polls the run sees it end.                                              *)
(***************************************************************************)
RunsSettle ==
    \A r \in Runs :
        runs[r] # "absent"
            ~> \/ runs[r] \in {"completed", "failed"}
               \/ \E i \in ItemsOf(r) : i \in stranded \/ items[i].attempt > 1
               \/ faults > 0
=============================================================================
