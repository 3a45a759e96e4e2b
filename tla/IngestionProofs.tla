--------------------------- MODULE IngestionProofs ---------------------------
(***************************************************************************)
(* The safety of the ingestion's orchestration for every number of         *)
(* sources, workers, retries, runs, items and faults.                      *)
(***************************************************************************)
EXTENDS Ingestion, TLAPS

Working(w) == wrk[w] # Idle

(***************************************************************************)
(* An item waits to be published, is in one message, or is worked on by    *)
(* one process; never two of these.                                        *)
(***************************************************************************)
OneCarrier ==
    /\ \A m \in queue : m.item \notin unsent
    /\ \A m, n \in queue : m # n => m.item # n.item
    /\ \A w \in Workers : Working(w) =>
          /\ wrk[w].item \notin unsent
          /\ \A m \in queue : m.item # wrk[w].item
    /\ \A v, w \in Workers : Working(v) /\ Working(w) /\ v # w =>
          wrk[v].item # wrk[w].item

\* The states an item may be in while it has a carrier.  Only a fault makes
\* a task take up an item that has succeeded.
CarriedItems ==
    /\ \A i \in unsent : items[i].status = "pending"
    /\ \A m \in queue : /\ items[m.item].status # "absent"
                        /\ faults = 0 => items[m.item].status \notin Success
    /\ \A w \in Workers : Working(w) =>
          /\ items[wrk[w].item].status # "absent"
          /\ wrk[w].pc \in {"check", "process", "fail_item"} =>
                items[wrk[w].item].status = "running"

AllDone(r) == \A i \in ItemsOf(r) : items[i].status \in Success \cup {"absent"}

(***************************************************************************)
(* A finalizer that is about to write a success has seen the end of every  *)
(* item, and so has one that has written it.                               *)
(***************************************************************************)
RunsJudged ==
    /\ \A i \in Item : items[i].status # "absent" => runs[RunOf(i)] # "absent"
    /\ faults = 0 => \A w \in Workers :
          wrk[w].pc = "write" /\ wrk[w].write = "completed" =>
              AllDone(RunOf(wrk[w].item))
    /\ faults = 0 => \A r \in Runs : runs[r] = "completed" => AllDone(r)

(***************************************************************************)
(* The health of a source on which no two processes have worked at a time: *)
(* what the process has loaded is still what is stored.                    *)
(***************************************************************************)
HealthKnown ==
    \A s \in Sources \ overlapped :
        /\ streak[s] <= health[s].failures
        /\ streak[s] >= QuarantineAfter => health[s].until # "none"
        /\ \A v, w \in Workers :
              /\ Working(v) /\ SourceOf(wrk[v].item) = s
              /\ Working(w) /\ SourceOf(wrk[w].item) = s
              => v = w
        /\ \A w \in Workers :
              /\ Working(w) /\ SourceOf(wrk[w].item) = s
              /\ wrk[w].pc \in {"check", "process"}
              => /\ wrk[w].loaded.failures = health[s].failures
                 /\ wrk[w].loaded.until # "future" =>
                       wrk[w].loaded.until = health[s].until
                 /\ wrk[w].pc = "process" => streak[s] = 0

\* A fetched source was not in quarantine; a finalizer has chosen a status.
TasksSane ==
    \A w \in Workers :
        /\ wrk[w].pc = "process" => wrk[w].loaded.until # "future"
        /\ wrk[w].pc = "write" => wrk[w].write \in {"running", "completed", "failed"}

Inv == TypeOK /\ TasksSane /\ OneCarrier /\ CarriedItems /\ RunsJudged /\ HealthKnown

-----------------------------------------------------------------------------
LEMMA IngestionConstants ==
    /\ MaxRetries \in Nat /\ MaxRuns \in Nat /\ MaxFaults \in Nat
    /\ QuarantineAfter \in Nat \ {0}
    /\ \A i \in Item : RunOf(i) \in Runs /\ SourceOf(i) \in Sources
    /\ \A i \in Item : i \in ItemsOf(RunOf(i))
    /\ \A r \in Runs : ItemsOf(r) \subseteq Item
    /\ \A r \in Runs : \A i \in ItemsOf(r) : RunOf(i) = r
  BY IngestionAssumption DEF RunOf, SourceOf, ItemsOf, Item

\* What the type says of a process.
LEMMA ProcessTyped ==
    ASSUME TypeOK, NEW w \in Workers
    PROVE  /\ wrk[w].pc = "idle" <=> ~Working(w)
           /\ Working(w) => /\ wrk[w].item \in Item
                            /\ wrk[w].retries \in 0 .. MaxRetries
                            /\ wrk[w].loaded \in Health
                            /\ wrk[w].sync \in BOOLEAN
                            /\ wrk[w] \in Work \ {Idle}
  BY DEF TypeOK, Work, Idle, Working

LEMMA InitialInv == Init => Inv
<1> SUFFICES ASSUME Init
             PROVE  Inv
  OBVIOUS
<1>1. TypeOK
  BY IngestionConstants DEF Init, TypeOK, Health, RunStatus, Work
<1>2. OneCarrier /\ CarriedItems /\ TasksSane
  BY DEF Init, OneCarrier, CarriedItems, Working, TasksSane, Idle
<1>3. RunsJudged
  BY DEF Init, RunsJudged, Idle
<1>4. HealthKnown
  BY IngestionConstants DEF Init, HealthKnown, Working
<1> QED
  BY <1>1, <1>2, <1>3, <1>4 DEF Inv


-----------------------------------------------------------------------------
(***************************************************************************)
(* How a process changes when it goes on, stops, or meets an error.        *)
(***************************************************************************)
Others(w) == \A v \in Workers \ {w} : wrk'[v] = wrk[v]

\* It stays on its item with what it has loaded, at pc.
Continues(w, pc) ==
    /\ wrk' \in [Workers -> Work]
    /\ Others(w)
    /\ wrk'[w].pc = pc
    /\ wrk'[w].item = wrk[w].item
    /\ wrk'[w].loaded = wrk[w].loaded

Stops(w) ==
    /\ wrk' \in [Workers -> Work]
    /\ Others(w)
    /\ wrk'[w] = Idle

\* It stops and sends its item again.
Resends(w) ==
    /\ Stops(w)
    /\ wrk[w].retries < MaxRetries
    /\ queue' = queue \cup {[item |-> wrk[w].item, retries |-> wrk[w].retries + 1]}

LEMMA AdvanceContinues ==
    ASSUME TypeOK, NEW w \in Workers, Working(w),
           NEW pc \in {"check", "process", "fail_item", "list", "write"}, Advance(w, pc)
    PROVE  Continues(w, pc)
<1> DEFINE t == [wrk[w] EXCEPT !.pc = pc, !.exc = "none"]
<1>1. wrk[w] \in Work \ {Idle} /\ wrk \in [Workers -> Work]
  BY ProcessTyped DEF TypeOK
<1>2. t \in Work /\ t.pc = pc /\ t.item = wrk[w].item /\ t.loaded = wrk[w].loaded
  BY <1>1 DEF Work
<1>3. wrk' = [wrk EXCEPT ![w] = t]
  BY <1>1 DEF Advance, Work
<1> HIDE DEF t
<1> QED
  BY <1>1, <1>2, <1>3 DEF Continues, Others

LEMMA ReleaseStops ==
    ASSUME TypeOK, NEW w \in Workers, Release(w)
    PROVE  Stops(w)
  BY DEF Release, Stops, Others, TypeOK, Work

\* Of an error come a dead letter, a new message, or a request's answer.
LEMMA ErrorHandled ==
    ASSUME TypeOK, NEW w \in Workers, Working(w), NEW exc, HandleError(w, exc)
    PROVE  /\ stranded' \subseteq Item /\ queue' \subseteq Message
           /\ \/ queue' = queue /\ Stops(w)
              \/ queue' = queue /\ Continues(w, "list")
              \/ Resends(w)
<1>1. wrk[w].item \in Item /\ wrk[w].retries \in 0 .. MaxRetries
  BY ProcessTyped
<1>2. stranded \subseteq Item /\ queue \subseteq Message
  BY DEF TypeOK
<1>3. CASE Release(w) /\ queue' = queue /\ stranded' = stranded \cup {wrk[w].item}
  BY <1>1, <1>2, <1>3, ReleaseStops
<1>4. CASE /\ Advance(w, "list") /\ queue' = queue
           /\ stranded' = IF items'[wrk[w].item].status = "running"
                          THEN stranded \cup {wrk[w].item} ELSE stranded
  BY <1>1, <1>2, <1>4, AdvanceContinues
<1>5. CASE /\ Release(w) /\ wrk[w].retries < MaxRetries /\ stranded' = stranded
           /\ queue' = queue \cup {[item |-> wrk[w].item, retries |-> wrk[w].retries + 1]}
  <2>1. wrk[w].retries + 1 \in 0 .. MaxRetries
    BY <1>1, <1>5, IngestionConstants
  <2> QED
    BY <1>1, <1>2, <1>5, <2>1, ReleaseStops DEF Resends, Message
<1> QED
  BY <1>3, <1>4, <1>5 DEF HandleError

LEMMA WrittenRow ==
    ASSUME NEW row \in Health, NEW loaded \in Health, NEW new \in Health
    PROVE  /\ Written(row, loaded, new) \in Health
           /\ Written(row, loaded, new).failures =
                 IF new.failures = loaded.failures THEN row.failures ELSE new.failures
           /\ Written(row, loaded, new).until =
                 IF new.until = loaded.until THEN row.until ELSE new.until
<1>1. DOMAIN row = {"failures", "until"}
  BY DEF Health
<1>2. Written(row, loaded, new) =
         [failures |-> IF new.failures = loaded.failures THEN row.failures ELSE new.failures,
          until    |-> IF new.until = loaded.until THEN row.until ELSE new.until]
  BY <1>1 DEF Written
<1> QED
  BY <1>2 DEF Health

\* What a status update leaves.
LEMMA ItemSet ==
    ASSUME TypeOK, NEW i \in Item,
           NEW status \in Success \cup Closed, SetItem(i, status)
    PROVE  /\ items' \in [Item -> [status : {"absent"} \cup Open \cup Success \cup Closed,
                                   attempt : 0 .. MaxRetries + 1]]
           /\ items'[i].status = status
           /\ \A j \in Item \ {i} : items'[j] = items[j]
  BY DEF SetItem, TypeOK


-----------------------------------------------------------------------------
(***************************************************************************)
(* What the carriers, the run and the health need of a step of a process   *)
(* that works on item i.                                                   *)
(***************************************************************************)
ItemsKept(i) ==
    /\ \A j \in Item \ {i} : items'[j] = items[j]
    /\ items'[i].status # "absent"
    /\ faults' = 0 => faults = 0

LEMMA CarrierStep ==
    ASSUME Inv, NEW w \in Workers, Working(w), NEW i \in Item, i = wrk[w].item,
           ItemsKept(i), unsent' = unsent,
           \/ queue' = queue /\ Stops(w)
           \/ queue' = queue /\ Continues(w, "process") /\ items'[i].status = "running"
           \/ queue' = queue /\ Continues(w, "fail_item") /\ items'[i].status = "running"
           \/ queue' = queue /\ (Continues(w, "list") \/ Continues(w, "write"))
           \/ Resends(w) /\ (faults' = 0 => items'[i].status \notin Success)
    PROVE  OneCarrier' /\ CarriedItems'
<1>1. /\ queue \subseteq Message /\ unsent \subseteq Item
      /\ \A m \in queue : m.item \in Item
      /\ \A v \in Workers : Working(v) => wrk[v].item \in Item
  BY ProcessTyped DEF Inv, TypeOK, Message
<1>2. /\ i \notin unsent
      /\ \A m \in queue : m.item # i
      /\ \A v \in Workers \ {w} : Working(v) => wrk[v].item # i
  BY DEF Inv, OneCarrier
<1>3. \A v \in Workers \ {w} : wrk'[v] = wrk[v]
  BY DEF Stops, Resends, Continues, Others
<1>4. wrk'[w] # Idle => wrk'[w].item = i
  BY DEF Stops, Resends, Continues
<1>5. \A m \in queue' \ queue :
         m.item = i /\ wrk'[w] = Idle /\ (faults' = 0 => items'[i].status \notin Success)
  BY DEF Stops, Resends, Continues
<1>6. wrk'[w] # Idle /\ wrk'[w].pc \in {"check", "process", "fail_item"} =>
         items'[i].status = "running"
  BY DEF Stops, Resends, Continues
<1>7. \A m, n \in queue' \ queue : m = n
  BY DEF Resends
<1>8. queue \subseteq queue'
  BY DEF Resends
<1>9. OneCarrier'
  <2>1. \A m \in queue' : m.item \notin unsent'
    BY <1>2, <1>5 DEF Inv, OneCarrier
  <2>2. \A m, n \in queue' : m # n => m.item # n.item
    BY <1>2, <1>5, <1>7 DEF Inv, OneCarrier
  <2>3. \A v \in Workers : Working(v)' =>
           /\ wrk'[v].item \notin unsent'
           /\ \A m \in queue' : m.item # wrk'[v].item
    BY <1>2, <1>3, <1>4, <1>5 DEF Inv, OneCarrier, Working
  <2>4. \A u, v \in Workers : Working(u)' /\ Working(v)' /\ u # v =>
           wrk'[u].item # wrk'[v].item
    BY <1>2, <1>3, <1>4 DEF Inv, OneCarrier, Working
  <2> QED
    BY <2>1, <2>2, <2>3, <2>4 DEF OneCarrier
<1>10. CarriedItems'
  <2>1. \A j \in unsent' : items'[j].status = "pending"
    BY <1>1, <1>2 DEF Inv, CarriedItems, ItemsKept
  <2>2. \A m \in queue' : /\ items'[m.item].status # "absent"
                          /\ faults' = 0 => items'[m.item].status \notin Success
    BY <1>1, <1>2, <1>5 DEF Inv, CarriedItems, ItemsKept
  <2>3. \A v \in Workers : Working(v)' =>
           /\ items'[wrk'[v].item].status # "absent"
           /\ wrk'[v].pc \in {"check", "process", "fail_item"} =>
                 items'[wrk'[v].item].status = "running"
    BY <1>1, <1>2, <1>3, <1>4, <1>6 DEF Inv, CarriedItems, ItemsKept, Working
  <2> QED
    BY <2>1, <2>2, <2>3 DEF CarriedItems, Success
<1> QED
  BY <1>9, <1>10

\* A run is called completed by those that have seen every item succeed.
LEMMA RunStep ==
    ASSUME Inv, NEW w \in Workers, NEW i \in Item, items[i].status # "absent",
           ItemsKept(i), Others(w),
           faults' = 0 /\ items[i].status \in Success => items'[i].status \in Success,
           \A r \in Runs \ {RunOf(i)} : runs'[r] = runs[r],
           runs'[RunOf(i)] # "absent",
           faults' = 0 /\ runs'[RunOf(i)] = "completed" =>
              runs[RunOf(i)] = "completed" \/ AllDone(RunOf(i)),
           faults' = 0 /\ wrk'[w].pc = "write" /\ wrk'[w].write = "completed" =>
              wrk'[w].item = i /\ AllDone(RunOf(i))
    PROVE  RunsJudged'
<1>1. \A j \in Item : items'[j].status # "absent" => items[j].status # "absent"
  BY DEF ItemsKept
<1>2. ASSUME faults' = 0, NEW r \in Runs, AllDone(r)
      PROVE  AllDone(r)'
  BY <1>2, IngestionConstants DEF AllDone, ItemsKept
<1>3. \A v \in Workers \ {w} : wrk[v].pc = "write" => RunOf(wrk[v].item) \in Runs
  BY IngestionConstants, ProcessTyped DEF Inv
<1>4. \A j \in Item : items'[j].status # "absent" => runs'[RunOf(j)] # "absent"
  BY <1>1, IngestionConstants DEF Inv, RunsJudged
<1>5. ASSUME faults' = 0, NEW v \in Workers,
             wrk'[v].pc = "write", wrk'[v].write = "completed"
      PROVE  AllDone(RunOf(wrk[v].item))'
  <2>1. CASE v = w
    <3>1. PICK r \in Runs : r = RunOf(i)
      BY IngestionConstants
    <3>2. wrk'[v].item = i /\ AllDone(r)'
      BY <1>2, <1>5, <2>1, <3>1
    <3> QED
      BY <3>1, <3>2 DEF AllDone, RunOf
  <2>2. CASE v # w
    <3>1. wrk'[v] = wrk[v]
      BY <2>2 DEF Others
    <3>2. AllDone(RunOf(wrk[v].item)) /\ RunOf(wrk[v].item) \in Runs
      BY <1>3, <1>5, <2>2, <3>1 DEF Inv, RunsJudged, ItemsKept
    <3>3. PICK r \in Runs : r = RunOf(wrk[v].item)
      BY <3>2
    <3>4. AllDone(r)'
      BY <1>2, <1>5, <3>2, <3>3
    <3> QED
      BY <3>1, <3>3, <3>4 DEF AllDone, RunOf
  <2> QED
    BY <2>1, <2>2
<1>6. ASSUME faults' = 0, NEW r \in Runs, runs'[r] = "completed"
      PROVE  AllDone(r)'
  <2>1. AllDone(r)
    BY <1>6 DEF Inv, RunsJudged, ItemsKept
  <2> QED
    BY <1>2, <1>6, <2>1
<1> QED
  BY <1>4, <1>5, <1>6 DEF RunsJudged

\* What a process has loaded stays what is stored.
LEMMA HealthStep ==
    ASSUME Inv, NEW w \in Workers, Working(w), NEW i \in Item, i = wrk[w].item,
           NEW s \in Sources, s = SourceOf(i),
           Others(w), wrk'[w] # Idle => wrk'[w].item = i,
           overlapped' = overlapped,
           \A x \in Sources \ {s} : health'[x] = health[x] /\ streak'[x] = streak[x],
           s \notin overlapped =>
              /\ streak'[s] <= health'[s].failures
              /\ streak'[s] >= QuarantineAfter => health'[s].until # "none"
              /\ wrk'[w].pc \in {"check", "process"} =>
                    /\ wrk'[w].loaded.failures = health'[s].failures
                    /\ wrk'[w].loaded.until # "future" =>
                          wrk'[w].loaded.until = health'[s].until
                    /\ wrk'[w].pc = "process" => streak'[s] = 0
    PROVE  HealthKnown'
<1> SUFFICES ASSUME NEW x \in Sources \ overlapped
             PROVE  /\ streak'[x] <= health'[x].failures
                    /\ streak'[x] >= QuarantineAfter => health'[x].until # "none"
                    /\ \A u, v \in Workers :
                          /\ Working(u)' /\ SourceOf(wrk'[u].item) = x
                          /\ Working(v)' /\ SourceOf(wrk'[v].item) = x
                          => u = v
                    /\ \A v \in Workers :
                          /\ Working(v)' /\ SourceOf(wrk'[v].item) = x
                          /\ wrk'[v].pc \in {"check", "process"}
                          => /\ wrk'[v].loaded.failures = health'[x].failures
                             /\ wrk'[v].loaded.until # "future" =>
                                   wrk'[v].loaded.until = health'[x].until
                             /\ wrk'[v].pc = "process" => streak'[x] = 0
  BY DEF HealthKnown
<1>1. \A v \in Workers \ {w} : wrk'[v] = wrk[v]
  BY DEF Others
<1>2. \A u, v \in Workers : /\ Working(u)' /\ SourceOf(wrk'[u].item) = x
                            /\ Working(v)' /\ SourceOf(wrk'[v].item) = x
                            => u = v
  BY <1>1 DEF Inv, HealthKnown, Working
<1>3. CASE x = s
  <2>1. \A v \in Workers \ {w} : Working(v)' => SourceOf(wrk'[v].item) # s
    BY <1>1, <1>3 DEF Inv, HealthKnown, Working
  <2> QED
    BY <1>2, <1>3, <2>1 DEF Working
<1>4. CASE x # s
  <2>1. Working(w)' => SourceOf(wrk'[w].item) # x
    BY <1>4 DEF Working
  <2> QED
    BY <1>1, <1>2, <1>4, <2>1 DEF Inv, HealthKnown, Working
<1> QED
  BY <1>3, <1>4


-----------------------------------------------------------------------------
(***************************************************************************)
(* The steps of the dispatchers.                                           *)
(***************************************************************************)
LEMMA CreateRunKeeps ==
    ASSUME Inv, NEW chosen \in SUBSET Sources, CreateRun(chosen)
    PROVE  Inv'
<1> PICK r \in Runs :
       /\ runs[r] = "absent"
       /\ runs' = [runs EXCEPT ![r] = "pending"]
       /\ items' = [i \in Item |-> IF i \in {r} \X chosen
                                   THEN [status |-> "pending", attempt |-> 0]
                                   ELSE items[i]]
       /\ unsent' = unsent \cup ({r} \X chosen)
       /\ UNCHANGED <<health, queue, wrk, stranded, streak, overlapped, faults>>
  BY DEF CreateRun
<1> DEFINE new == {r} \X chosen
<1>1. /\ new \subseteq Item
      /\ \A i \in new : RunOf(i) = r /\ items'[i].status = "pending"
      /\ \A i \in Item \ new : items'[i] = items[i]
      /\ unsent' = unsent \cup new
  BY DEF Item, RunOf
<1> HIDE DEF new
<1>2. \A i \in Item : RunOf(i) = r => items[i].status = "absent"
  BY DEF Inv, RunsJudged
<1>3. \A i \in new : items[i].status = "absent"
  BY <1>1, <1>2
<1>4. /\ \A m \in queue : m.item \in Item /\ m.item \notin new
      /\ \A w \in Workers : Working(w) => wrk[w].item \in Item /\ wrk[w].item \notin new
      /\ unsent \subseteq Item
  BY <1>3, ProcessTyped DEF Inv, TypeOK, Message, CarriedItems
<1>5. TypeOK'
  BY <1>1, IngestionConstants DEF Inv, TypeOK, RunStatus, Open
<1>6. OneCarrier'
  BY <1>1, <1>4 DEF Inv, OneCarrier, Working
<1>7. CarriedItems'
  BY <1>1, <1>4 DEF Inv, CarriedItems, Working
<1>8. RunsJudged'
  <2>1. \A q \in Runs : AllDone(q) /\ q # r => AllDone(q)'
    BY <1>1, IngestionConstants DEF AllDone
  <2>2. \A i \in Item : items'[i].status # "absent" => runs'[RunOf(i)] # "absent"
    BY <1>1, IngestionConstants DEF Inv, TypeOK, RunsJudged
  <2>3. ASSUME faults' = 0, NEW w \in Workers,
               wrk'[w].pc = "write", wrk'[w].write = "completed"
        PROVE  AllDone(RunOf(wrk[w].item))'
    <3>1. Working(w) /\ wrk[w].item \in Item
      BY <2>3, ProcessTyped DEF Inv
    <3>2. PICK q \in Runs : q = RunOf(wrk[w].item)
      BY <3>1, IngestionConstants
    <3>3. AllDone(q) /\ q # r
      BY <1>2, <2>3, <3>1, <3>2 DEF Inv, RunsJudged, CarriedItems
    <3>4. AllDone(q)'
      BY <2>1, <3>3
    <3> QED
      BY <3>2, <3>4 DEF AllDone, RunOf
  <2>4. \A q \in Runs : faults' = 0 /\ runs'[q] = "completed" => AllDone(q)'
    BY <2>1 DEF Inv, TypeOK, RunsJudged
  <2> QED
    BY <2>2, <2>3, <2>4 DEF RunsJudged
<1>9. HealthKnown' /\ TasksSane'
  BY DEF Inv, HealthKnown, TasksSane, Working
<1> QED
  BY <1>5, <1>6, <1>7, <1>8, <1>9 DEF Inv

LEMMA PublishKeeps ==
    ASSUME Inv, NEW i \in unsent, Publish(i) \/ PublishFails(i)
    PROVE  Inv'
<1>1. i \in Item /\ items[i].status = "pending" /\ unsent' \subseteq unsent
  BY DEF Inv, TypeOK, CarriedItems, Publish, PublishFails
<1>2. \/ queue' = queue
      \/ queue' = queue \cup {[item |-> i, retries |-> 0]} /\ unsent' = unsent \ {i}
  BY DEF Publish, PublishFails
<1>3. UNCHANGED <<health, runs, items, wrk, stranded, streak, overlapped>>
  BY DEF Publish, PublishFails
<1>4. TypeOK'
  BY <1>1, <1>2, <1>3, IngestionConstants
     DEF Inv, TypeOK, Message, Publish, PublishFails
<1>5. faults' = 0 => faults = 0
  BY DEF Inv, TypeOK, Publish, PublishFails
<1>6. OneCarrier'
  BY <1>1, <1>2, <1>3 DEF Inv, OneCarrier, Working
<1>7. CarriedItems'
  BY <1>1, <1>2, <1>3, <1>5 DEF Inv, CarriedItems, Working, Success
<1>8. RunsJudged'
  BY <1>3, <1>5 DEF Inv, RunsJudged, AllDone, RunOf, ItemsOf
<1>9. HealthKnown' /\ TasksSane'
  BY <1>3 DEF Inv, HealthKnown, TasksSane, Working
<1> QED
  BY <1>4, <1>6, <1>7, <1>8, <1>9 DEF Inv

LEMMA QuarantineEndsKeeps ==
    ASSUME Inv, NEW s \in Sources, QuarantineEnds(s)
    PROVE  Inv'
<1>1. /\ UNCHANGED <<runs, items, unsent, queue, wrk, stranded, streak, overlapped, faults>>
      /\ health \in [Sources -> Health] /\ health[s].until = "future"
  BY DEF Inv, TypeOK, QuarantineEnds
<1>2. /\ health' \in [Sources -> Health]
      /\ health'[s].failures = health[s].failures /\ health'[s].until = "past"
      /\ \A x \in Sources \ {s} : health'[x] = health[x]
  BY <1>1 DEF QuarantineEnds, Health
<1>3. TypeOK'
  BY <1>1, <1>2 DEF Inv, TypeOK
<1>4. OneCarrier' /\ CarriedItems' /\ TasksSane'
  BY <1>1 DEF Inv, OneCarrier, CarriedItems, TasksSane, Working
<1>5. RunsJudged'
  BY <1>1 DEF Inv, RunsJudged, AllDone, RunOf, ItemsOf
<1>6. HealthKnown'
  BY <1>1, <1>2 DEF Inv, HealthKnown, Working, SourceOf
<1> QED
  BY <1>3, <1>4, <1>5, <1>6 DEF Inv

-----------------------------------------------------------------------------
(***************************************************************************)
(* A process begins to work on an item that nobody else carries.           *)
(***************************************************************************)
LEMMA BeginKeeps ==
    ASSUME Inv, NEW w \in Workers, NEW i \in Item, NEW retries \in 0 .. MaxRetries,
           NEW sync \in BOOLEAN, Begin(w, i, retries, sync),
           items[i].status # "absent",
           faults = 0 => items[i].status \notin Success,
           unsent' \subseteq unsent, queue' \subseteq queue,
           i \notin unsent', \A m \in queue' : m.item # i,
           \A v \in Workers : Working(v) => wrk[v].item # i
    PROVE  Inv'
<1> DEFINE t == [pc |-> "check", item |-> i, retries |-> retries, sync |-> sync,
                 loaded |-> health[SourceOf(i)], exc |-> "none",
                 seen |-> "none", write |-> "none"]
<1>1. PICK s \in Sources : s = SourceOf(i)
  BY IngestionConstants
<1>2. /\ t \in Work /\ t # Idle /\ t.pc = "check" /\ t.item = i
      /\ t.loaded = health[s]
  BY <1>1 DEF Inv, TypeOK, Work, Idle
<1>3. /\ wrk \in [Workers -> Work] /\ wrk[w] = Idle
      /\ wrk' = [wrk EXCEPT ![w] = t]
      /\ items' = [items EXCEPT ![i] = [status |-> "running", attempt |-> retries + 1]]
      /\ runs' = [runs EXCEPT ![RunOf(i)] = IF @ = "pending" THEN "running" ELSE @]
      /\ overlapped' = overlapped \cup {x \in {SourceOf(i)} : Busy(x)}
      /\ UNCHANGED <<health, stranded, streak, faults>>
  BY DEF Inv, TypeOK, Begin
<1> HIDE DEF t
<1>4. Others(w) /\ wrk'[w] = t
  BY <1>3 DEF Others
<1>5. retries + 1 \in 0 .. MaxRetries + 1
  BY IngestionConstants
<1>6. TypeOK'
  BY <1>1, <1>2, <1>3, <1>5, IngestionConstants
     DEF Inv, TypeOK, RunStatus, Open
<1>7. /\ items'[i].status = "running"
      /\ \A j \in Item \ {i} : items'[j] = items[j]
  BY <1>3 DEF Inv, TypeOK
<1>8. ItemsKept(i)
  BY <1>3, <1>7 DEF ItemsKept
<1>9. \A m \in queue' : m.item \in Item /\ m.item # i
  BY DEF Inv, TypeOK, Message
<1>10. \A v \in Workers \ {w} : Working(v)' => Working(v) /\ wrk'[v] = wrk[v]
                                                /\ wrk[v].item \in Item \ {i}
  BY <1>4, ProcessTyped DEF Inv, Others, Working
<1>11. OneCarrier'
  BY <1>2, <1>4, <1>9, <1>10 DEF Inv, OneCarrier, Working
<1>12. CarriedItems'
  <2>1. \A j \in unsent' : items'[j].status = "pending"
    BY <1>7 DEF Inv, TypeOK, CarriedItems
  <2>2. \A m \in queue' : /\ items'[m.item].status # "absent"
                          /\ faults' = 0 => items'[m.item].status \notin Success
    BY <1>3, <1>7, <1>9 DEF Inv, CarriedItems
  <2>3. \A v \in Workers : Working(v)' =>
           /\ items'[wrk'[v].item].status # "absent"
           /\ wrk'[v].pc \in {"check", "process", "fail_item"} =>
                 items'[wrk'[v].item].status = "running"
    BY <1>2, <1>4, <1>7, <1>10 DEF Inv, CarriedItems
  <2> QED
    BY <2>1, <2>2, <2>3 DEF CarriedItems, Success
<1>13. RunsJudged'
  <2>1. PICK r \in Runs : r = RunOf(i)
    BY IngestionConstants
  <2>2. /\ \A q \in Runs \ {r} : runs'[q] = runs[q]
        /\ runs'[r] # "absent"
        /\ runs'[r] = "completed" => runs[r] = "completed"
    BY <1>3, <2>1 DEF Inv, TypeOK, RunsJudged
  <2> QED
    BY <1>2, <1>3, <1>4, <1>8, <2>1, <2>2, RunStep
<1>14. TasksSane'
  BY <1>2, <1>4, <1>10 DEF Inv, TasksSane, Working, Others
<1>15. HealthKnown'
  <2> SUFFICES ASSUME NEW x \in Sources \ overlapped'
               PROVE  /\ streak[x] <= health[x].failures
                      /\ streak[x] >= QuarantineAfter => health[x].until # "none"
                      /\ \A u, v \in Workers :
                            /\ Working(u)' /\ SourceOf(wrk'[u].item) = x
                            /\ Working(v)' /\ SourceOf(wrk'[v].item) = x
                            => u = v
                      /\ \A v \in Workers :
                            /\ Working(v)' /\ SourceOf(wrk'[v].item) = x
                            /\ wrk'[v].pc \in {"check", "process"}
                            => /\ wrk'[v].loaded.failures = health[x].failures
                               /\ wrk'[v].loaded.until # "future" =>
                                     wrk'[v].loaded.until = health[x].until
                               /\ wrk'[v].pc = "process" => streak[x] = 0
    BY <1>3 DEF HealthKnown
  <2>1. x \in Sources \ overlapped
    BY <1>3
  <2>2. x = s => \A v \in Workers : Working(v) => SourceOf(wrk[v].item) # x
    BY <1>1, <1>3 DEF Busy, Working
  <2> QED
    BY <1>1, <1>2, <1>4, <1>10, <2>1, <2>2 DEF Inv, HealthKnown
<1> QED
  BY <1>6, <1>11, <1>12, <1>13, <1>14, <1>15 DEF Inv

LEMMA TakeKeeps ==
    ASSUME Inv, NEW w \in Workers, NEW m \in queue, Take(w, m)
    PROVE  Inv'
<1>1. m.item \in Item /\ m.retries \in 0 .. MaxRetries /\ Begin(w, m.item, m.retries, FALSE)
  BY DEF Inv, TypeOK, Message, Take
<1>2. /\ unsent' = unsent /\ queue' = queue \ {m} /\ m.item \notin unsent
      /\ \A n \in queue' : n.item # m.item
      /\ \A v \in Workers : Working(v) => wrk[v].item # m.item
  BY DEF Inv, OneCarrier, Take
<1>3. items[m.item].status # "absent" /\ (faults = 0 => items[m.item].status \notin Success)
  BY DEF Inv, CarriedItems
<1>4. PICK i \in Item, k \in 0 .. MaxRetries : i = m.item /\ k = m.retries
  BY <1>1
<1>5. queue' \subseteq queue /\ unsent' \subseteq unsent /\ FALSE \in BOOLEAN
  BY <1>2
<1> QED
  BY <1>1, <1>2, <1>3, <1>4, <1>5, BeginKeeps

LEMMA ProcessSyncKeeps ==
    ASSUME Inv, NEW w \in Workers, NEW i \in unsent, ProcessSync(w, i)
    PROVE  Inv'
<1>1. i \in Item /\ Begin(w, i, 0, TRUE)
  BY DEF Inv, TypeOK, ProcessSync
<1>5. 0 \in 0 .. MaxRetries
  BY IngestionConstants
<1>2. /\ unsent' = unsent \ {i} /\ queue' = queue
      /\ \A n \in queue' : n.item # i
      /\ \A v \in Workers : Working(v) => wrk[v].item # i
  BY DEF Inv, OneCarrier, ProcessSync
<1>3. items[i].status = "pending"
  BY DEF Inv, CarriedItems
<1>4. queue' \subseteq queue /\ unsent' \subseteq unsent /\ TRUE \in BOOLEAN
  BY <1>2
<1> QED
  BY <1>1, <1>2, <1>3, <1>4, <1>5, BeginKeeps DEF Success


-----------------------------------------------------------------------------
(***************************************************************************)
(* The steps of a process.                                                 *)
(***************************************************************************)

\* What a process that works holds.
LEMMA Holder ==
    ASSUME Inv, NEW w \in Workers, Working(w)
    PROVE  /\ wrk[w].item \in Item
           /\ SourceOf(wrk[w].item) \in Sources /\ RunOf(wrk[w].item) \in Runs
           /\ items[wrk[w].item].status # "absent"
           /\ runs[RunOf(wrk[w].item)] # "absent"
           /\ wrk[w].pc \in {"check", "process", "fail_item"} =>
                 items[wrk[w].item].status = "running"
           /\ health[SourceOf(wrk[w].item)] \in Health
           /\ streak[SourceOf(wrk[w].item)] \in Nat
           /\ wrk[w].loaded \in Health
<1>1. wrk[w].item \in Item /\ wrk[w].loaded \in Health
  BY ProcessTyped DEF Inv
<1> QED
  BY <1>1, IngestionConstants DEF Inv, CarriedItems, RunsJudged, TypeOK

(***************************************************************************)
(* A step that tells the source nothing, leaves the runs alone, and has    *)
(* its item, when it succeeded, as it was.                                 *)
(***************************************************************************)
LEMMA QuietStep ==
    ASSUME Inv, NEW w \in Workers, Working(w), NEW i \in Item, i = wrk[w].item,
           UNCHANGED <<health, runs, unsent, streak, overlapped>>,
           ItemsKept(i), TypeOK',
           faults' = 0 /\ items[i].status \in Success => items'[i].status \in Success,
           \/ queue' = queue /\ Stops(w)
           \/ queue' = queue /\ Continues(w, "list")
           \/ Resends(w) /\ (faults' = 0 => items'[i].status \notin Success)
    PROVE  Inv'
<1>1. Others(w) /\ (wrk'[w] # Idle => wrk'[w].item = i)
  BY DEF Stops, Continues, Resends
<1>2. wrk'[w].pc \in {"idle", "list"}
  BY DEF Stops, Continues, Resends, Idle
<1>3. OneCarrier' /\ CarriedItems'
  BY CarrierStep
<1>4. RunsJudged'
  <2>1. runs' = runs /\ items[i].status # "absent" /\ runs[RunOf(i)] # "absent"
    BY Holder
  <2>2. wrk'[w].pc # "write"
    BY <1>2
  <2> HIDE DEF ItemsKept
  <2> QED
    BY <1>1, <2>1, <2>2, RunStep
<1>5. HealthKnown'
  <2>1. PICK s \in Sources : s = SourceOf(i)
    BY IngestionConstants
  <2>2. s \notin overlapped =>
           /\ streak[s] <= health[s].failures
           /\ streak[s] >= QuarantineAfter => health[s].until # "none"
    BY DEF Inv, HealthKnown
  <2> QED
    BY <1>1, <1>2, <2>1, <2>2, HealthStep
<1>6. TasksSane'
  BY <1>1, <1>2 DEF Inv, TasksSane, Others
<1> QED
  BY <1>3, <1>4, <1>5, <1>6 DEF Inv

LEMMA QuarantinedKeeps ==
    ASSUME Inv, NEW w \in Workers,
           Quarantined(w) \/ SkipUnchanged(w)
    PROVE  Inv'
<1>1. Working(w) /\ wrk[w].pc \in {"check", "process"}
  BY DEF Quarantined, SkipUnchanged, Working, Idle
<1>2. PICK i \in Item : i = wrk[w].item
  BY <1>1, Holder
<1>3. items[i].status = "running"
  BY <1>1, <1>2, Holder
<1>4. PICK status \in Success \cup Closed : SetItem(i, status)
  BY <1>2 DEF Quarantined, SkipUnchanged, Success, Closed
<1>5. Continues(w, "list") /\ queue' = queue
  BY <1>1, AdvanceContinues DEF Inv, Quarantined, SkipUnchanged
<1>6. UNCHANGED <<health, runs, unsent, stranded, streak, overlapped, faults>>
  BY DEF Quarantined, SkipUnchanged
<1>7. /\ items' \in [Item -> [status : {"absent"} \cup Open \cup Success \cup Closed,
                              attempt : 0 .. MaxRetries + 1]]
      /\ items'[i].status = status
      /\ \A j \in Item \ {i} : items'[j] = items[j]
  BY <1>4, ItemSet DEF Inv
<1>8. ItemsKept(i)
  BY <1>4, <1>6, <1>7 DEF ItemsKept, Success, Closed
<1>9. TypeOK'
  BY <1>5, <1>6, <1>7 DEF Inv, TypeOK, Continues
<1> QED
  BY <1>1, <1>2, <1>3, <1>5, <1>6, <1>8, <1>9, QuietStep DEF Success

LEMMA FailItemKeeps ==
    ASSUME Inv, NEW w \in Workers, FailItem(w)
    PROVE  Inv'
<1>1. Working(w) /\ wrk[w].pc = "fail_item"
  BY DEF FailItem, Working, Idle
<1>2. PICK i \in Item : i = wrk[w].item
  BY <1>1, Holder
<1>3. items[i].status = "running"
  BY <1>1, <1>2, Holder
<1>4. PICK status \in Closed : SetItem(i, status)
  BY <1>2 DEF FailItem, Closed
<1>5. /\ stranded' \subseteq Item /\ queue' \subseteq Message
      /\ \/ queue' = queue /\ Stops(w)
         \/ queue' = queue /\ Continues(w, "list")
         \/ Resends(w)
  BY <1>1, ErrorHandled DEF Inv, FailItem
<1>6. UNCHANGED <<health, runs, unsent, streak, overlapped, faults>>
  BY DEF FailItem
<1>7. /\ items' \in [Item -> [status : {"absent"} \cup Open \cup Success \cup Closed,
                              attempt : 0 .. MaxRetries + 1]]
      /\ items'[i].status = status
      /\ \A j \in Item \ {i} : items'[j] = items[j]
  BY <1>4, ItemSet DEF Inv
<1>8. ItemsKept(i) /\ items'[i].status \notin Success
  BY <1>4, <1>6, <1>7 DEF ItemsKept, Success, Closed
<1>9. TypeOK'
  BY <1>5, <1>6, <1>7 DEF Inv, TypeOK, Continues, Stops, Resends
<1>10. items[i].status \notin Success
  BY <1>3 DEF Success
<1> QED
  BY <1>1, <1>2, <1>5, <1>6, <1>8, <1>9, <1>10, QuietStep

\* Errors after the fetch, failing finalizers and losses leave the item alone.
LEMMA InterruptedKeeps ==
    ASSUME Inv, NEW w \in Workers,
           ProcessFails(w) \/ FinalizeFails(w) \/ Crash(w)
    PROVE  Inv'
<1>1. Working(w)
  BY DEF ProcessFails, FinalizeFails, Crash, Working, Idle
<1>2. PICK i \in Item : i = wrk[w].item
  BY <1>1, Holder
<1>3. /\ stranded' \subseteq Item /\ queue' \subseteq Message
      /\ \/ queue' = queue /\ Stops(w)
         \/ queue' = queue /\ Continues(w, "list")
         \/ Resends(w)
  <2>1. CASE HandleError(w, "transient")
    BY <1>1, <2>1, ErrorHandled DEF Inv
  <2>2. CASE Release(w) /\ queue' = queue /\ stranded' = stranded
    BY <2>2, ReleaseStops DEF Inv, TypeOK
  <2> QED
    BY <2>1, <2>2 DEF ProcessFails, FinalizeFails, Crash
<1>4. UNCHANGED <<health, runs, items, unsent, streak, overlapped>>
  BY DEF ProcessFails, FinalizeFails, Crash
<1>5. /\ faults' \in 0 .. MaxFaults
      /\ faults' = 0 => faults = 0
  BY IngestionConstants DEF Inv, TypeOK, ProcessFails, FinalizeFails, Crash
<1>6. Resends(w) /\ faults' = 0 => items[i].status \notin Success
  <2> SUFFICES ASSUME Resends(w), faults' = 0
               PROVE  items[i].status \notin Success
    OBVIOUS
  <2>1. faults \in Nat
    BY IngestionConstants DEF Inv, TypeOK
  <2>2. ~FinalizeFails(w) /\ ~Crash(w)
    BY <2>1 DEF FinalizeFails, Crash
  <2>3. wrk[w].pc = "process"
    BY <2>2 DEF ProcessFails
  <2> QED
    BY <1>1, <1>2, <2>3, Holder DEF Success
<1>7. ItemsKept(i)
  BY <1>1, <1>2, <1>4, <1>5, Holder DEF ItemsKept
<1>8. TypeOK'
  BY <1>3, <1>4, <1>5 DEF Inv, TypeOK, Continues, Stops, Resends
<1> QED
  BY <1>1, <1>2, <1>3, <1>4, <1>6, <1>7, <1>8, QuietStep


\* A good or a bad answer to the fetch, while the process has read the source.
LEMMA FetchKeeps ==
    ASSUME Inv, NEW w \in Workers,
           Fetch(w) \/ \E exc \in {"transient", "definitive"} : FetchFails(w, exc)
    PROVE  Inv'
<1>1. /\ Working(w) /\ wrk[w].pc = "check" /\ wrk[w].loaded.until # "future"
      /\ UNCHANGED <<runs, items, unsent, queue, stranded, overlapped, faults>>
  BY DEF Fetch, FetchFails, Working, Idle
<1>2. PICK i \in Item : i = wrk[w].item
  BY <1>1, Holder
<1>3. PICK s \in Sources : s = SourceOf(i)
  BY IngestionConstants
<1>4. /\ items[i].status = "running" /\ runs[RunOf(i)] # "absent"
      /\ health[s] \in Health /\ streak[s] \in Nat /\ wrk[w].loaded \in Health
  BY <1>1, <1>2, <1>3, Holder
<1>5. ItemsKept(i)
  BY <1>1, <1>4 DEF ItemsKept
<1>6. s \notin overlapped =>
         /\ streak[s] <= health[s].failures
         /\ wrk[w].loaded.failures = health[s].failures
         /\ wrk[w].loaded.until = health[s].until
  BY <1>1, <1>2, <1>3 DEF Inv, HealthKnown
<1>7. CASE Fetch(w)
  <2>1. /\ Continues(w, "process") /\ health' = health
        /\ streak' = [streak EXCEPT ![s] = 0]
    BY <1>1, <1>2, <1>3, <1>7, AdvanceContinues DEF Inv, Fetch
  <2>2. /\ streak'[s] = 0 /\ \A x \in Sources \ {s} : streak'[x] = streak[x]
        /\ streak' \in [Sources -> Nat]
    BY <2>1 DEF Inv, TypeOK
  <2>3. TypeOK'
    BY <1>1, <2>1, <2>2 DEF Inv, TypeOK, Continues
  <2>4. OneCarrier' /\ CarriedItems'
    BY <1>1, <1>2, <1>4, <1>5, <2>1, CarrierStep
  <2>5. Others(w) /\ wrk'[w].item = i /\ wrk'[w].pc = "process" /\ wrk'[w].loaded = wrk[w].loaded
    BY <1>2, <2>1 DEF Continues
  <2>6. RunsJudged'
    BY <1>1, <1>4, <1>5, <2>5, RunStep
  <2>7. HealthKnown'
    <3>1. s \notin overlapped =>
             /\ streak'[s] <= health'[s].failures
             /\ streak'[s] >= QuarantineAfter => health'[s].until # "none"
             /\ wrk'[w].loaded.failures = health'[s].failures
             /\ wrk'[w].loaded.until = health'[s].until
      BY <1>4, <1>6, <2>1, <2>2, <2>5, IngestionConstants DEF Health
    <3> QED
      BY <1>1, <1>2, <1>3, <2>1, <2>2, <2>5, <3>1, HealthStep
  <2>8. TasksSane'
    BY <1>1, <2>5 DEF Inv, TasksSane, Others
  <2> QED
    BY <2>3, <2>4, <2>6, <2>7, <2>8 DEF Inv
<1>8. ASSUME NEW exc \in {"transient", "definitive"}, FetchFails(w, exc)
      PROVE  Inv'
  <2> DEFINE t == [wrk[w] EXCEPT !.pc = "fail_item", !.exc = exc]
             new == [failures |-> wrk[w].loaded.failures + 1,
                     until |-> IF Quarantines(w) THEN "future" ELSE "none"]
             row == Written(health[s], wrk[w].loaded, new)
  <2>1. /\ streak' = [streak EXCEPT ![s] = @ + 1]
        /\ health' = [health EXCEPT ![s] = row]
    BY <1>2, <1>3, <1>8 DEF FetchFails
  <2>2. wrk[w] \in Work \ {Idle} /\ wrk \in [Workers -> Work]
    BY <1>1, ProcessTyped DEF Inv, TypeOK
  <2>3. t \in Work /\ t.pc = "fail_item" /\ t.item = i /\ t.loaded = wrk[w].loaded
    BY <1>2, <2>2 DEF Work
  <2>4. wrk' = [wrk EXCEPT ![w] = t]
    BY <1>8, <2>2 DEF FetchFails, Work
  <2>5. /\ new \in Health /\ new.failures = wrk[w].loaded.failures + 1
        /\ new.until = IF Quarantines(w) THEN "future" ELSE "none"
    BY <1>4 DEF Health
  <2>6. /\ row \in Health
        /\ row.failures = IF new.failures = wrk[w].loaded.failures
                          THEN health[s].failures ELSE new.failures
        /\ row.until = IF new.until = wrk[w].loaded.until
                       THEN health[s].until ELSE new.until
    <3> HIDE DEF new
    <3> QED
      BY <1>4, <2>5, WrittenRow
  <2>7. wrk[w].loaded.failures \in Nat
    BY <1>4 DEF Health
  <2> HIDE DEF t, new, row
  <2>8. Continues(w, "fail_item")
    BY <1>2, <2>2, <2>3, <2>4 DEF Continues, Others
  <2>9. /\ streak'[s] = streak[s] + 1 /\ health'[s] = row
        /\ \A x \in Sources \ {s} : streak'[x] = streak[x] /\ health'[x] = health[x]
        /\ streak' \in [Sources -> Nat] /\ health' \in [Sources -> Health]
    BY <1>4, <2>1, <2>6 DEF Inv, TypeOK
  <2>10. TypeOK'
    BY <1>1, <2>8, <2>9 DEF Inv, TypeOK, Continues
  <2>11. OneCarrier' /\ CarriedItems'
    BY <1>1, <1>2, <1>4, <1>5, <2>8, CarrierStep
  <2>12. Others(w) /\ wrk'[w].item = i /\ wrk'[w].pc = "fail_item"
    BY <1>2, <2>8 DEF Continues
  <2>13. RunsJudged'
    BY <1>1, <1>4, <1>5, <2>12, RunStep
  <2>14. s \notin overlapped => /\ streak'[s] <= health'[s].failures
                                /\ streak'[s] >= QuarantineAfter => health'[s].until # "none"
    <3>1. row.failures = wrk[w].loaded.failures + 1
      BY <2>5, <2>6, <2>7
    <3>2. Quarantines(w) => row.until = "future"
      BY <1>1, <2>5, <2>6
    <3>3. wrk[w].loaded.failures + 1 >= QuarantineAfter => Quarantines(w)
      BY DEF Quarantines
    <3> QED
      BY <1>4, <1>6, <2>7, <2>9, <3>1, <3>2, <3>3, IngestionConstants
  <2>15. HealthKnown'
    BY <1>1, <1>2, <1>3, <2>9, <2>12, <2>14, HealthStep
  <2>16. TasksSane'
    BY <2>12 DEF Inv, TasksSane, Others
  <2> QED
    BY <2>10, <2>11, <2>13, <2>15, <2>16 DEF Inv
<1> QED
  BY <1>7, <1>8

LEMMA CompleteKeeps ==
    ASSUME Inv, NEW w \in Workers, NEW status \in Success, Complete(w, status)
    PROVE  Inv'
<1>1. /\ Working(w) /\ wrk[w].pc = "process"
      /\ UNCHANGED <<runs, unsent, queue, stranded, streak, overlapped, faults>>
  BY DEF Complete, Working, Idle
<1>2. PICK i \in Item : i = wrk[w].item
  BY <1>1, Holder
<1>3. PICK s \in Sources : s = SourceOf(i)
  BY IngestionConstants
<1>4. /\ items[i].status = "running" /\ runs[RunOf(i)] # "absent"
      /\ health[s] \in Health /\ streak[s] \in Nat /\ wrk[w].loaded \in Health
  BY <1>1, <1>2, <1>3, Holder
<1>5. /\ items' \in [Item -> [status : {"absent"} \cup Open \cup Success \cup Closed,
                              attempt : 0 .. MaxRetries + 1]]
      /\ items'[i].status = status
      /\ \A j \in Item \ {i} : items'[j] = items[j]
  BY <1>2, ItemSet DEF Inv, Complete
<1>6. ItemsKept(i) /\ items'[i].status \in Success
  BY <1>1, <1>5 DEF ItemsKept, Success
<1>7. Continues(w, "list")
  BY <1>1, AdvanceContinues DEF Inv, Complete
<1> DEFINE new == [failures |-> 0, until |-> "none"]
           row == Written(health[s], wrk[w].loaded, new)
<1>8. health' = [health EXCEPT ![s] = row]
  BY <1>2, <1>3 DEF Complete
<1>9. new \in Health
  BY DEF Health
<1>10. row \in Health
  <2> HIDE DEF new
  <2> QED
    BY <1>4, <1>9, WrittenRow
<1> HIDE DEF new, row
<1>11. /\ health' \in [Sources -> Health] /\ health'[s] \in Health
       /\ \A x \in Sources \ {s} : health'[x] = health[x]
  BY <1>8, <1>10 DEF Inv, TypeOK
<1>12. TypeOK'
  BY <1>1, <1>5, <1>7, <1>11 DEF Inv, TypeOK, Continues
<1>13. OneCarrier' /\ CarriedItems'
  BY <1>1, <1>2, <1>6, <1>7, CarrierStep
<1>14. Others(w) /\ wrk'[w].item = i /\ wrk'[w].pc = "list"
  BY <1>2, <1>7 DEF Continues
<1>15. RunsJudged'
  BY <1>1, <1>4, <1>6, <1>14, RunStep
<1>16. HealthKnown'
  <2>1. s \notin overlapped => streak[s] = 0
    BY <1>1, <1>2, <1>3 DEF Inv, HealthKnown
  <2>2. health'[s].failures \in Nat
    BY <1>11 DEF Health
  <2>3. s \notin overlapped => /\ streak'[s] <= health'[s].failures
                               /\ streak'[s] >= QuarantineAfter => health'[s].until # "none"
    BY <1>1, <2>1, <2>2, IngestionConstants
  <2> QED
    BY <1>1, <1>2, <1>3, <1>11, <1>14, <2>3, HealthStep
<1>17. TasksSane'
  BY <1>14 DEF Inv, TasksSane, Others
<1> QED
  BY <1>12, <1>13, <1>15, <1>16, <1>17 DEF Inv


-----------------------------------------------------------------------------
(***************************************************************************)
(* The two transactions of a finalizer.                                    *)
(***************************************************************************)
LEMMA VerdictJudges ==
    ASSUME TypeOK, NEW r \in Runs
    PROVE  /\ Verdict(r) \in {"running", "completed", "failed"}
           /\ Verdict(r) = "completed" => AllDone(r)
<1>1. \A i \in ItemsOf(r) :
         items[i].status \in {"absent"} \cup Open \cup Success \cup Closed
  BY IngestionConstants DEF TypeOK
<1>2. ASSUME Verdict(r) = "completed", NEW i \in ItemsOf(r)
      PROVE  items[i].status \in Success \cup {"absent"}
  BY <1>1, <1>2 DEF Verdict, Statuses
<1> QED
  BY <1>2 DEF AllDone, Verdict

LEMMA ListItemsKeeps ==
    ASSUME Inv, NEW w \in Workers, ListItems(w)
    PROVE  Inv'
<1>1. /\ Working(w)
      /\ UNCHANGED <<health, runs, items, unsent, queue,
                     stranded, streak, overlapped, faults>>
  BY DEF ListItems, Working, Idle
<1>2. PICK i \in Item : i = wrk[w].item
  BY <1>1, Holder
<1>3. PICK s \in Sources : s = SourceOf(i)
  BY IngestionConstants
<1>4. PICK r \in Runs : r = RunOf(i)
  BY IngestionConstants
<1>5. PICK verdict : verdict = Verdict(r)
  OBVIOUS
<1>6. verdict \in {"running", "completed", "failed"} /\ (verdict = "completed" => AllDone(r))
  BY <1>5, VerdictJudges DEF Inv
<1> DEFINE t == [wrk[w] EXCEPT !.pc = "write", !.seen = runs[r], !.write = verdict]
<1>7. wrk[w] \in Work \ {Idle} /\ wrk \in [Workers -> Work] /\ runs[r] \in RunStatus
  BY <1>1, ProcessTyped DEF Inv, TypeOK
<1>8. /\ t \in Work /\ t.pc = "write" /\ t.item = i /\ t.loaded = wrk[w].loaded
      /\ t.write = verdict
  <2>1. verdict \in RunStatus
    BY <1>6 DEF RunStatus
  <2> QED
    BY <1>2, <1>7, <2>1 DEF Work
<1>9. wrk' = [wrk EXCEPT ![w] = t]
  BY <1>2, <1>4, <1>5, <1>7 DEF ListItems, Work
<1> HIDE DEF t
<1>10. Continues(w, "write") /\ wrk'[w].write = verdict /\ wrk'[w].item = i /\ Others(w)
  BY <1>2, <1>7, <1>8, <1>9 DEF Continues, Others
<1>11. TypeOK'
  BY <1>1, <1>10 DEF Inv, TypeOK, Continues
<1>12. ItemsKept(i) /\ items[i].status # "absent" /\ runs[RunOf(i)] # "absent"
  BY <1>1, <1>2, Holder DEF ItemsKept
<1>13. OneCarrier' /\ CarriedItems'
  BY <1>1, <1>2, <1>10, <1>12, CarrierStep
<1>14. RunsJudged'
  BY <1>1, <1>4, <1>6, <1>10, <1>12, RunStep
<1>15. HealthKnown'
  <2>1. s \notin overlapped =>
           /\ streak[s] <= health[s].failures
           /\ streak[s] >= QuarantineAfter => health[s].until # "none"
    BY DEF Inv, HealthKnown
  <2>2. wrk'[w].pc = "write"
    BY <1>10 DEF Continues
  <2> QED
    BY <1>1, <1>2, <1>3, <1>10, <2>1, <2>2, HealthStep
<1>16. TasksSane'
  BY <1>6, <1>10 DEF Inv, TasksSane, Others, Continues
<1> QED
  BY <1>11, <1>13, <1>14, <1>15, <1>16 DEF Inv

LEMMA WriteRunKeeps ==
    ASSUME Inv, NEW w \in Workers, WriteRun(w)
    PROVE  Inv'
<1>1. /\ Working(w) /\ wrk[w].pc = "write"
      /\ UNCHANGED <<health, items, unsent, queue, stranded, streak, overlapped, faults>>
  BY DEF WriteRun, Working, Idle
<1>2. PICK i \in Item : i = wrk[w].item
  BY <1>1, Holder
<1>3. PICK s \in Sources : s = SourceOf(i)
  BY IngestionConstants
<1>4. PICK r \in Runs : r = RunOf(i)
  BY IngestionConstants
<1>5. /\ wrk[w].write \in {"running", "completed", "failed"}
      /\ wrk[w].write = "completed" /\ faults = 0 => AllDone(r)
  BY <1>1, <1>2, <1>4 DEF Inv, TasksSane, RunsJudged
<1>6. /\ runs' \in [Runs -> RunStatus]
      /\ \A q \in Runs \ {r} : runs'[q] = runs[q]
      /\ runs'[r] = runs[r] \/ runs'[r] = wrk[w].write
  BY <1>2, <1>4, <1>5 DEF Inv, TypeOK, WriteRun, RunStatus
<1>7. Stops(w)
  BY ReleaseStops DEF Inv, WriteRun
<1>8. TypeOK'
  BY <1>1, <1>6, <1>7 DEF Inv, TypeOK, Stops
<1>9. ItemsKept(i) /\ items[i].status # "absent" /\ runs[r] # "absent"
  BY <1>1, <1>2, <1>4, Holder DEF ItemsKept
<1>10. OneCarrier' /\ CarriedItems'
  BY <1>1, <1>2, <1>7, <1>9, CarrierStep
<1>11. Others(w) /\ wrk'[w] = Idle /\ wrk'[w].pc = "idle"
  BY <1>7 DEF Stops, Idle
<1>12. RunsJudged'
  BY <1>1, <1>4, <1>5, <1>6, <1>9, <1>11, RunStep
<1>13. HealthKnown'
  <2>1. s \notin overlapped =>
           /\ streak[s] <= health[s].failures
           /\ streak[s] >= QuarantineAfter => health[s].until # "none"
    BY DEF Inv, HealthKnown
  <2> QED
    BY <1>1, <1>2, <1>3, <1>11, <2>1, HealthStep
<1>14. TasksSane'
  BY <1>11 DEF Inv, TasksSane, Others
<1> QED
  BY <1>8, <1>10, <1>12, <1>13, <1>14 DEF Inv

-----------------------------------------------------------------------------
LEMMA IngestionInvariant == Spec => []Inv
<1>1. Init => Inv
  BY InitialInv
<1>2. Inv /\ [Next]_vars => Inv'
  <2> SUFFICES ASSUME Inv, [Next]_vars
               PROVE  Inv'
    OBVIOUS
  <2>1. CASE DispatchScheduled \/ DispatchCountry \/ \E s \in Sources : Reprocess(s)
    <3>1. PICK chosen \in SUBSET Sources : CreateRun(chosen)
      BY <2>1 DEF DispatchScheduled, DispatchCountry, Reprocess
    <3> QED
      BY <3>1, CreateRunKeeps
  <2>2. ASSUME NEW s \in Sources, QuarantineEnds(s)
        PROVE  Inv'
    BY <2>2, QuarantineEndsKeeps
  <2>3. ASSUME NEW i \in unsent, Publish(i) \/ PublishFails(i)
        PROVE  Inv'
    BY <2>3, PublishKeeps
  <2>4. ASSUME NEW w \in Workers, WorkerStep(w)
        PROVE  Inv'
    BY <2>4, TakeKeeps, QuarantinedKeeps, FetchKeeps, CompleteKeeps,
       FailItemKeeps, InterruptedKeeps, ListItemsKeeps, WriteRunKeeps DEF WorkerStep
  <2>5. ASSUME NEW w \in Workers, NEW i \in unsent, ProcessSync(w, i)
        PROVE  Inv'
    BY <2>5, ProcessSyncKeeps
  <2>6. ASSUME NEW w \in Workers, FinalizeFails(w) \/ Crash(w)
        PROVE  Inv'
    BY <2>6, InterruptedKeeps
  <2>7. CASE UNCHANGED vars
    BY <2>7 DEF vars, Inv, TypeOK, TasksSane, OneCarrier, CarriedItems, RunsJudged,
                HealthKnown, AllDone, Working, RunOf, ItemsOf
  <2> QED
    BY <2>1, <2>2, <2>3, <2>4, <2>5, <2>6, <2>7 DEF Next
<1> QED
  BY <1>1, <1>2, PTL DEF Spec

(***************************************************************************)
(* The tables, the queue and what the processes hold keep their types.     *)
(***************************************************************************)
THEOREM IngestionTypesCorrect == Spec => []TypeOK
  BY IngestionInvariant, PTL DEF Inv

(***************************************************************************)
(* No item is in two messages or with two tasks: retries are sent by the   *)
(* task that lets go of the item, and a request that works on its run's    *)
(* item does not publish it.                                               *)
(***************************************************************************)
THEOREM ItemHasOneCarrier == Spec => []OneCarrier
  BY IngestionInvariant, PTL DEF Inv

(***************************************************************************)
(* GET /ingestion/runs calls a run completed only when its items were,     *)
(* whatever the finalizers had seen when they wrote it.                    *)
(***************************************************************************)
THEOREM CompletedRunsSucceeded == Spec => []CompletedRunAllSucceeded
<1>1. Inv => CompletedRunAllSucceeded
  <2> SUFFICES ASSUME Inv, NEW r \in Runs, runs[r] = "completed", faults = 0,
                      NEW i \in ItemsOf(r), items[i].status # "absent"
               PROVE  items[i].status \in Success
    BY DEF CompletedRunAllSucceeded, Statuses
  <2> QED
    BY DEF Inv, RunsJudged, AllDone
<1> QED
  BY <1>1, IngestionInvariant, PTL

(***************************************************************************)
(* A source whose fetches keep failing reaches its quarantine, as long as  *)
(* one process at a time works on it.                                      *)
(***************************************************************************)
THEOREM QuarantineIsReached == Spec => []QuarantineReached
<1>1. Inv => QuarantineReached
  BY DEF Inv, HealthKnown, QuarantineReached
<1> QED
  BY <1>1, IngestionInvariant, PTL
=============================================================================
