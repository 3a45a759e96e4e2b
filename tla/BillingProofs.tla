---------------------------- MODULE BillingProofs ----------------------------
(***************************************************************************)
(* The safety of plans, subscriptions and entitlements for every number of *)
(* users, subscriptions, events, concurrent requests and faults.           *)
(*                                                                         *)
(* The work is in SettledStays: it needs that of the handlers of one event *)
(* one alone has inserted the row of the event, and what each of the       *)
(* others has loaded.  What overlapping handlers do break is proved of one *)
(* that works alone, at the end.                                           *)
(***************************************************************************)
EXTENDS Billing, FiniteSetTheorems, TLAPS

\* What a handler knows of its event, its subscription and its user.
KnowsEvent(h) ==
    LET e == hdl[h].event
    IN  /\ hdl[h].mark \in {"none", "failed"}
        /\ hdl[h].mark = "failed" => events[e] # "none"
        /\ hdl[h].row # "absent" => subscriptions[e.sub] # "absent"
        /\ hdl[h].pc \in {"reselect", "flush", "apply", "commit"} =>
              hdl[h].user = Customer[e.sub]
        /\ hdl[h].pc = "ignore" => e.type = "other"
        /\ hdl[h].pc \in {"load", "reselect", "flush", "apply", "commit", "fail"} =>
              e.type # "other"

HandlerInv(h) ==
    /\ hdl[h].pc \in {"check", "apply", "commit"} => hdl[h].user \in Users
    /\ hdl[h].pc \notin {"idle", "plans", "check", "apply", "commit"} =>
          hdl[h].event \in Events
    /\ hdl[h].pc = "plans" => hdl[h].code # "none"
    /\ hdl[h].pc # "idle" /\ hdl[h].event = NoEvent => hdl[h].user \in Users
    /\ hdl[h].pc = "check" => hdl[h].event = NoEvent
    /\ IsFiniteSet(hdl[h].open)
    /\ hdl[h].event \in Events => KnowsEvent(h)

TablesTyped ==
    /\ plans \subseteq PlanCode
    /\ subscriptions \in [Subs -> Row]
    /\ grants \in [Users -> SUBSET Grant]
    /\ \A u \in Users : IsFiniteSet(grants[u])
    /\ events \in [Events -> EventStatus \cup {"none"}]

ProviderTyped ==
    /\ provider \in [Subs -> RawStatus]
    /\ sent \subseteq Events
    /\ faults \in 0 .. MaxFaults

\* Only the events nobody handles are ignored.
EventKinds ==
    \A e \in Events :
        /\ events[e] = "ignored" => e.type = "other"
        /\ events[e] = "processed" => e.type # "other"

(***************************************************************************)
(* One handler has inserted an event that is not committed yet.            *)
(***************************************************************************)
InsertedOnce ==
    \A e \in Events : \A h \in Inserting(e) :
        /\ events[e] = "none"
        /\ \A o \in Inserting(e) : o = h

BillingInv ==
    /\ TablesTyped
    /\ ProviderTyped
    /\ hdl \in [Handlers -> Handler]
    /\ \A h \in Handlers : HandlerInv(h)
    /\ EventKinds
    /\ InsertedOnce
    /\ GrantsBacked

-----------------------------------------------------------------------------
LEMMA BillingConstants ==
    /\ Customer \in [Subs -> Users]
    /\ \A e \in Events : e.type \in EventType /\ e.sub \in Subs /\ e.raw \in RawStatus
    /\ IsFiniteSet(Handlers)
    /\ MaxFaults \in Nat
    /\ NoEvent \notin Events
  BY BillingAssumption DEF NoEvent

LEMMA InvImpliesTypes == BillingInv => TypeOK
  BY DEF BillingInv, TablesTyped, ProviderTyped, HandlerInv, TypeOK

LEMMA IdleTyped == IdleHandler \in Handler /\ IdleHandler.pc = "idle"
  BY DEF IdleHandler, Handler, HandlerPc, RawStatus, Row, NoUser, NoEvent

LEMMA BillingInitial == Init => BillingInv
<1> SUFFICES ASSUME Init
             PROVE  BillingInv
  OBVIOUS
<1>1. hdl \in [Handlers -> Handler]
  BY IdleTyped DEF Init
<1>2. TablesTyped /\ ProviderTyped
  BY BillingConstants, FS_EmptySet
     DEF Init, TablesTyped, ProviderTyped, RawStatus, Row
<1>3. ASSUME NEW h \in Handlers
      PROVE  HandlerInv(h)
  BY BillingConstants, FS_EmptySet DEF Init, HandlerInv, IdleHandler
<1>4. EventKinds /\ InsertedOnce /\ GrantsBacked
  BY DEF Init, EventKinds, InsertedOnce, Inserting, IdleHandler, GrantsBacked
<1> QED
  BY <1>1, <1>2, <1>3, <1>4 DEF BillingInv

-----------------------------------------------------------------------------
(***************************************************************************)
(* A handler takes a step.  Rows are never taken away, and the status of   *)
(* an event is written by a handler that ends with it.                     *)
(***************************************************************************)
LEMMA HandlerKeepsInv ==
    ASSUME BillingInv, NEW h \in Handlers,
           hdl' \in [Handlers -> Handler], \A o \in Handlers \ {h} : hdl'[o] = hdl[o],
           HandlerInv(h)', TablesTyped', ProviderTyped', EventKinds', GrantsBacked',
           \A s \in Subs : subscriptions[s] # "absent" => subscriptions'[s] # "absent",
           \A e \in Events :
              \/ events'[e] = events[e]
              \/ /\ events'[e] # "none" /\ hdl'[h].pc = "idle"
                 /\ h \in Inserting(e) \/ events[e] # "none",
           \A e \in Events : h \in Inserting(e)' =>
              \/ h \in Inserting(e)
              \/ Inserting(e) = {} /\ events[e] = "none" /\ UNCHANGED events
    PROVE  BillingInv'
<1>1. ASSUME NEW o \in Handlers
      PROVE  HandlerInv(o)'
  <2>1. CASE o # h
    <3>1. HandlerInv(o) /\ hdl'[o] = hdl[o]
      BY <2>1 DEF BillingInv
    <3>2. hdl[o].event \in Events => KnowsEvent(o)'
      BY <3>1, BillingConstants DEF HandlerInv, KnowsEvent
    <3> QED
      BY <3>1, <3>2 DEF HandlerInv
  <2> QED
    BY <2>1
<1>2. InsertedOnce'
  <2> SUFFICES ASSUME NEW e \in Events, NEW o \in Inserting(e)'
               PROVE  /\ events'[e] = "none"
                      /\ \A i \in Inserting(e)' : i = o
    BY DEF InsertedOnce
  <2>1. \A i \in Handlers \ {h} : i \in Inserting(e)' <=> i \in Inserting(e)
    BY DEF Inserting
  <2>2. InsertedOnce /\ Inserting(e)' \subseteq Handlers
    BY DEF BillingInv, Inserting
  <2>3. CASE h \in Inserting(e)'
    <3>1. hdl'[h].pc # "idle"
      BY <2>3 DEF Inserting
    <3> QED
      BY <2>1, <2>2, <2>3, <3>1 DEF InsertedOnce
  <2>4. CASE h \notin Inserting(e)'
    BY <2>1, <2>2, <2>4 DEF InsertedOnce
  <2> QED
    BY <2>3, <2>4
<1> QED
  BY <1>1, <1>2 DEF BillingInv

-----------------------------------------------------------------------------
\* Every finite set of numbers leaves one out up to its size.
LEMMA NumberLeft ==
    ASSUME NEW S, IsFiniteSet(S)
    PROVE  \E n \in 0 .. Cardinality(S) : n \notin S
<1>1. Cardinality(S) \in Nat
  BY FS_CardinalityType
<1> SUFFICES ASSUME 0 .. Cardinality(S) \subseteq S
             PROVE  FALSE
  OBVIOUS
<1>2. Cardinality(0 .. Cardinality(S)) = Cardinality(S) + 1
  BY <1>1, FS_Interval
<1>3. Cardinality(0 .. Cardinality(S)) <= Cardinality(S)
  BY FS_Subset
<1> QED
  BY <1>1, <1>2, <1>3

\* The numbers of a finite set of grants.
LEMMA NumbersFinite ==
    ASSUME NEW G, IsFiniteSet(G)
    PROVE  IsFiniteSet({g.n : g \in G})
<1> DEFINE f == [g \in G |-> g.n]
<1>1. f \in Surjection(G, {g.n : g \in G})
  BY DEF Surjection
<1> QED
  BY <1>1, FS_Surjection

LEMMA FreshGrantTyped ==
    ASSUME BillingInv, NEW u \in Users
    PROVE  FreshGrant(u) \in Nat
<1> DEFINE numbers == {hdl[h].n : h \in Handlers}
           opens == {{g.n : g \in hdl[h].open} : h \in Handlers}
<1>1. IsFiniteSet({g.n : g \in grants[u]})
  BY NumbersFinite DEF BillingInv, TablesTyped
<1>2. IsFiniteSet(numbers)
  <2> DEFINE f == [h \in Handlers |-> hdl[h].n]
  <2>1. f \in Surjection(Handlers, numbers)
    BY DEF Surjection
  <2> QED
    BY <2>1, BillingConstants, FS_Surjection
<1>3. IsFiniteSet(UNION opens)
  <2> DEFINE f == [h \in Handlers |-> {g.n : g \in hdl[h].open}]
  <2>1. f \in Surjection(Handlers, opens)
    BY DEF Surjection
  <2>2. IsFiniteSet(opens)
    BY <2>1, BillingConstants, FS_Surjection
  <2>3. \A T \in opens : IsFiniteSet(T)
    BY NumbersFinite DEF BillingInv, HandlerInv
  <2> HIDE DEF opens
  <2> QED
    BY <2>2, <2>3, FS_UNION
<1>4. IsFiniteSet(GrantsInUse(u))
  <2> HIDE DEF numbers, opens
  <2>1. IsFiniteSet({g.n : g \in grants[u]} \cup numbers)
    BY <1>1, <1>2, FS_Union
  <2>2. IsFiniteSet(({g.n : g \in grants[u]} \cup numbers) \cup UNION opens)
    BY <1>3, <2>1, FS_Union
  <2> QED
    BY <2>2 DEF GrantsInUse, numbers, opens
<1> QED
  BY <1>4, NumberLeft, FS_CardinalityType DEF FreshGrant

-----------------------------------------------------------------------------
\* A handler goes on and writes no row; it may have inserted its event.
LEMMA MovesKeepInv ==
    ASSUME BillingInv, NEW h \in Handlers,
           hdl' \in [Handlers -> Handler], \A o \in Handlers \ {h} : hdl'[o] = hdl[o],
           HandlerInv(h)', UNCHANGED tables, ProviderTyped',
           \A e \in Events : h \in Inserting(e)' =>
              h \in Inserting(e) \/ (Inserting(e) = {} /\ events[e] = "none")
    PROVE  BillingInv'
<1>1. TablesTyped' /\ EventKinds' /\ GrantsBacked'
  BY DEF BillingInv, TablesTyped, EventKinds, GrantsBacked, tables
<1> QED
  BY <1>1, HandlerKeepsInv DEF tables

LEMMA FinishKeepsInv ==
    ASSUME BillingInv, NEW h \in Handlers, Finish(h), UNCHANGED tables, ProviderTyped'
    PROVE  BillingInv'
<1>1. hdl' \in [Handlers -> Handler] /\ hdl'[h] = IdleHandler
      /\ \A o \in Handlers \ {h} : hdl'[o] = hdl[o]
  BY IdleTyped DEF BillingInv, Finish
<1>2. HandlerInv(h)'
  BY <1>1, BillingConstants, FS_EmptySet DEF HandlerInv, IdleHandler
<1>3. \A e \in Events : h \notin Inserting(e)'
  BY <1>1 DEF Inserting, IdleHandler
<1> QED
  BY <1>1, <1>2, <1>3, MovesKeepInv

\* What Goto leaves alone.
LEMMA GotoMoves ==
    ASSUME BillingInv, NEW h \in Handlers, NEW p \in HandlerPc, Goto(h, p)
    PROVE  /\ hdl' \in [Handlers -> Handler]
           /\ \A o \in Handlers \ {h} : hdl'[o] = hdl[o]
           /\ hdl'[h].pc = p /\ hdl'[h].code = hdl[h].code
           /\ hdl'[h].user = hdl[h].user /\ hdl'[h].event = hdl[h].event
           /\ hdl'[h].mark = hdl[h].mark /\ hdl'[h].row = hdl[h].row
           /\ hdl'[h].open = hdl[h].open
  BY DEF BillingInv, Goto, Handler

LEMMA BeginKeepsInv ==
    ASSUME BillingInv, NEW h \in Handlers, NEW u, NEW e, Begin(h, u, e),
           (u \in Users /\ e = NoEvent) \/ (u = NoUser /\ e \in Events)
    PROVE  BillingInv'
<1> DEFINE missing == MissingPlan(plans)
           t == [IdleHandler EXCEPT
                   !.pc = IF missing = "none" THEN AfterPlans(e) ELSE "plans",
                   !.code = missing, !.user = u, !.event = e]
<1>1. /\ t.pc = IF missing = "none" THEN IF e = NoEvent THEN "check" ELSE "lookup"
                ELSE "plans"
      /\ t.code = missing /\ t.user = u /\ t.event = e
      /\ t.mark = "none" /\ t.row = "absent" /\ t.open = {}
  BY DEF IdleHandler, AfterPlans
<1>2. t \in Handler
  <2>1. /\ (IF missing = "none" THEN AfterPlans(e) ELSE "plans") \in HandlerPc
        /\ missing \in PlanCode \cup {"none"}
        /\ u \in Users \cup {NoUser} /\ e \in Events \cup {NoEvent}
    BY DEF MissingPlan, AfterPlans, HandlerPc, PlanCode
  <2> HIDE DEF missing
  <2> QED
    BY <2>1, IdleTyped DEF Handler
<1>3. hdl' = [hdl EXCEPT ![h] = t] /\ UNCHANGED tables /\ UNCHANGED <<provider, sent, faults>>
  BY DEF Begin, stripe
<1> HIDE DEF t
<1>4. /\ hdl' \in [Handlers -> Handler] /\ hdl'[h] = t
      /\ \A o \in Handlers \ {h} : hdl'[o] = hdl[o]
  BY <1>2, <1>3 DEF BillingInv
<1>5. HandlerInv(h)'
  BY <1>1, <1>4, BillingConstants, FS_EmptySet DEF HandlerInv, KnowsEvent
<1>6. \A x \in Events : h \notin Inserting(x)'
  BY <1>1, <1>4, BillingConstants DEF Inserting
<1> QED
  BY <1>3, <1>4, <1>5, <1>6, MovesKeepInv DEF BillingInv, ProviderTyped

LEMMA AddPlanKeepsInv ==
    ASSUME BillingInv, NEW h \in Handlers, AddPlan(h)
    PROVE  BillingInv'
<1> DEFINE next == MissingPlan(plans \cup {hdl[h].code})
<1>1. ProviderTyped' /\ hdl[h] \in Handler /\ hdl[h].pc = "plans"
      /\ UNCHANGED <<subscriptions, grants, events>>
  BY DEF AddPlan, BillingInv, ProviderTyped, stripe
<1>2. CASE Finish(h) /\ UNCHANGED plans
  BY <1>1, <1>2, FinishKeepsInv DEF tables
<1>3. CASE ~(Finish(h) /\ UNCHANGED plans)
  <2>1. /\ plans' = plans \cup {hdl[h].code}
        /\ hdl' = [hdl EXCEPT
              ![h].code = next,
              ![h].pc = IF next = "none" THEN AfterPlans(hdl[h].event) ELSE "plans"]
    BY <1>3 DEF AddPlan
  <2>2. next \in PlanCode \cup {"none"} /\ hdl[h].code \in PlanCode
    BY <1>1 DEF MissingPlan, PlanCode, BillingInv, HandlerInv, Handler
  <2> HIDE DEF next
  <2>3. /\ hdl' \in [Handlers -> Handler]
        /\ \A o \in Handlers \ {h} : hdl'[o] = hdl[o]
        /\ hdl'[h].pc = IF next = "none"
                        THEN IF hdl[h].event = NoEvent THEN "check" ELSE "lookup"
                        ELSE "plans"
        /\ hdl'[h].code = next
        /\ hdl'[h].user = hdl[h].user /\ hdl'[h].event = hdl[h].event
        /\ hdl'[h].mark = hdl[h].mark /\ hdl'[h].row = hdl[h].row
        /\ hdl'[h].open = hdl[h].open
    <3> DEFINE p == IF next = "none" THEN AfterPlans(hdl[h].event) ELSE "plans"
               t == [hdl[h] EXCEPT !.code = next, !.pc = p]
    <3>1. p \in HandlerPc
      BY DEF HandlerPc, AfterPlans
    <3>2. hdl' = [hdl EXCEPT ![h] = t]
      BY <2>1
    <3>3. /\ t \in Handler /\ t.pc = p /\ t.code = next
          /\ t.user = hdl[h].user /\ t.event = hdl[h].event /\ t.mark = hdl[h].mark
          /\ t.row = hdl[h].row /\ t.open = hdl[h].open
      BY <1>1, <2>2, <3>1 DEF Handler
    <3> HIDE DEF t
    <3>4. hdl' \in [Handlers -> Handler] /\ hdl'[h] = t
          /\ \A o \in Handlers \ {h} : hdl'[o] = hdl[o]
      BY <3>2, <3>3 DEF BillingInv
    <3> QED
      BY <3>3, <3>4 DEF AfterPlans
  <2>4. HandlerInv(h)'
    <3>1. HandlerInv(h) /\ hdl[h].event \in Events \cup {NoEvent}
      BY <1>1 DEF BillingInv, Handler
    <3>2. hdl[h].event \in Events => KnowsEvent(h)'
      BY <1>1, <2>3, <3>1, BillingConstants DEF HandlerInv, KnowsEvent
    <3> QED
      BY <1>1, <2>3, <3>1, <3>2 DEF HandlerInv
  <2>5. TablesTyped' /\ EventKinds' /\ GrantsBacked'
    BY <1>1, <2>1, <2>2 DEF BillingInv, TablesTyped, EventKinds, GrantsBacked
  <2>6. \A e \in Events : h \notin Inserting(e)'
    BY <2>3, BillingConstants DEF Inserting
  <2> QED
    BY <1>1, <2>3, <2>4, <2>5, <2>6, HandlerKeepsInv
<1> QED
  BY <1>2, <1>3

(***************************************************************************)
(* The steps that read: the baseline, the event, Stripe, the row.          *)
(***************************************************************************)
LEMMA ReadsKeepInv ==
    ASSUME BillingInv, NEW h \in Handlers,
           \/ CheckBaseline(h) \/ LookupEvent(h) \/ CreateEvent(h) \/ HandleEvent(h)
           \/ RetrieveFails(h) \/ PriceUnknown(h) \/ Load(h) \/ Reselect(h)
    PROVE  BillingInv'
<1>1. /\ UNCHANGED tables /\ ProviderTyped'
  BY BillingConstants DEF CheckBaseline, LookupEvent, CreateEvent, HandleEvent,
     RetrieveFails, PriceUnknown, Load, Reselect, BillingInv, ProviderTyped,
     stripe
<1>2. hdl[h] \in Handler /\ HandlerInv(h)
  BY DEF BillingInv
<1>p. {"apply", "event", "retrieve", "fail", "ignore", "load"} \subseteq HandlerPc
  BY DEF HandlerPc
<1>f. ASSUME Finish(h)
      PROVE  BillingInv'
  BY <1>1, <1>f, FinishKeepsInv
<1>3. CASE CheckBaseline(h)
  <2>1. CASE Goto(h, "apply")
    <3>1. hdl[h].pc = "check"
      BY <1>3 DEF CheckBaseline
    <3>2. HandlerInv(h)'
      BY <1>2, <1>p, <2>1, <3>1, GotoMoves, BillingConstants DEF HandlerInv
    <3>3. \A e \in Events : h \in Inserting(e)' => h \in Inserting(e)
      BY <1>2, <1>p, <2>1, <3>1, GotoMoves, BillingConstants DEF HandlerInv, Inserting
    <3> QED
      BY <1>1, <1>p, <2>1, <3>2, <3>3, GotoMoves, MovesKeepInv
  <2> QED
    BY <1>3, <1>f, <2>1 DEF CheckBaseline
<1>4. CASE LookupEvent(h)
  <2>1. hdl[h].pc = "lookup" /\ hdl[h].event \in Events
    BY <1>2, <1>4 DEF LookupEvent, HandlerInv
  <2>2. CASE Goto(h, "event")
    <3>1. HandlerInv(h)'
      BY <1>1, <1>2, <1>p, <2>1, <2>2, GotoMoves DEF HandlerInv, KnowsEvent, tables
    <3>2. \A e \in Events : h \notin Inserting(e)'
      BY <1>p, <2>2, GotoMoves DEF Inserting
    <3> QED
      BY <1>1, <1>p, <2>2, <3>1, <3>2, GotoMoves, MovesKeepInv
  <2>3. CASE /\ events[hdl[h].event] = "failed"
             /\ hdl' = [hdl EXCEPT ![h].pc = "retrieve", ![h].mark = "failed"]
    <3>1. /\ hdl' \in [Handlers -> Handler] /\ hdl'[h].pc = "retrieve"
          /\ hdl'[h].mark = "failed" /\ hdl'[h].event = hdl[h].event
          /\ hdl'[h].row = hdl[h].row /\ hdl'[h].open = hdl[h].open
          /\ hdl'[h].user = hdl[h].user
          /\ \A o \in Handlers \ {h} : hdl'[o] = hdl[o]
      BY <1>2, <2>3 DEF BillingInv, Handler, HandlerPc, EventStatus
    <3>2. HandlerInv(h)'
      BY <1>1, <1>2, <2>1, <2>3, <3>1, BillingConstants
         DEF HandlerInv, KnowsEvent, tables
    <3>3. \A e \in Events : h \notin Inserting(e)'
      BY <3>1 DEF Inserting
    <3> QED
      BY <1>1, <3>1, <3>2, <3>3, MovesKeepInv
  <2> QED
    BY <1>4, <1>f, <2>2, <2>3 DEF LookupEvent
<1>5. CASE CreateEvent(h)
  <2>1. hdl[h].pc = "event" /\ hdl[h].event \in Events /\ Inserting(hdl[h].event) = {}
    BY <1>2, <1>5 DEF CreateEvent, HandlerInv
  <2>2. CASE events[hdl[h].event] = "none" /\ Goto(h, "retrieve")
    <3>1. HandlerInv(h)'
      BY <1>1, <1>2, <1>p, <2>1, <2>2, GotoMoves DEF HandlerInv, KnowsEvent, tables
    <3>2. \A e \in Events : h \in Inserting(e)' => e = hdl[h].event
      BY <1>p, <2>2, GotoMoves DEF Inserting
    <3> QED
      BY <1>1, <1>p, <2>1, <2>2, <3>1, <3>2, GotoMoves, MovesKeepInv
  <2> QED
    BY <1>5, <1>f, <2>2 DEF CreateEvent
<1>6. CASE HandleEvent(h) \/ RetrieveFails(h)
  <2>1. hdl[h].pc = "retrieve" /\ hdl[h].event \in Events
    BY <1>2, <1>6 DEF HandleEvent, RetrieveFails, HandlerInv
  <2>2. \/ hdl[h].event.type = "other" /\ Goto(h, "ignore")
        \/ hdl[h].event.type # "other" /\ Goto(h, "fail")
        \/ \E raw \in RawStatus :
              /\ hdl[h].event.type # "other"
              /\ hdl' = [hdl EXCEPT ![h].pc = "load", ![h].raw = raw]
    <3>1. provider[hdl[h].event.sub] \in RawStatus /\ hdl[h].event.raw \in RawStatus
      BY <2>1, BillingConstants DEF BillingInv, ProviderTyped
    <3> QED
      BY <1>6, <3>1 DEF HandleEvent, RetrieveFails
  <2>3. PICK p \in {"ignore", "fail", "load"} :
           /\ p = "ignore" <=> hdl[h].event.type = "other"
           /\ hdl' \in [Handlers -> Handler] /\ hdl'[h].pc = p
           /\ hdl'[h].mark = hdl[h].mark /\ hdl'[h].event = hdl[h].event
           /\ hdl'[h].row = hdl[h].row /\ hdl'[h].open = hdl[h].open
           /\ hdl'[h].user = hdl[h].user
           /\ \A o \in Handlers \ {h} : hdl'[o] = hdl[o]
    <3>1. CASE hdl[h].event.type = "other" /\ Goto(h, "ignore")
      BY <1>p, <3>1, GotoMoves
    <3>3. CASE hdl[h].event.type # "other" /\ Goto(h, "fail")
      BY <1>p, <3>3, GotoMoves
    <3>2. CASE \E raw \in RawStatus :
                  /\ hdl[h].event.type # "other"
                  /\ hdl' = [hdl EXCEPT ![h].pc = "load", ![h].raw = raw]
      <4>1. PICK raw \in RawStatus :
               /\ hdl[h].event.type # "other"
               /\ hdl' = [hdl EXCEPT ![h].pc = "load", ![h].raw = raw]
        BY <3>2
      <4> QED
        BY <1>2, <1>p, <4>1 DEF BillingInv, Handler
    <3> QED
      BY <2>2, <3>1, <3>2, <3>3
  <2>4. HandlerInv(h)'
    BY <1>1, <1>2, <2>1, <2>3 DEF HandlerInv, KnowsEvent, tables
  <2>5. \A e \in Events : h \in Inserting(e)' => h \in Inserting(e)
    BY <2>1, <2>3 DEF Inserting
  <2> QED
    BY <1>1, <2>3, <2>4, <2>5, MovesKeepInv
<1>7. CASE PriceUnknown(h) \/ Load(h) \/ Reselect(h)
  <2>1. /\ hdl[h].pc \in {"load", "reselect"} /\ hdl[h].event \in Events
        /\ hdl[h].pc = "reselect" => hdl[h].user = Customer[hdl[h].event.sub]
        /\ hdl[h].event.type # "other"
    BY <1>2, <1>7 DEF PriceUnknown, Load, Reselect, HandlerInv, KnowsEvent
  <2> DEFINE s == hdl[h].event.sub
  <2>2. s \in Subs /\ subscriptions[s] \in Row /\ Customer[s] \in Users
    BY <2>1, BillingConstants DEF BillingInv, TablesTyped
  <2>3. /\ hdl' \in [Handlers -> Handler] /\ hdl'[h].pc \in {"reselect", "flush", "fail"}
        /\ hdl'[h].mark = hdl[h].mark /\ hdl'[h].event = hdl[h].event
        /\ hdl'[h].row \in {hdl[h].row, subscriptions[s]}
        /\ hdl'[h].open = hdl[h].open
        /\ hdl'[h].pc # "fail" => hdl'[h].user = Customer[s]
        /\ \A o \in Handlers \ {h} : hdl'[o] = hdl[o]
    <3>1. CASE Goto(h, "fail")
      BY <1>p, <3>1, GotoMoves
    <3>2. CASE Load(h) /\ ~Goto(h, "fail")
      <4>1. PICK p \in {"reselect", "flush"} :
               hdl' = [hdl EXCEPT ![h].pc = p, ![h].row = subscriptions[s],
                                  ![h].user = Customer[s]]
        BY <3>2 DEF Load
      <4> DEFINE t == [hdl[h] EXCEPT !.pc = p, !.row = subscriptions[s],
                                     !.user = Customer[s]]
      <4>2. /\ t \in Handler /\ t.pc = p /\ t.row = subscriptions[s]
            /\ t.user = Customer[s] /\ t.mark = hdl[h].mark
            /\ t.event = hdl[h].event /\ t.open = hdl[h].open
        BY <1>2, <2>2 DEF Handler, HandlerPc
      <4>3. hdl' = [hdl EXCEPT ![h] = t]
        BY <4>1
      <4> HIDE DEF t
      <4> QED
        BY <4>2, <4>3 DEF BillingInv
    <3>3. CASE Reselect(h)
      <4> DEFINE t == [hdl[h] EXCEPT !.pc = "flush", !.row = subscriptions[s]]
      <4>1. hdl' = [hdl EXCEPT ![h] = t]
        BY <3>3 DEF Reselect
      <4>2. /\ t \in Handler /\ t.pc = "flush" /\ t.row = subscriptions[s]
            /\ t.user = hdl[h].user /\ t.mark = hdl[h].mark
            /\ t.event = hdl[h].event /\ t.open = hdl[h].open
        BY <1>2, <2>2 DEF Handler, HandlerPc
      <4>3. hdl[h].pc = "reselect"
        BY <3>3 DEF Reselect
      <4> HIDE DEF t
      <4> QED
        BY <2>1, <4>1, <4>2, <4>3 DEF BillingInv
    <3> QED
      BY <1>7, <3>1, <3>2, <3>3 DEF PriceUnknown
  <2>4. HandlerInv(h)'
    <3>1. KnowsEvent(h)'
      BY <1>1, <1>2, <2>1, <2>2, <2>3 DEF HandlerInv, KnowsEvent, tables
    <3> QED
      BY <1>2, <2>1, <2>2, <2>3, <3>1, BillingConstants DEF HandlerInv
  <2>5. \A e \in Events : h \in Inserting(e)' => h \in Inserting(e)
    BY <2>1, <2>3 DEF Inserting
  <2> QED
    BY <1>1, <2>3, <2>4, <2>5, MovesKeepInv
<1> QED
  BY <1>3, <1>4, <1>5, <1>6, <1>7

\* Stripe's status becomes one of the table's.
LEMMA StatusMapped ==
    ASSUME NEW raw
    PROVE  map_subscription_status(raw) \in Row \ {"absent"}
  BY DEF map_subscription_status, Row, SubscriptionStatus

(***************************************************************************)
(* The steps that write: the flush, the entitlements and the commits.      *)
(***************************************************************************)
LEMMA WritesKeepInv ==
    ASSUME BillingInv, NEW h \in Handlers,
           \/ FlushSubscription(h) \/ ApplyEntitlements(h)
           \/ Commit(h) \/ CommitIgnored(h) \/ CommitFailed(h)
    PROVE  BillingInv'
<1>2. hdl[h] \in Handler /\ HandlerInv(h) /\ hdl[h].event \in Events \cup {NoEvent}
  BY DEF BillingInv, Handler
<1>3. ProviderTyped'
  BY DEF FlushSubscription, ApplyEntitlements, Commit, CommitIgnored, CommitFailed,
     BillingInv, ProviderTyped, stripe
<1>i. ASSUME Finish(h)
      PROVE  /\ hdl' \in [Handlers -> Handler] /\ hdl'[h].pc = "idle"
             /\ \A o \in Handlers \ {h} : hdl'[o] = hdl[o]
             /\ HandlerInv(h)' /\ \A e \in Events : h \notin Inserting(e)'
  BY <1>i, IdleTyped, BillingConstants, FS_EmptySet
     DEF Finish, BillingInv, HandlerInv, IdleHandler, Inserting
<1>4. CASE FlushSubscription(h)
  <2>1. UNCHANGED tables /\ hdl[h].pc = "flush" /\ hdl[h].event \in Events
    BY <1>2, <1>4 DEF FlushSubscription, HandlerInv
  <2>2. CASE Finish(h)
    BY <1>3, <2>1, <2>2, FinishKeepsInv
  <2>3. CASE ~Finish(h)
    <3>1. /\ hdl' \in [Handlers -> Handler] /\ hdl'[h].pc = "apply"
          /\ hdl'[h].mark = hdl[h].mark /\ hdl'[h].event = hdl[h].event
          /\ hdl'[h].row = hdl[h].row /\ hdl'[h].open = hdl[h].open
          /\ hdl'[h].user = hdl[h].user
          /\ \A o \in Handlers \ {h} : hdl'[o] = hdl[o]
      <4>1. CASE Goto(h, "apply")
        BY <4>1, GotoMoves DEF HandlerPc
      <4>2. CASE hdl' = [hdl EXCEPT ![h].pc = "apply", ![h].holds = TRUE]
        BY <1>2, <4>2 DEF BillingInv, Handler, HandlerPc
      <4> QED
        BY <1>4, <2>3, <4>1, <4>2 DEF FlushSubscription
    <3>2. KnowsEvent(h)' /\ hdl[h].user \in Users
      BY <1>2, <2>1, <3>1, BillingConstants DEF HandlerInv, KnowsEvent, tables
    <3>3. HandlerInv(h)'
      BY <1>2, <2>1, <3>1, <3>2 DEF HandlerInv
    <3>4. \A e \in Events : h \in Inserting(e)' => h \in Inserting(e)
      BY <2>1, <3>1 DEF Inserting
    <3> QED
      BY <1>3, <2>1, <3>1, <3>3, <3>4, MovesKeepInv
  <2> QED
    BY <2>2, <2>3
<1>5. CASE ApplyEntitlements(h)
  <2> DEFINE u == hdl[h].user
             t == [hdl[h] EXCEPT !.pc = "commit", !.n = FreshGrant(u),
                                 !.open = grants[u]]
  <2>1. UNCHANGED tables /\ hdl[h].pc = "apply" /\ u \in Users
    BY <1>2, <1>5 DEF ApplyEntitlements, HandlerInv, tables
  <2>2. /\ FreshGrant(u) \in Nat /\ grants[u] \in SUBSET Grant
        /\ IsFiniteSet(grants[u])
    BY <2>1, FreshGrantTyped DEF BillingInv, TablesTyped
  <2>3. /\ t \in Handler /\ t.pc = "commit" /\ t.mark = hdl[h].mark
        /\ t.event = hdl[h].event /\ t.row = hdl[h].row /\ t.open = grants[u]
        /\ t.user = u
    BY <1>2, <2>1, <2>2 DEF Handler, HandlerPc
  <2>4. hdl' = [hdl EXCEPT ![h] = t]
    BY <1>5 DEF ApplyEntitlements
  <2> HIDE DEF t
  <2>5. /\ hdl' \in [Handlers -> Handler] /\ hdl'[h] = t
        /\ \A o \in Handlers \ {h} : hdl'[o] = hdl[o]
    BY <2>3, <2>4 DEF BillingInv
  <2>6. hdl[h].event \in Events => KnowsEvent(h)'
    BY <1>2, <2>1, <2>3, <2>5 DEF HandlerInv, KnowsEvent, tables
  <2>7. HandlerInv(h)'
    BY <2>1, <2>2, <2>3, <2>5, <2>6 DEF HandlerInv
  <2>8. \A e \in Events : h \in Inserting(e)' => h \in Inserting(e)
    BY <2>1, <2>3, <2>5 DEF Inserting
  <2> QED
    BY <1>3, <2>1, <2>5, <2>7, <2>8, MovesKeepInv
<1>6. CASE Commit(h)
  <2> DEFINE u == hdl[h].user
             e == hdl[h].event
             s == IF e = NoEvent THEN NoSub ELSE e.sub
             new == [plan |-> GrantedPlan(h), n |-> hdl[h].n, sub |-> s]
             status == map_subscription_status(hdl[h].raw)
  <2>1. /\ hdl[h].pc = "commit" /\ u \in Users /\ Finish(h) /\ UNCHANGED plans
        /\ grants' = [grants EXCEPT ![u] = (@ \ hdl[h].open) \cup {new}]
        /\ subscriptions' = Synced(h)
        /\ events' = IF e = NoEvent THEN events ELSE [events EXCEPT ![e] = "processed"]
    BY <1>2, <1>6 DEF Commit, HandlerInv
  <2>2. e \in Events => /\ e # NoEvent /\ e.sub \in Subs /\ u = Customer[e.sub]
                        /\ e.type # "other"
                        /\ hdl[h].mark \in {"none", "failed"}
                        /\ hdl[h].mark = "failed" => events[e] # "none"
                        /\ hdl[h].row # "absent" => subscriptions[e.sub] # "absent"
    BY <1>2, <2>1, BillingConstants DEF HandlerInv, KnowsEvent
  <2>3. new \in Grant
    BY <1>2, <2>2, BillingConstants DEF GrantedPlan, PlanCode, Grant, Handler
  <2>4. /\ subscriptions' \in [Subs -> Row]
        /\ \A x \in Subs : subscriptions[x] # "absent" => subscriptions'[x] # "absent"
        /\ e \in Events => subscriptions'[e.sub] # "absent"
    BY <1>2, <2>1, <2>2, StatusMapped DEF Synced, BillingInv, TablesTyped
  <2> HIDE DEF new
  <2>5. \A x \in Users : grants'[x] \subseteq grants[x] \cup {g \in {new} : x = u}
    BY <2>1 DEF BillingInv, TablesTyped
  <2>6. /\ events' \in [Events -> EventStatus \cup {"none"}]
        /\ \A x \in Events : events'[x] = events[x] \/ (x = e /\ events'[x] = "processed")
    BY <1>2, <2>1 DEF BillingInv, TablesTyped, EventStatus
  <2>7. TablesTyped'
    <3>1. \A x \in Users : IsFiniteSet(grants[x] \cup {new}) /\ grants'[x] \subseteq grants[x] \cup {new}
      BY <2>5, FS_AddElement DEF BillingInv, TablesTyped
    <3>2. \A x \in Users : IsFiniteSet(grants'[x])
      BY <3>1, FS_Subset
    <3>3. grants' \in [Users -> SUBSET Grant]
      BY <2>1, <2>3 DEF BillingInv, TablesTyped
    <3> QED
      BY <2>1, <2>4, <2>6, <3>2, <3>3 DEF BillingInv, TablesTyped
  <2>8. EventKinds'
    BY <2>2, <2>6 DEF EventKinds, BillingInv
  <2>9. GrantsBacked'
    <3>1. new.sub # NoSub => /\ e \in Events /\ new.sub = e.sub
      BY <1>2 DEF new
    <3>2. ASSUME NEW x \in Users, NEW g \in grants'[x], g.sub # NoSub
          PROVE  subscriptions'[g.sub] # "absent" /\ Customer[g.sub] = x
      <4>1. CASE g \in grants[x]
        <5>1. g.sub \in Subs /\ subscriptions[g.sub] # "absent" /\ Customer[g.sub] = x
          BY <3>2, <4>1 DEF BillingInv, TablesTyped, Grant, GrantsBacked
        <5> QED
          BY <2>4, <5>1
      <4>2. CASE g \notin grants[x]
        BY <2>2, <2>4, <2>5, <3>1, <3>2, <4>2
      <4> QED
        BY <4>1, <4>2
    <3>3. ASSUME NEW x \in Events, events'[x] = "processed"
          PROVE  subscriptions'[x.sub] # "absent"
      BY <2>4, <2>6, <3>3, BillingConstants DEF BillingInv, GrantsBacked
    <3> QED
      BY <3>2, <3>3 DEF GrantsBacked
  <2>10. \A x \in Events : events'[x] # events[x] =>
            h \in Inserting(x) \/ events[x] # "none"
    BY <2>1, <2>2, <2>6 DEF Inserting
  <2> QED
    BY <1>3, <1>i, <2>1, <2>4, <2>6, <2>7, <2>8, <2>9, <2>10, HandlerKeepsInv
<1>7. CASE CommitIgnored(h) \/ CommitFailed(h)
  <2> DEFINE e == hdl[h].event
  <2>1. /\ hdl[h].pc \in {"ignore", "fail"} /\ e \in Events /\ Finish(h)
        /\ UNCHANGED <<plans, subscriptions, grants>>
        /\ hdl[h].mark \in {"none", "failed"}
        /\ hdl[h].mark = "failed" => events[e] # "none"
    BY <1>2, <1>7 DEF CommitIgnored, CommitFailed, HandlerInv, KnowsEvent
  <2>2. PICK mark \in {"ignored", "failed"} :
           /\ events' = events \/ events' = [events EXCEPT ![e] = mark]
           /\ mark = "ignored" => e.type = "other"
    BY <1>2, <1>7 DEF CommitIgnored, CommitFailed, HandlerInv, KnowsEvent
  <2>3. /\ events' \in [Events -> EventStatus \cup {"none"}]
        /\ \A x \in Events : events'[x] = events[x] \/ (x = e /\ events'[x] = mark)
    BY <2>1, <2>2 DEF BillingInv, TablesTyped, EventStatus
  <2>4. TablesTyped' /\ EventKinds' /\ GrantsBacked'
    BY <2>1, <2>2, <2>3 DEF BillingInv, TablesTyped, EventKinds, GrantsBacked
  <2>5. \A x \in Events : events'[x] # events[x] =>
            h \in Inserting(x) \/ events[x] # "none"
    BY <2>1, <2>3 DEF Inserting
  <2> QED
    BY <1>3, <1>i, <2>1, <2>2, <2>3, <2>4, <2>5, HandlerKeepsInv
<1> QED
  BY <1>4, <1>5, <1>6, <1>7

\* Everything Stripe does keeps the invariant.
LEMMA StripeKeepsInv ==
    ASSUME BillingInv, NEW s \in Subs, StripeStep(s)
    PROVE  BillingInv'
<1>1. UNCHANGED <<tables, hdl>> /\ ProviderTyped'
  BY DEF StripeStep, Checkout, StripeUpdates, StripeCancels, Send, BillingInv,
     ProviderTyped, RawStatus
<1> QED
  BY <1>1 DEF BillingInv, TablesTyped, HandlerInv, KnowsEvent, EventKinds,
     InsertedOnce, Inserting, GrantsBacked, tables

LEMMA BillingInductive == BillingInv /\ [Next]_vars => BillingInv'
<1> SUFFICES ASSUME BillingInv, [Next]_vars
             PROVE  BillingInv'
  OBVIOUS
<1>1. ASSUME NEW h \in Handlers, NEW u \in Users, Access(h, u)
      PROVE  BillingInv'
  BY <1>1, BeginKeepsInv DEF Access
<1>2. ASSUME NEW h \in Handlers, NEW e \in sent, Deliver(h, e)
      PROVE  BillingInv'
  BY <1>2, BeginKeepsInv DEF Deliver, BillingInv, ProviderTyped
<1>3. ASSUME NEW h \in Handlers, HandlerStep(h)
      PROVE  BillingInv'
  BY <1>3, AddPlanKeepsInv, ReadsKeepInv, WritesKeepInv DEF HandlerStep
<1>4. ASSUME NEW h \in Handlers, RetrieveFails(h) \/ PriceUnknown(h)
      PROVE  BillingInv'
  BY <1>4, ReadsKeepInv
<1>5. ASSUME NEW h \in Handlers, Die(h)
      PROVE  BillingInv'
  <2>1. UNCHANGED tables /\ Finish(h) /\ ProviderTyped'
    BY <1>5, BillingConstants DEF Die, BillingInv, ProviderTyped, stripe
  <2> QED
    BY <2>1, FinishKeepsInv
<1>6. ASSUME NEW s \in Subs, StripeStep(s)
      PROVE  BillingInv'
  BY <1>6, StripeKeepsInv
<1>7. CASE UNCHANGED vars
  BY <1>7 DEF vars, BillingInv, TablesTyped, ProviderTyped, HandlerInv, KnowsEvent,
     EventKinds, InsertedOnce, Inserting, GrantsBacked
<1> QED
  BY <1>1, <1>2, <1>3, <1>4, <1>5, <1>6, <1>7 DEF Next

LEMMA BillingInvariant == Spec => []BillingInv
  BY BillingInitial, BillingInductive, PTL DEF Spec

-----------------------------------------------------------------------------
(***************************************************************************)
(* The tables, the handlers and what Stripe has sent keep their types.     *)
(***************************************************************************)
THEOREM BillingTypesCorrect == Spec => []TypeOK
  BY BillingInvariant, InvImpliesTypes, PTL

(***************************************************************************)
(* _sync_subscription_object stores the subscription with the entitlements *)
(* it gives and with the event it marks processed, whichever of several    *)
(* requests has inserted the row, and whatever is undone.                  *)
(***************************************************************************)
THEOREM GrantsAreBacked == Spec => []GrantsBacked
  BY BillingInvariant, PTL DEF BillingInv

(***************************************************************************)
(* Two handlers of one event cannot both believe that they have inserted   *)
(* it: uq_billing_events_provider_event_id makes the second one wait.      *)
(***************************************************************************)
THEOREM EventInsertedOnce == Spec => []InsertedOnce
  BY BillingInvariant, PTL DEF BillingInv

(***************************************************************************)
(* An event that is processed or ignored stays so: the except clause of a  *)
(* second delivery, loaded before, does not mark it failed.                *)
(***************************************************************************)
THEOREM SettledEventsStay == Spec => SettledStays
<1> DEFINE Stays == \A e \in Events : events[e] \in SettledEvent => events'[e] = events[e]
<1>1. ASSUME BillingInv, [Next]_vars
      PROVE  Stays
  <2>1. ASSUME NEW h \in Handlers, Commit(h) \/ CommitIgnored(h) \/ CommitFailed(h)
        PROVE  Stays
    <3> DEFINE x == hdl[h].event
    <3>1. /\ HandlerInv(h) /\ events \in [Events -> EventStatus \cup {"none"}]
          /\ EventKinds /\ InsertedOnce /\ x \in Events \cup {NoEvent}
      BY <1>1 DEF BillingInv, TablesTyped, Handler
    <3>2. CASE Commit(h)
      <4>1. x \in Events => x.type # "other"
        BY <3>1, <3>2 DEF Commit, HandlerInv, KnowsEvent
      <4>2. \A e \in Events :
               events'[e] = events[e] \/ (e = x /\ events'[e] = "processed")
        BY <3>1, <3>2 DEF Commit
      <4> QED
        BY <3>1, <4>1, <4>2 DEF SettledEvent, EventKinds
    <3>3. CASE CommitIgnored(h)
      <4>1. x \in Events /\ x.type = "other"
        BY <3>1, <3>3 DEF CommitIgnored, HandlerInv, KnowsEvent
      <4>2. events' = [events EXCEPT ![x] = "ignored"]
        BY <3>3 DEF CommitIgnored
      <4> QED
        BY <3>1, <4>1, <4>2 DEF SettledEvent, EventKinds
    <3>4. CASE CommitFailed(h) /\ events' # events
      <4>1. /\ x \in Events /\ hdl[h].mark = "none" /\ hdl[h].pc = "fail"
            /\ events' = [events EXCEPT ![x] = "failed"]
        BY <3>1, <3>4 DEF CommitFailed, HandlerInv, KnowsEvent
      <4>2. events[x] = "none"
        BY <3>1, <4>1 DEF InsertedOnce, Inserting
      <4> QED
        BY <3>1, <4>1, <4>2 DEF SettledEvent
    <3> QED
      BY <2>1, <3>2, <3>3, <3>4
  <2>2. CASE UNCHANGED events
    BY <2>2
  <2> QED
    BY ZenonT(60), <1>1, <2>1, <2>2
       DEF Next, Access, Deliver, Begin, HandlerStep, AddPlan, CheckBaseline,
           LookupEvent, CreateEvent, HandleEvent, Load, Reselect, FlushSubscription,
           ApplyEntitlements, RetrieveFails, PriceUnknown, Die, StripeStep, Checkout,
           StripeUpdates, StripeCancels, vars, tables
<1> QED
  BY <1>1, BillingInvariant, PTL DEF Spec, SettledStays

(***************************************************************************)
(* _apply_plan_entitlements closes entitlements in the commit that creates *)
(* others: once a user has some, there is never a moment without.          *)
(***************************************************************************)
THEOREM UsersKeepAccess == Spec => AccessKept
<1> DEFINE Kept == \A u \in Users : grants[u] # {} => grants'[u] # {}
<1>1. ASSUME BillingInv, [Next]_vars
      PROVE  Kept
  <2>1. ASSUME NEW h \in Handlers, Commit(h)
        PROVE  Kept
    BY <1>1, <2>1 DEF Commit, BillingInv, TablesTyped
  <2>2. CASE UNCHANGED grants
    BY <2>2
  <2> QED
    BY ZenonT(60), <1>1, <2>1, <2>2
       DEF Next, Access, Deliver, Begin, HandlerStep, AddPlan, CheckBaseline,
           LookupEvent, CreateEvent, HandleEvent, Load, Reselect, FlushSubscription,
           ApplyEntitlements, CommitIgnored, CommitFailed, RetrieveFails, PriceUnknown, Die,
           StripeStep, Checkout, StripeUpdates, StripeCancels, vars, tables
<1> QED
  BY <1>1, BillingInvariant, PTL DEF Spec, AccessKept
-----------------------------------------------------------------------------
(***************************************************************************)
(* Requests and webhooks one at a time: what a handler has read is what    *)
(* the tables still hold when it commits.                                  *)
(***************************************************************************)
OneHandler == \A h, o \in Handlers : h = o

HandlerCurrent(h) ==
    LET e == hdl[h].event
    IN  /\ hdl[h].pc = "commit" => hdl[h].open = grants[hdl[h].user]
        /\ hdl[h].pc \in {"flush", "apply", "commit"} /\ e \in Events =>
              hdl[h].row = subscriptions[e.sub]
        /\ hdl[h].pc \in {"apply", "commit"} /\ e = NoEvent =>
              grants[hdl[h].user] = {}

AtMostOneGrant == \A u \in Users : \A g, f \in grants[u] : g = f

\* Pro entitlements come from a subscription of the user that still entitles.
ProBacked ==
    \A u \in Users : \A g \in grants[u] :
        g.plan = "pro" =>
            /\ g.sub \in Subs
            /\ Customer[g.sub] = u
            /\ subscriptions[g.sub] \in Entitling

\* An entitling subscription has given its customer Pro entitlements.
PaidBacked ==
    \A s \in Subs : subscriptions[s] \in Entitling => HasPro(Customer[s])

\* Nobody has two subscriptions at Stripe.
OneSubEach == \A s, t \in Subs : Customer[s] = Customer[t] => s = t

SerialBillingInv ==
    /\ \A h \in Handlers : HandlerCurrent(h)
    /\ AtMostOneGrant
    /\ ProBacked
    /\ OneSubEach => PaidBacked

LEMMA SerialBillingInitial == Init => SerialBillingInv
BY DEF Init, SerialBillingInv, HandlerCurrent, AtMostOneGrant, ProBacked,
       PaidBacked, IdleHandler, Entitling

\* Whoever writes neither grants nor subscriptions has only to keep to what
\* it has read.
LEMMA ReadingKeepsSerial ==
    ASSUME OneHandler, SerialBillingInv, NEW h \in Handlers,
           UNCHANGED <<grants, subscriptions>>, HandlerCurrent(h)'
    PROVE  SerialBillingInv'
<1>1. \A o \in Handlers : o = h
  BY DEF OneHandler
<1>2. (\A o \in Handlers : HandlerCurrent(o))'
  BY <1>1
<1>3. AtMostOneGrant' /\ ProBacked' /\ (OneSubEach => PaidBacked')
  BY DEF SerialBillingInv, AtMostOneGrant, ProBacked, PaidBacked, HasPro
<1> QED
  BY <1>2, <1>3 DEF SerialBillingInv

LEMMA ReadersKeepSerial ==
    ASSUME OneHandler, BillingInv, SerialBillingInv, NEW h \in Handlers,
           UNCHANGED <<grants, subscriptions>>,
           hdl'[h].pc \notin {"flush", "apply", "commit"}
    PROVE  SerialBillingInv'
BY ReadingKeepsSerial DEF HandlerCurrent

(***************************************************************************)
(* The steps that read what a commit relies on.                            *)
(***************************************************************************)
LEMMA LoadingKeepsSerial ==
    ASSUME OneHandler, BillingInv, SerialBillingInv, NEW h \in Handlers,
           \/ CheckBaseline(h) \/ Load(h) \/ Reselect(h)
           \/ FlushSubscription(h) \/ ApplyEntitlements(h)
    PROVE  SerialBillingInv'
<1>0. /\ hdl \in [Handlers -> Handler] /\ hdl[h] \in Handler /\ HandlerInv(h)
      /\ HandlerCurrent(h) /\ NoEvent \notin Events
      /\ UNCHANGED <<grants, subscriptions>>
  BY BillingConstants DEF BillingInv, SerialBillingInv, CheckBaseline, Load,
     Reselect, FlushSubscription, ApplyEntitlements, tables
<1>f. ASSUME Finish(h) PROVE SerialBillingInv'
  <2>1. hdl'[h].pc = "idle"
    BY <1>0, <1>f DEF Finish, IdleHandler
  <2> QED
    BY <1>0, <2>1, ReadersKeepSerial
<1>1. CASE CheckBaseline(h)
  <2>1. CASE Finish(h)
    BY <1>f, <2>1
  <2>2. CASE grants[hdl[h].user] = {} /\ Goto(h, "apply")
    <3>1. /\ hdl'[h].pc = "apply" /\ hdl'[h].event = NoEvent
          /\ hdl'[h].user = hdl[h].user
      BY <1>0, <1>1, <2>2, GotoMoves DEF CheckBaseline, HandlerInv, HandlerPc
    <3>2. HandlerCurrent(h)'
      BY <1>0, <2>2, <3>1 DEF HandlerCurrent
    <3> QED
      BY <1>0, <3>2, ReadingKeepsSerial
  <2> QED
    BY <1>1, <2>1, <2>2 DEF CheckBaseline
<1>2. CASE Load(h)
  <2> DEFINE e == hdl[h].event
             to(p) == hdl' = [hdl EXCEPT ![h].pc = p, ![h].row = subscriptions[e.sub],
                                         ![h].user = Customer[e.sub]]
  <2>1. CASE to("flush")
    <3>1. /\ hdl'[h].pc = "flush" /\ hdl'[h].event = e
          /\ hdl'[h].row = subscriptions[e.sub]
      BY <1>0, <2>1 DEF Handler
    <3>2. HandlerCurrent(h)'
      BY <1>0, <3>1 DEF HandlerCurrent
    <3> QED
      BY <1>0, <3>2, ReadingKeepsSerial
  <2>2. CASE to("reselect")
    <3>1. hdl'[h].pc = "reselect"
      BY <1>0, <2>2 DEF Handler
    <3> QED
      BY <1>0, <3>1, ReadersKeepSerial
  <2>3. CASE Goto(h, "fail")
    <3>1. hdl'[h].pc = "fail"
      BY <1>0, <2>3 DEF Goto, Handler
    <3> QED
      BY <1>0, <3>1, ReadersKeepSerial
  <2> QED
    BY <1>2, <2>1, <2>2, <2>3 DEF Load
<1>3. CASE Reselect(h)
  <2> DEFINE e == hdl[h].event
  <2>1. /\ hdl'[h].pc = "flush" /\ hdl'[h].event = e
        /\ hdl'[h].row = subscriptions[e.sub]
    BY <1>0, <1>3 DEF Reselect, Handler
  <2>2. HandlerCurrent(h)'
    BY <1>0, <2>1 DEF HandlerCurrent
  <2> QED
    BY <1>0, <2>2, ReadingKeepsSerial
<1>4. CASE FlushSubscription(h)
  <2> DEFINE e == hdl[h].event
  <2>1. hdl[h].pc = "flush" /\ e \in Events /\ e # NoEvent
    BY <1>0, <1>4 DEF FlushSubscription, HandlerInv
  <2>2. \/ Finish(h) \/ Goto(h, "apply")
        \/ hdl' = [hdl EXCEPT ![h].pc = "apply", ![h].holds = TRUE]
    BY <1>4 DEF FlushSubscription
  <2>3. CASE ~Finish(h)
    <3>1. /\ hdl'[h].pc = "apply" /\ hdl'[h].event = e
          /\ hdl'[h].row = hdl[h].row
      BY <1>0, <2>2, <2>3 DEF Goto, Handler
    <3>2. HandlerCurrent(h)'
      BY <1>0, <2>1, <3>1 DEF HandlerCurrent
    <3> QED
      BY <1>0, <3>2, ReadingKeepsSerial
  <2> QED
    BY <1>f, <2>3
<1>5. CASE ApplyEntitlements(h)
  <2>1. /\ hdl[h].pc = "apply" /\ hdl'[h].pc = "commit"
        /\ hdl'[h].event = hdl[h].event /\ hdl'[h].row = hdl[h].row
        /\ hdl'[h].user = hdl[h].user /\ hdl'[h].open = grants[hdl[h].user]
    BY <1>0, <1>5 DEF ApplyEntitlements, Handler
  <2>2. HandlerCurrent(h)'
    BY <1>0, <2>1 DEF HandlerCurrent
  <2> QED
    BY <1>0, <2>2, ReadingKeepsSerial
<1> QED
  BY <1>1, <1>2, <1>3, <1>4, <1>5

(***************************************************************************)
(* The commit replaces the entitlements of one user by what the status of  *)
(* the subscription, stored by the same commit, is worth.                  *)
(***************************************************************************)
LEMMA CommitKeepsSerial ==
    ASSUME OneHandler, BillingInv, SerialBillingInv, NEW h \in Handlers, Commit(h)
    PROVE  SerialBillingInv'
<1> DEFINE u == hdl[h].user
           e == hdl[h].event
           new == [plan |-> GrantedPlan(h), n |-> hdl[h].n,
                   sub |-> IF e = NoEvent THEN NoSub ELSE e.sub]
           status == map_subscription_status(hdl[h].raw)
<1>0. /\ hdl[h].pc = "commit" /\ hdl \in [Handlers -> Handler] /\ HandlerInv(h)
      /\ HandlerCurrent(h) /\ u \in Users /\ e \in Events \cup {NoEvent}
      /\ NoEvent \notin Events /\ \A o \in Handlers : o = h
      /\ grants \in [Users -> SUBSET Grant]
      /\ subscriptions \in [Subs -> Row]
      /\ AtMostOneGrant /\ ProBacked /\ (OneSubEach => PaidBacked)
  BY BillingConstants DEF BillingInv, TablesTyped, HandlerInv, Handler, Commit,
     SerialBillingInv, OneHandler
<1>1. /\ grants' = [grants EXCEPT ![u] = (@ \ hdl[h].open) \cup {new}]
      /\ subscriptions' = Synced(h) /\ Finish(h)
  BY DEF Commit
<1>2. /\ hdl[h].open = grants[u]
      /\ e \in Events => /\ hdl[h].row = subscriptions[e.sub]
                         /\ e.sub \in Subs /\ u = Customer[e.sub]
      /\ e = NoEvent => grants[u] = {}
  BY <1>0, BillingConstants DEF HandlerCurrent, HandlerInv, KnowsEvent
<1>3. /\ grants'[u] = {new}
      /\ \A x \in Users \ {u} : grants'[x] = grants[x]
  <2> HIDE DEF new
  <2> QED
    BY <1>0, <1>1, <1>2
<1>4. /\ e = NoEvent => subscriptions' = subscriptions
      /\ e \in Events =>
            /\ subscriptions'[e.sub] = status
            /\ \A s \in Subs \ {e.sub} : subscriptions'[s] = subscriptions[s]
  BY <1>0, <1>1, <1>2 DEF Synced
<1>5. new.plan = "pro" <=> e \in Events /\ status \in Entitling
  BY <1>0 DEF GrantedPlan
<1>6. new.sub = IF e = NoEvent THEN NoSub ELSE e.sub
  OBVIOUS
<1> HIDE DEF new, status
<1>7. (\A o \in Handlers : HandlerCurrent(o))'
  <2>1. hdl'[h].pc = "idle"
    BY <1>0, <1>1 DEF Finish, IdleHandler
  <2> QED
    BY <1>0, <2>1 DEF HandlerCurrent
<1>8. AtMostOneGrant'
  BY <1>0, <1>3 DEF AtMostOneGrant
<1>9. ProBacked'
  <2> SUFFICES ASSUME NEW x \in Users, NEW g \in grants'[x], g.plan = "pro"
               PROVE  /\ g.sub \in Subs /\ Customer[g.sub] = x
                      /\ subscriptions'[g.sub] \in Entitling
    BY DEF ProBacked
  <2>1. CASE x = u
    <3>1. g = new
      BY <1>3, <2>1
    <3> QED
      BY <1>0, <1>2, <1>4, <1>5, <1>6, <2>1, <3>1
  <2>2. CASE x # u
    <3>1. /\ g.sub \in Subs /\ Customer[g.sub] = x
          /\ subscriptions[g.sub] \in Entitling
      BY <1>0, <1>3, <2>2 DEF ProBacked
    <3>2. e \in Events => g.sub # e.sub
      BY <1>2, <2>2, <3>1
    <3> QED
      BY <1>0, <1>4, <3>1, <3>2
  <2> QED
    BY <2>1, <2>2
<1>10. ASSUME OneSubEach PROVE PaidBacked'
  <2> SUFFICES ASSUME NEW s \in Subs, subscriptions'[s] \in Entitling
               PROVE  \E g \in grants'[Customer[s]] : g.plan = "pro"
    BY DEF PaidBacked, HasPro
  <2>1. Customer[s] \in Users
    BY BillingConstants
  <2>2. CASE e \in Events /\ s = e.sub
    <3>1. new.plan = "pro"
      BY <1>4, <1>5, <2>2
    <3> QED
      BY <1>2, <1>3, <2>2, <3>1
  <2>3. CASE ~(e \in Events /\ s = e.sub)
    <3>1. \E g \in grants[Customer[s]] : g.plan = "pro"
      BY <1>0, <1>4, <1>10, <2>3 DEF PaidBacked, HasPro
    <3>2. Customer[s] # u
      BY <1>0, <1>2, <1>10, <2>3, <3>1 DEF OneSubEach
    <3> QED
      BY <1>3, <2>1, <3>1, <3>2
  <2> QED
    BY <2>2, <2>3
<1> QED
  BY <1>7, <1>8, <1>9, <1>10 DEF SerialBillingInv

LEMMA SerialBillingStep ==
    ASSUME OneHandler, BillingInv, SerialBillingInv, [Next]_vars
    PROVE  SerialBillingInv'
<1>0. hdl \in [Handlers -> Handler]
  BY DEF BillingInv
<1>f. ASSUME NEW h \in Handlers, Finish(h), UNCHANGED <<grants, subscriptions>>
      PROVE  SerialBillingInv'
  <2>1. hdl'[h].pc = "idle"
    BY <1>0, <1>f DEF Finish, IdleHandler
  <2> QED
    BY <1>f, <2>1, ReadersKeepSerial
<1>g. ASSUME NEW h \in Handlers, NEW p, Goto(h, p),
             p \notin {"flush", "apply", "commit"},
             UNCHANGED <<grants, subscriptions>>
      PROVE  SerialBillingInv'
  <2>1. hdl'[h].pc = p
    BY <1>0, <1>g DEF Goto, Handler
  <2> QED
    BY <1>g, <2>1, ReadersKeepSerial
<1>1. ASSUME NEW h \in Handlers, NEW u, NEW e, Begin(h, u, e)
      PROVE  SerialBillingInv'
  <2>1. /\ hdl'[h].pc \in {"plans", "check", "lookup"}
        /\ UNCHANGED <<grants, subscriptions>>
    BY <1>0, <1>1 DEF Begin, AfterPlans, IdleHandler, tables
  <2> QED
    BY <2>1, ReadersKeepSerial
<1>2. ASSUME NEW h \in Handlers, AddPlan(h) PROVE SerialBillingInv'
  <2> DEFINE next == MissingPlan(plans \cup {hdl[h].code})
             p == IF next = "none" THEN AfterPlans(hdl[h].event) ELSE "plans"
  <2>1. UNCHANGED <<grants, subscriptions>>
    BY <1>2 DEF AddPlan
  <2>2. Finish(h) \/ hdl' = [hdl EXCEPT ![h].code = next, ![h].pc = p]
    BY <1>2 DEF AddPlan
  <2>3. p \in {"plans", "check", "lookup"}
    BY DEF AfterPlans
  <2> HIDE DEF next, p
  <2>4. CASE hdl' = [hdl EXCEPT ![h].code = next, ![h].pc = p]
    <3>1. hdl'[h].pc = p
      BY <1>0, <2>4 DEF Handler
    <3> QED
      BY <2>1, <2>3, <3>1, ReadersKeepSerial
  <2> QED
    BY <1>f, <2>1, <2>2, <2>4
<1>3. ASSUME NEW h \in Handlers, LookupEvent(h) PROVE SerialBillingInv'
  <2>1. UNCHANGED <<grants, subscriptions>>
    BY <1>3 DEF LookupEvent, tables
  <2>2. ASSUME NEW m, hdl' = [hdl EXCEPT ![h].pc = "retrieve", ![h].mark = m]
        PROVE  SerialBillingInv'
    <3>1. hdl'[h].pc = "retrieve"
      BY <1>0, <2>2 DEF Handler
    <3> QED
      BY <2>1, <3>1, ReadersKeepSerial
  <2> QED
    BY <1>3, <1>f, <1>g, <2>1, <2>2 DEF LookupEvent
<1>4. ASSUME NEW h \in Handlers, CreateEvent(h) PROVE SerialBillingInv'
  BY <1>4, <1>f, <1>g DEF CreateEvent, tables
<1>5. ASSUME NEW h \in Handlers, HandleEvent(h) PROVE SerialBillingInv'
  <2>1. UNCHANGED <<grants, subscriptions>>
    BY <1>5 DEF HandleEvent, tables
  <2>2. ASSUME NEW raw, hdl' = [hdl EXCEPT ![h].pc = "load", ![h].raw = raw]
        PROVE  SerialBillingInv'
    <3>1. hdl'[h].pc = "load"
      BY <1>0, <2>2 DEF Handler
    <3> QED
      BY <2>1, <3>1, ReadersKeepSerial
  <2> QED
    BY <1>5, <1>g, <2>1, <2>2 DEF HandleEvent
<1>6. ASSUME NEW h \in Handlers, RetrieveFails(h) \/ PriceUnknown(h)
      PROVE  SerialBillingInv'
  BY <1>6, <1>g DEF RetrieveFails, PriceUnknown, tables
<1>7. ASSUME NEW h \in Handlers, CommitIgnored(h) \/ CommitFailed(h) \/ Die(h)
      PROVE  SerialBillingInv'
  BY <1>7, <1>f DEF CommitIgnored, CommitFailed, Die, tables
<1>8. ASSUME NEW h \in Handlers, HandlerStep(h) PROVE SerialBillingInv'
  BY <1>2, <1>3, <1>4, <1>5, <1>7, <1>8, LoadingKeepsSerial, CommitKeepsSerial
     DEF HandlerStep
<1>9. CASE UNCHANGED <<hdl, grants, subscriptions>>
  BY <1>9 DEF SerialBillingInv, HandlerCurrent, AtMostOneGrant, ProBacked,
     PaidBacked, HasPro
<1>10. ASSUME NEW s \in Subs, StripeStep(s)
       PROVE  UNCHANGED <<hdl, grants, subscriptions>>
  BY <1>10 DEF StripeStep, Checkout, StripeUpdates, StripeCancels, tables
<1>11. UNCHANGED vars => UNCHANGED <<hdl, grants, subscriptions>>
  BY DEF vars
<1> QED
  BY <1>1, <1>6, <1>7, <1>8, <1>9, <1>10, <1>11 DEF Next, Access, Deliver

LEMMA SerialBillingInvariant ==
    ASSUME OneHandler
    PROVE  Spec => [](BillingInv /\ SerialBillingInv)
<1>1. BillingInv /\ SerialBillingInv /\ [Next]_vars => SerialBillingInv'
  BY SerialBillingStep
<1> QED
  BY <1>1, SerialBillingInitial, BillingInvariant, PTL DEF Spec

(***************************************************************************)
(* With requests and webhooks one at a time, the entitlements of a user    *)
(* come from one call of _apply_plan_entitlements, the last.               *)
(***************************************************************************)
THEOREM OneGrantOneByOne ==
    ASSUME OneHandler
    PROVE  Spec => []OneGrant
<1>1. BillingInv /\ SerialBillingInv => OneGrant
  <2> SUFFICES ASSUME BillingInv, SerialBillingInv, NEW u \in Users
               PROVE  Cardinality(grants[u]) <= 1
    BY DEF OneGrant
  <2>1. CASE grants[u] = {}
    BY <2>1, FS_EmptySet
  <2>2. CASE grants[u] # {}
    <3>1. PICK g : grants[u] = {g}
      BY <2>2 DEF SerialBillingInv, AtMostOneGrant
    <3>2. Cardinality({g}) = 1
      BY FS_Singleton
    <3> QED
      BY <3>1, <3>2
  <2> QED
    BY <2>1, <2>2
<1> QED
  BY <1>1, SerialBillingInvariant, PTL

(***************************************************************************)
(* Cancelling takes the user back to Free: one at a time, whatever order   *)
(* Stripe delivers its events in and however often a handler fails, Pro    *)
(* entitlements have an active subscription behind them.  Overlapping      *)
(* requests can break this, as the run billing_cancel_race shows.          *)
(***************************************************************************)
THEOREM ProIsPaidOneByOne ==
    ASSUME OneHandler
    PROVE  Spec => []ProIsPaid
<1>1. SerialBillingInv => ProIsPaid
  BY DEF SerialBillingInv, ProBacked, ProIsPaid, HasPro, ActiveSubscriptions,
     Entitling
<1> QED
  BY <1>1, SerialBillingInvariant, PTL

(***************************************************************************)
(* An upgrade activates the Pro entitlements: one at a time, and with one  *)
(* subscription for each customer, whoever has an active one has them.     *)
(***************************************************************************)
THEOREM PaidHasProOneByOne ==
    ASSUME OneHandler, OneSubEach
    PROVE  Spec => []PaidHasPro
<1>1. SerialBillingInv => PaidHasPro
  BY DEF SerialBillingInv, PaidBacked, PaidHasPro, ActiveSubscriptions,
     Entitling
<1> QED
  BY <1>1, SerialBillingInvariant, PTL
=============================================================================
