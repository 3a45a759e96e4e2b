------------------------------ MODULE Billing -------------------------------
(***************************************************************************)
(* Plans, subscriptions and entitlements (apps/billing): the free baseline *)
(* a user gets on first access, and the Stripe webhooks that follow a      *)
(* subscription.  Each request has a database session of its own, at READ  *)
(* COMMITTED; its actions are cut where the commit of another one can      *)
(* become visible.  A write flushed before the commit is kept by the       *)
(* handler until then, as the row lock or the unique index entry that the  *)
(* others have to wait for.                                                *)
(*                                                                         *)
(* The entitlement rows that one _apply_plan_entitlements call creates are *)
(* one grant.  A closed grant (valid_to in the past) is never read again   *)
(* and is dropped, so that no timestamp has to be kept.                    *)
(***************************************************************************)
EXTENDS Integers, FiniteSets

CONSTANTS
    Users,
    Subs,           \* provider_subscription_id of a Stripe subscription
    Customer,       \* the user who pays for each of them
    Events,         \* bound: the events Stripe may create
    Handlers,       \* concurrent requests
    MaxFaults       \* bound: failed calls to Stripe, unknown prices and
                    \* dying requests

\* Stripe's own statuses, as far as _map_subscription_status tells them apart.
RawStatus == {"none", "active", "unpaid", "canceled", "incomplete_expired"}

EventType == {"checkout.session.completed", "invoice.paid",
              "customer.subscription.updated",
              "customer.subscription.deleted", "other"}

ASSUME BillingAssumption ==
    /\ Customer \in [Subs -> Users]
    /\ Events \subseteq [type : EventType, sub : Subs, raw : RawStatus]
    /\ IsFiniteSet(Handlers)
    /\ MaxFaults \in Nat

VARIABLES
    plans,          \* plans.code
    subscriptions,  \* the row of each Stripe subscription
    grants,         \* active entitlements of each user
    events,         \* billing_events.status of each Stripe event
    hdl,            \* the request each handler is in the middle of
    provider,       \* status of each subscription at Stripe
    sent,           \* events Stripe has created and may deliver at any time
    faults

vars == <<plans, subscriptions, grants, events, hdl, provider, sent,
          faults>>

-----------------------------------------------------------------------------
PlanCode == {"free", "pro"}

SubscriptionStatus == {"active", "past_due", "canceled", "expired"}

Row == {"absent"} \cup SubscriptionStatus

\* "received" is written by create_billing_event but never committed.
EventStatus == {"processed", "ignored", "failed"}

SettledEvent == {"processed", "ignored"}

NoSub == << >>

\* n distinguishes the rows of different calls.
Grant == [plan : PlanCode, sub : Subs \cup {NoSub}, n : Nat]

HandlerPc == {"idle", "plans", "check", "lookup", "event", "retrieve", "load",
              "reselect", "flush", "apply", "commit", "ignore", "fail"}

NoEvent == << >>
NoUser  == << >>

Handler == [pc    : HandlerPc,
            code  : PlanCode \cup {"none"},      \* the plan found missing
            user  : Users \cup {NoUser},
            event : Events \cup {NoEvent},        \* none for a baseline
            mark  : EventStatus \cup {"none"},   \* billing_event as loaded
            raw   : RawStatus,                   \* subscription_object.status
            row   : Row,                         \* existing, as loaded
            holds : BOOLEAN,                     \* has flushed the row
            open  : SUBSET Grant,                \* grants it will close
            n     : Nat]                         \* the grant it will create

IdleHandler == [pc |-> "idle", code |-> "none", user |-> NoUser,
                event |-> NoEvent, mark |-> "none", raw |-> "none",
                row |-> "absent", holds |-> FALSE, open |-> {}, n |-> 0]

TypeOK ==
    /\ plans \subseteq PlanCode
    /\ subscriptions \in [Subs -> Row]
    /\ grants \in [Users -> SUBSET Grant]
    /\ events \in [Events -> EventStatus \cup {"none"}]
    /\ hdl \in [Handlers -> Handler]
    /\ \A h \in Handlers :
          /\ hdl[h].pc \in {"check", "apply", "commit"} => hdl[h].user \in Users
          /\ hdl[h].pc \notin {"idle", "plans", "check", "apply", "commit"}
                => hdl[h].event \in Events
          /\ hdl[h].pc = "plans" => hdl[h].code # "none"
    /\ provider \in [Subs -> RawStatus]
    /\ sent \subseteq Events
    /\ faults \in 0 .. MaxFaults

Init ==
    /\ plans = {}
    /\ subscriptions = [s \in Subs |-> "absent"]
    /\ grants = [u \in Users |-> {}]
    /\ events = [e \in Events |-> "none"]
    /\ hdl = [h \in Handlers |-> IdleHandler]
    /\ provider = [s \in Subs |-> "none"]
    /\ sent = {}
    /\ faults = 0

-----------------------------------------------------------------------------
Goto(h, p) == hdl' = [hdl EXCEPT ![h].pc = p]

\* The response is sent; the session is closed and holds nothing any more.
Finish(h) == hdl' = [hdl EXCEPT ![h] = IdleHandler]

tables == <<plans, subscriptions, grants, events>>
stripe == <<provider, sent>>

\* Mutant of map_subscription_status: Stripe's status is stored as it is.
map_subscription_status_raw(raw) == raw

map_subscription_status(raw) ==
    CASE raw = "active"   -> "active"
      [] raw = "unpaid"   -> "past_due"
      [] raw = "canceled" -> "canceled"
      [] OTHER            -> "expired"

\* Mutant of Entitling: a payment that is late takes the plan away.
Entitling_active == {"active"}

\* The statuses for which _apply_entitlements_for_status grants the plan.
Entitling == {"active", "past_due"}

\* Mutant of GrantedPlan: the new status is not looked at.
GrantedPlan_any_status(h) == IF hdl[h].event # NoEvent THEN "pro" ELSE "free"

\* The plan a handler grants: free on first access, or what the status says.
GrantedPlan(h) ==
    IF hdl[h].event # NoEvent
         /\ map_subscription_status(hdl[h].raw) \in Entitling
    THEN "pro" ELSE "free"

\* The first plan _ensure_default_plans does not find.
MissingPlan(ps) == IF "free" \notin ps THEN "free"
                   ELSE IF "pro" \notin ps THEN "pro" ELSE "none"

\* Where a request goes on when both plans are there.
AfterPlans(e) == IF e = NoEvent THEN "check" ELSE "lookup"

-----------------------------------------------------------------------------
\* Both entry points begin with _ensure_default_plans.
Begin(h, u, e) ==
    LET missing == MissingPlan(plans)
    IN  /\ hdl[h].pc = "idle"
        /\ hdl' = [hdl EXCEPT ![h] =
                      [IdleHandler EXCEPT
                         !.pc = IF missing = "none" THEN AfterPlans(e)
                                                    ELSE "plans",
                         !.code = missing, !.user = u, !.event = e]]
        /\ UNCHANGED <<tables, stripe, faults>>

\* A request of u that needs its entitlements: ensure_user_access_baseline.
Access(h, u) == Begin(h, u, NoEvent)

\* Stripe delivers an event, in any order and as often as it likes.
Deliver(h, e) == e \in sent /\ Begin(h, NoUser, e)

(***************************************************************************)
(* get_or_create_plan inserts the plan it has not found and commits; the   *)
(* code is unique, and a request that loses the race ends with an error.   *)
(***************************************************************************)
AddPlan(h) ==
    LET code == hdl[h].code
        next == MissingPlan(plans \cup {code})
    IN  /\ hdl[h].pc = "plans"
        /\ \/ code \in plans /\ Finish(h) /\ UNCHANGED plans
           \/ /\ code \notin plans
              /\ plans' = plans \cup {code}
              /\ hdl' = [hdl EXCEPT
                    ![h].code = next,
                    ![h].pc = IF next = "none" THEN AfterPlans(hdl[h].event)
                                               ELSE "plans"]
        /\ UNCHANGED <<subscriptions, grants, events, stripe, faults>>

\* The first query of ensure_user_access_baseline.
CheckBaseline(h) ==
    /\ hdl[h].pc = "check"
    /\ IF grants[hdl[h].user] # {} THEN Finish(h) ELSE Goto(h, "apply")
    /\ UNCHANGED <<tables, stripe, faults>>

\* Mutant of LookupEvent: a failed event counts as handled.
LookupEvent_any(h) ==
    LET mark == events[hdl[h].event]
    IN  /\ hdl[h].pc = "lookup"
        /\ IF mark # "none" THEN Finish(h) ELSE Goto(h, "event")
        /\ UNCHANGED <<tables, stripe, faults>>

(***************************************************************************)
(* get_billing_event: a settled event is a replay and is acknowledged; a   *)
(* failed one is handled once more under its row.                          *)
(***************************************************************************)
LookupEvent(h) ==
    LET mark == events[hdl[h].event]
    IN  /\ hdl[h].pc = "lookup"
        /\ \/ mark \in SettledEvent /\ Finish(h)
           \/ mark = "none" /\ Goto(h, "event")
           \/ /\ mark = "failed"
              /\ hdl' = [hdl EXCEPT ![h].pc = "retrieve", ![h].mark = mark]
        /\ UNCHANGED <<tables, stripe, faults>>

\* Handlers whose uncommitted insert of the event e blocks another one.
Inserting(e) == {h \in Handlers :
    /\ hdl[h].event = e
    /\ hdl[h].mark = "none"
    /\ hdl[h].pc \notin {"idle", "plans", "lookup", "event"}}

(***************************************************************************)
(* create_billing_event waits for a concurrent insert of the same event    *)
(* and fails on uq_billing_events_provider_event_id if it was committed.   *)
(***************************************************************************)
CreateEvent(h) ==
    /\ hdl[h].pc = "event"
    /\ Inserting(hdl[h].event) = {}
    /\ IF events[hdl[h].event] # "none" THEN Finish(h) ELSE Goto(h, "retrieve")
    /\ UNCHANGED <<tables, stripe, faults>>

(***************************************************************************)
(* _handle_stripe_event: checkout and invoice events ask Stripe for the    *)
(* subscription as it is now, the other two carry a snapshot of it, and    *)
(* everything else is ignored.  "other" stands for unhandled types and for *)
(* checkouts and invoices that name no subscription.                       *)
(***************************************************************************)
HandleEvent(h) ==
    LET e == hdl[h].event
        raw == IF e.raw = "none" THEN provider[e.sub] ELSE e.raw
    IN  /\ hdl[h].pc = "retrieve"
        /\ \/ e.type = "other" /\ Goto(h, "ignore")
           \/ /\ e.type # "other"
              /\ hdl' = [hdl EXCEPT ![h].pc = "load", ![h].raw = raw]
        /\ UNCHANGED <<tables, stripe, faults>>

\* Stripe does not answer retrieve_subscription.
RetrieveFails(h) ==
    /\ hdl[h].pc = "retrieve"
    /\ hdl[h].event.type \in {"checkout.session.completed", "invoice.paid"}
    /\ faults < MaxFaults
    /\ faults' = faults + 1
    /\ Goto(h, "fail")
    /\ UNCHANGED <<tables, stripe>>

(***************************************************************************)
(* The subscription has a price that no plan has, nor the settings         *)
(* (ValueError), until an administrator enters it.                         *)
(***************************************************************************)
PriceUnknown(h) ==
    /\ hdl[h].pc = "load"
    /\ faults < MaxFaults
    /\ faults' = faults + 1
    /\ Goto(h, "fail")
    /\ UNCHANGED <<tables, stripe>>

(***************************************************************************)
(* _sync_subscription_object loads the row and resolves its user: from the *)
(* row, or from the client_reference_id only a checkout event has.  The    *)
(* metadata the API sends stays on the checkout session, so without a row  *)
(* the other events cannot be resolved (ValueError).                       *)
(***************************************************************************)
Load(h) ==
    LET e   == hdl[h].event
        row == subscriptions[e.sub]
        to(p) == hdl' = [hdl EXCEPT ![h].pc = p, ![h].row = row,
                                    ![h].user = Customer[e.sub]]
    IN  /\ hdl[h].pc = "load"
        /\ \/ row # "absent" /\ to("flush")
           \/ /\ row = "absent"
              /\ e.type = "checkout.session.completed"
              /\ to("reselect")
           \/ /\ row = "absent"
              /\ e.type # "checkout.session.completed"
              /\ Goto(h, "fail")
        /\ UNCHANGED <<tables, stripe, faults>>

\* upsert_subscription looks the row up again; a loaded one is not reread.
Reselect(h) ==
    /\ hdl[h].pc = "reselect"
    /\ hdl' = [hdl EXCEPT ![h].pc = "flush",
                          ![h].row = subscriptions[hdl[h].event.sub]]
    /\ UNCHANGED <<tables, stripe, faults>>

\* Another handler has flushed the row of s and has not committed.
Locked(s, h) ==
    \E o \in Handlers \ {h} : hdl[o].holds /\ hdl[o].event.sub = s

(***************************************************************************)
(* The flush of upsert_subscription.  An INSERT that finds the row         *)
(* committed raises IntegrityError and leaves the session unusable, so     *)
(* that the except clause fails as well and nothing is stored.  An UPDATE  *)
(* is emitted, and locks the row, if the status or another column (period, *)
(* cancel_at_period_end, customer) differs from what was loaded.           *)
(***************************************************************************)
FlushSubscription(h) ==
    LET s == hdl[h].event.sub
        row == hdl[h].row
        write == hdl' = [hdl EXCEPT ![h].pc = "apply", ![h].holds = TRUE]
    IN  /\ hdl[h].pc = "flush"
        /\ \/ /\ row = "absent" /\ ~Locked(s, h)
              /\ IF subscriptions[s] # "absent" THEN Finish(h) ELSE write
           \/ /\ row # "absent" /\ ~Locked(s, h)
              /\ write
           \/ /\ row = map_subscription_status(hdl[h].raw)
              /\ Goto(h, "apply")
        /\ UNCHANGED <<tables, stripe, faults>>

\* Row numbers in use for u, and one that is not.
GrantsInUse(u) ==
    {g.n : g \in grants[u]} \cup {hdl[h].n : h \in Handlers}
      \cup UNION {{g.n : g \in hdl[h].open} : h \in Handlers}

FreshGrant(u) ==
    CHOOSE n \in 0 .. Cardinality(GrantsInUse(u)) : n \notin GrantsInUse(u)

\* Mutant of ApplyEntitlements: the active entitlements are not closed.
ApplyEntitlements_add(h) ==
    /\ hdl[h].pc = "apply"
    /\ hdl' = [hdl EXCEPT ![h].pc = "commit", ![h].n = FreshGrant(hdl[h].user)]
    /\ UNCHANGED <<plans, subscriptions, grants, events, stripe, faults>>

\* Mutant of ApplyEntitlements: deactivate_active_entitlements commits.
ApplyEntitlements_two_commits(h) ==
    /\ hdl[h].pc = "apply"
    /\ hdl' = [hdl EXCEPT ![h].pc = "commit", ![h].n = FreshGrant(hdl[h].user)]
    /\ grants' = [grants EXCEPT ![hdl[h].user] = {}]
    /\ UNCHANGED <<plans, subscriptions, events, stripe, faults>>

\* _apply_plan_entitlements reads the active entitlements it will close.
ApplyEntitlements(h) ==
    /\ hdl[h].pc = "apply"
    /\ hdl' = [hdl EXCEPT ![h].pc = "commit", ![h].n = FreshGrant(hdl[h].user),
                          ![h].open = grants[hdl[h].user]]
    /\ UNCHANGED <<plans, subscriptions, grants, events, stripe, faults>>

\* The row of a webhook's subscription once its UPDATE or INSERT is committed.
Synced(h) ==
    LET e == hdl[h].event
        status == map_subscription_status(hdl[h].raw)
    IN  IF e = NoEvent \/ hdl[h].row = status THEN subscriptions
        ELSE [subscriptions EXCEPT ![e.sub] = status]

\* Mutant of Commit: the subscription is not added to the session.
Commit_no_row(h) ==
    LET e == hdl[h].event
        new == [plan |-> GrantedPlan(h), n |-> hdl[h].n,
                sub |-> IF e = NoEvent THEN NoSub ELSE e.sub]
    IN  /\ hdl[h].pc = "commit"
        /\ grants' = [grants EXCEPT ![hdl[h].user] =
                         (@ \ hdl[h].open) \cup {new}]
        /\ events' = IF e = NoEvent THEN events
                     ELSE [events EXCEPT ![e] = "processed"]
        /\ Finish(h)
        /\ UNCHANGED <<plans, subscriptions, stripe, faults>>

(***************************************************************************)
(* The commit of a baseline or of a handled event: the old entitlements    *)
(* are closed, the new ones created, the subscription and the event        *)
(* updated, all at once.                                                   *)
(***************************************************************************)
Commit(h) ==
    LET e == hdl[h].event
        new == [plan |-> GrantedPlan(h), n |-> hdl[h].n,
                sub |-> IF e = NoEvent THEN NoSub ELSE e.sub]
    IN  /\ hdl[h].pc = "commit"
        /\ grants' = [grants EXCEPT ![hdl[h].user] =
                         (@ \ hdl[h].open) \cup {new}]
        /\ subscriptions' = Synced(h)
        /\ events' = IF e = NoEvent THEN events
                     ELSE [events EXCEPT ![e] = "processed"]
        /\ Finish(h)
        /\ UNCHANGED <<plans, stripe, faults>>

CommitIgnored(h) ==
    /\ hdl[h].pc = "ignore"
    /\ events' = [events EXCEPT ![hdl[h].event] = "ignored"]
    /\ Finish(h)
    /\ UNCHANGED <<plans, subscriptions, grants, stripe, faults>>

\* Mutant of CommitFailed: the UPDATE is emitted whatever was loaded.
CommitFailed_always(h) ==
    /\ hdl[h].pc = "fail"
    /\ events' = [events EXCEPT ![hdl[h].event] = "failed"]
    /\ Finish(h)
    /\ UNCHANGED <<plans, subscriptions, grants, stripe, faults>>

(***************************************************************************)
(* The except clause marks the event failed and commits; the answer is an  *)
(* error, so Stripe delivers again.  For an event loaded as failed the     *)
(* status does not change and is not written.                              *)
(***************************************************************************)
CommitFailed(h) ==
    /\ hdl[h].pc = "fail"
    /\ events' = IF hdl[h].mark = "failed" THEN events
                 ELSE [events EXCEPT ![hdl[h].event] = "failed"]
    /\ Finish(h)
    /\ UNCHANGED <<plans, subscriptions, grants, stripe, faults>>

(***************************************************************************)
(* The process or its database connection is lost, or a statement fails    *)
(* after a flush, which leaves the session unusable, so that the commit of *)
(* the except clause fails as well: everything is undone.                  *)
(***************************************************************************)
Die(h) ==
    /\ hdl[h].pc # "idle"
    /\ faults < MaxFaults
    /\ faults' = faults + 1
    /\ Finish(h)
    /\ UNCHANGED <<tables, stripe>>

-----------------------------------------------------------------------------
SubEvent(s, type, raw) == [type |-> type, sub |-> s, raw |-> raw]

Send(es) == sent' = sent \cup (es \cap Events)

(***************************************************************************)
(* create_checkout_session has made sure that the plans exist; the         *)
(* customer pays and Stripe creates the subscription, one event about the  *)
(* checkout, one about the invoice, and others nobody handles.             *)
(***************************************************************************)
Checkout(s) ==
    /\ plans = PlanCode
    /\ provider[s] = "none"
    /\ provider' = [provider EXCEPT ![s] = "active"]
    /\ Send({SubEvent(s, "checkout.session.completed", "none"),
             SubEvent(s, "invoice.paid", "none"),
             SubEvent(s, "other", "none")})
    /\ UNCHANGED <<tables, hdl, faults>>

\* Stripe updates a subscription, which keeps its status or changes it.
StripeUpdates(s, raw) ==
    /\ provider[s] \in {"active", "unpaid"}
    /\ provider' = [provider EXCEPT ![s] = raw]
    /\ Send({SubEvent(s, "customer.subscription.updated", raw)})
    /\ UNCHANGED <<tables, hdl, faults>>

StripeCancels(s) ==
    /\ provider[s] \in {"active", "unpaid"}
    /\ provider' = [provider EXCEPT ![s] = "canceled"]
    /\ Send({SubEvent(s, "customer.subscription.deleted", "canceled")})
    /\ UNCHANGED <<tables, hdl, faults>>

\* The steps a request takes by itself once it has been sent.
HandlerStep(h) ==
    \/ AddPlan(h)
    \/ CheckBaseline(h)
    \/ LookupEvent(h)
    \/ CreateEvent(h)
    \/ HandleEvent(h)
    \/ Load(h)
    \/ Reselect(h)
    \/ FlushSubscription(h)
    \/ ApplyEntitlements(h)
    \/ Commit(h)
    \/ CommitIgnored(h)
    \/ CommitFailed(h)

StripeStep(s) ==
    \/ Checkout(s)
    \/ \E raw \in {"active", "unpaid"} : StripeUpdates(s, raw)
    \/ StripeCancels(s)

Next ==
    \/ \E h \in Handlers :
          \/ \E u \in Users : Access(h, u)
          \/ \E e \in sent : Deliver(h, e)
          \/ HandlerStep(h)
          \/ RetrieveFails(h)
          \/ PriceUnknown(h)
          \/ Die(h)
    \/ \E s \in Subs : StripeStep(s)

Spec == Init /\ [][Next]_vars

(***************************************************************************)
(* Requests run to their end, and Stripe delivers an event again until it  *)
(* is answered with success.                                               *)
(***************************************************************************)
FairSpec ==
    /\ Spec
    /\ \A h \in Handlers : WF_vars(HandlerStep(h))
    /\ \A e \in Events :
          SF_vars(\E h \in Handlers :
                     events[e] \notin SettledEvent /\ Deliver(h, e))

-----------------------------------------------------------------------------
HasPro(u) == \E g \in grants[u] : g.plan = "pro"

\* get_active_subscription_for_user: the subscription shown to the user.
ActiveSubscriptions(u) ==
    {s \in Subs : Customer[s] = u /\ subscriptions[s] \in {"active", "past_due"}}

Quiet == \A h \in Handlers : hdl[h].pc = "idle"

(***************************************************************************)
(* docs/06: on first access a user gets entitlements.  From then on no     *)
(* upgrade, downgrade or failed handler leaves the user without any, not   *)
(* even between two commits.                                               *)
(***************************************************************************)
AccessKept == [][\A u \in Users : grants[u] # {} => grants'[u] # {}]_vars

(***************************************************************************)
(* A processed event has left its subscription stored, and entitlements    *)
(* that come from a subscription refer to a stored row of that user,       *)
(* whichever of several handlers has inserted it.                          *)
(***************************************************************************)
GrantsBacked ==
    /\ \A u \in Users : \A g \in grants[u] :
          g.sub # NoSub => subscriptions[g.sub] # "absent" /\ Customer[g.sub] = u
    /\ \A e \in Events :
          events[e] = "processed" => subscriptions[e.sub] # "absent"

(***************************************************************************)
(* Idempotent replay: an event that was settled stays so, although a       *)
(* second delivery of a failed one may still be running and fail.          *)
(***************************************************************************)
SettledStays ==
    [][\A e \in Events : events[e] \in SettledEvent => events'[e] = events[e]]_vars

(***************************************************************************)
(* Without concurrent requests, each grant replaces the one before it.     *)
(***************************************************************************)
OneGrant == \A u \in Users : Cardinality(grants[u]) <= 1

(***************************************************************************)
(* docs/06 and test_cancel_event_blocks_roadmap_entitlement: cancelling    *)
(* takes the user back to Free.  When no request is running, a user with   *)
(* Pro entitlements has a subscription that is stored as active.           *)
(***************************************************************************)
ProIsPaid ==
    Quiet => \A u \in Users : HasPro(u) => ActiveSubscriptions(u) # {}

(***************************************************************************)
(* docs/06: an upgrade activates the Pro entitlements.  When no request is *)
(* running, the user of a subscription stored as active has them.          *)
(***************************************************************************)
PaidHasPro ==
    Quiet => \A u \in Users : ActiveSubscriptions(u) # {} => HasPro(u)

(***************************************************************************)
(* Every event Stripe creates is settled in the end, whatever order it     *)
(* arrives in: an event that cannot be resolved yet fails and comes back.  *)
(***************************************************************************)
EventsSettle == \A e \in Events : e \in sent ~> events[e] \in SettledEvent
=============================================================================
