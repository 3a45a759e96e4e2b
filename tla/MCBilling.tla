----------------------------- MODULE MCBilling ------------------------------
(***************************************************************************)
(* Instances of Billing for TLC.  Every subscription is of one user.       *)
(* Sets of events bound the runs: the races need one of each kind that     *)
(* takes a different path, the serial run all but the update back to       *)
(* active, which takes the path of the update to unpaid.                   *)
(***************************************************************************)
EXTENDS Billing, TLC

CONSTANT u1

OneCustomer == [s \in Subs |-> u1]

AllEvents ==
    UNION {{SubEvent(s, "checkout.session.completed", "none"),
            SubEvent(s, "invoice.paid", "none"),
            SubEvent(s, "other", "none"),
            SubEvent(s, "customer.subscription.updated", "active"),
            SubEvent(s, "customer.subscription.updated", "unpaid"),
            SubEvent(s, "customer.subscription.deleted", "canceled")}
           : s \in Subs}

RaceEvents ==
    {e \in AllEvents : e.type \notin {"invoice.paid", "other"}
                          /\ e.raw # "active"}

SerialEvents == {e \in AllEvents : e.raw # "active"}

Symmetry == Permutations(Handlers)
=============================================================================
