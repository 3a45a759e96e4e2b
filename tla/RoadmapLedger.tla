--------------------------- MODULE RoadmapLedger ----------------------------
(***************************************************************************)
(* What apps/roadmaps promises to the user who polls a roadmap: it is      *)
(* requested, and from then on it may be delivered with a contract, once,  *)
(* or fail.  A contract that was delivered is never exchanged or taken     *)
(* back, not even if the roadmap is reported as failed later, and nothing  *)
(* that is reported as failed or delivered goes back to pending.           *)
(***************************************************************************)
CONSTANTS Roadmaps, Contracts, NoContract

VARIABLE ledger

Absent == [status |-> "none", contract |-> NoContract]

Init == ledger = [r \in Roadmaps |-> Absent]

Request(r) ==
    /\ ledger[r].status = "none"
    /\ ledger' = [ledger EXCEPT ![r].status = "pending"]

Deliver(r, c) ==
    /\ ledger[r] = [status |-> "pending", contract |-> NoContract]
    /\ ledger' = [ledger EXCEPT ![r] = [status |-> "completed", contract |-> c]]

Fail(r) ==
    /\ ledger[r].status \in {"pending", "completed"}
    /\ ledger' = [ledger EXCEPT ![r].status = "failed"]

Next == \E r \in Roadmaps :
            Request(r) \/ Fail(r) \/ \E c \in Contracts : Deliver(r, c)

Spec == Init /\ [][Next]_ledger
=============================================================================
