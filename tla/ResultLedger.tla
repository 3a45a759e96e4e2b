---------------------------- MODULE ResultLedger ----------------------------
(***************************************************************************)
(* What apps/assessments promises to the user who polls an assessment, its *)
(* job and its result.  Executions may overlap, so that a status that was  *)
(* reported may be followed by any other but pending; what was computed is *)
(* worth more than that:                                                   *)
(*   - an assessment is reported as completed only by the step that stores *)
(*     a result, and nobody works on it before its job exists;             *)
(*   - a result with its items is final, one without may only be replaced  *)
(*     by another;                                                         *)
(*   - the job is completed only when there is a result, and is not        *)
(*     started again, although it may still be given up.                   *)
(***************************************************************************)
EXTENDS Naturals

CONSTANT Assessments

VARIABLE ledger     \* status, job and result of each assessment

Absent == [status |-> "absent", job |-> "none",
           result |-> [gen |-> 0, kind |-> "none"]]

Init == ledger = [a \in Assessments |-> Absent]

Request(a) ==
    /\ ledger[a].status = "absent"
    /\ ledger' = [ledger EXCEPT ![a].status = "pending"]

OpenJob(a) ==
    /\ ledger[a].status = "pending" /\ ledger[a].job = "none"
    /\ ledger' = [ledger EXCEPT ![a].job = "pending"]

\* An execution begins or fails.
Report(a, status) ==
    /\ ledger[a].job # "none"
    /\ ledger' = [ledger EXCEPT ![a].status = status]

Deliver(a, kind) ==
    /\ ledger[a].job # "none"
    /\ ledger[a].result.kind # "itemized"
    /\ ledger' = [ledger EXCEPT ![a] =
                    [status |-> "completed", job |-> @.job,
                     result |-> [gen |-> @.result.gen + 1, kind |-> kind]]]

\* The job is started, or waits for a retry.
Schedule(a, job) ==
    /\ ledger[a].job \notin {"none", "completed"}
    /\ ledger' = [ledger EXCEPT ![a].job = job]

CompleteJob(a) ==
    /\ ledger[a].job # "none"
    /\ ledger[a].result.kind # "none"
    /\ ledger' = [ledger EXCEPT ![a].job = "completed"]

GiveUp(a) ==
    /\ ledger[a].job # "none"
    /\ ledger' = [ledger EXCEPT ![a].job = "dead_letter"]

Next ==
    \E a \in Assessments :
        \/ Request(a)
        \/ OpenJob(a)
        \/ \E status \in {"running", "failed"} : Report(a, status)
        \/ \E kind \in {"bare", "itemized"} : Deliver(a, kind)
        \/ \E job \in {"running", "pending"} : Schedule(a, job)
        \/ CompleteJob(a)
        \/ GiveUp(a)

Spec == Init /\ [][Next]_ledger
=============================================================================
