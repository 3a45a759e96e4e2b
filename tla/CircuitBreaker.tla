--------------------------- MODULE CircuitBreaker ---------------------------
(***************************************************************************)
(* The circuit breaker of ResilientLLMProvider (apps/roadmaps/llm.py), as  *)
(* process_roadmap uses it with llm_provider "openai": a worker builds a   *)
(* provider for every roadmap, calls it once and drops it, and with it the *)
(* state of the breaker.                                                   *)
(*                                                                         *)
(* Times are kept as durations: open_for is what is left until             *)
(* opened_until, elapsed the age of the call to the primary.  streak and   *)
(* since_failure are history: what a breaker that outlives a roadmap would *)
(* know of the primary.                                                    *)
(***************************************************************************)
EXTENDS Integers

CONSTANTS
    Threshold,      \* failure_threshold, at least 1
    Recovery,       \* recovery_seconds, at least 1
    Timeout         \* seconds after which the primary's client gives up

VARIABLES
    consecutive_failures, open_for,     \* CircuitBreakerState
    breaker_pc, \* "none": no provider; "built"; "calling": the primary runs
    elapsed,    \* seconds since this call has started
    streak,     \* failures of the primary in a row, up to Threshold
    since_failure   \* seconds since the last failed call started, up to Recovery

breakerVars == <<consecutive_failures, open_for, breaker_pc, elapsed, streak,
                 since_failure>>

BreakerInit ==
    /\ consecutive_failures = 0
    /\ open_for = 0
    /\ breaker_pc = "none"
    /\ elapsed = 0
    /\ streak = 0
    /\ since_failure = Recovery

-----------------------------------------------------------------------------
UpTo(bound, n) == IF n < bound THEN n ELSE bound

Minus(m, n) == IF m > n THEN m - n ELSE 0

is_open == open_for > 0

\* process_roadmap takes up a roadmap: its provider has a closed breaker.
build_llm_provider ==
    /\ breaker_pc = "none"
    /\ consecutive_failures' = 0
    /\ open_for' = 0
    /\ breaker_pc' = "built"
    /\ UNCHANGED <<elapsed, streak, since_failure>>

\* The breaker is open: the fallback answers.
CallFallback ==
    /\ breaker_pc = "built"
    /\ is_open
    /\ breaker_pc' = "none"
    /\ UNCHANGED <<consecutive_failures, open_for, elapsed, streak,
                   since_failure>>

\* now is read once, before the primary is called.
CallPrimary ==
    /\ breaker_pc = "built"
    /\ ~is_open
    /\ breaker_pc' = "calling"
    /\ elapsed' = 0
    /\ UNCHANGED <<consecutive_failures, open_for, streak, since_failure>>

\* record_success; the provider is not called again.
PrimarySucceeds ==
    /\ breaker_pc = "calling"
    /\ consecutive_failures' = 0
    /\ open_for' = 0
    /\ breaker_pc' = "none"
    /\ elapsed' = 0
    /\ streak' = 0
    /\ UNCHANGED since_failure

(***************************************************************************)
(* record_failure: opened_until is Recovery after the start of the call.   *)
(* The fallback answers and the provider is not called again.              *)
(***************************************************************************)
PrimaryFails ==
    /\ breaker_pc = "calling"
    /\ consecutive_failures' = consecutive_failures + 1
    /\ open_for' = IF consecutive_failures' >= Threshold
                   THEN Minus(Recovery, elapsed) ELSE open_for
    /\ breaker_pc' = "none"
    /\ elapsed' = 0
    /\ streak' = UpTo(Threshold, streak + 1)
    /\ since_failure' = UpTo(Recovery, elapsed)

BreakerSecond ==
    /\ breaker_pc = "calling" => elapsed < Timeout
    /\ elapsed' = IF breaker_pc = "calling" THEN elapsed + 1 ELSE 0
    /\ open_for' = Minus(open_for, 1)
    /\ since_failure' = UpTo(Recovery, since_failure + 1)
    /\ UNCHANGED <<consecutive_failures, breaker_pc, streak>>

BreakerNext ==
    \/ build_llm_provider
    \/ CallFallback
    \/ CallPrimary
    \/ PrimarySucceeds
    \/ PrimaryFails
    \/ BreakerSecond

BreakerSpec == BreakerInit /\ [][BreakerNext]_breakerVars

-----------------------------------------------------------------------------
(***************************************************************************)
(* docs/06-regras-de-negocio.md:90: "Circuit breaker para falhas           *)
(* consecutivas no primário."  A call to the primary starts only when it   *)
(* has failed fewer than Threshold times in a row, or has rested for       *)
(* Recovery seconds since the start of the last failed call.               *)
(***************************************************************************)
FailingPrimaryRests ==
    breaker_pc = "calling" /\ elapsed = 0 =>
        streak < Threshold \/ since_failure = Recovery
=============================================================================
