---------------------------- MODULE RateLimiter ----------------------------
(***************************************************************************)
(* One key of the rate limiter (app/core/rate_limit.py): the counter in    *)
(* Redis, which counts for all processes, and the store of this process,   *)
(* which stands in for Redis when Redis fails and the limiter fails open.  *)
(* Times are kept as durations.  INCR and EXPIRE are two calls; other      *)
(* requests, a fault or the end of the process may come between them, and  *)
(* a fault may hide that Redis has done what it was asked.                 *)
(***************************************************************************)
EXTENDS Integers, FiniteSets

CONSTANTS
    Limit,          \* requests a window admits
    Window,         \* window_seconds
    Callers,        \* requests that may be under way at once
    MaxRateFaults   \* bound: errors of Redis, and processes that end

ASSUME RateAssumption ==
    /\ {Limit, Window} \subseteq Nat \ {0}
    /\ IsFiniteSet(Callers)
    /\ MaxRateFaults \in Nat

VARIABLES
    counter, ttl,               \* the key in Redis; 0 and NoTtl: not there
    current_count, expires_in,  \* _fallback_store
    caller,         \* "idle", or "incremented" before the key expires
    answer,         \* what the last request was told
    recent,         \* history: requests admitted in the last age + 1 seconds
    rate_faults,    \* history: errors of Redis
    process_ends    \* history: processes that have ended

rateVars == <<counter, ttl, current_count, expires_in, caller, answer,
              recent, rate_faults, process_ends>>

\* A key without a time to live never expires.
NoTtl == Window + 1

\* Counters are told apart up to one above the limit.
Count(n) == IF n < Limit THEN n + 1 ELSE Limit + 1

RateInit ==
    /\ counter = 0 /\ ttl = NoTtl
    /\ current_count = 0 /\ expires_in = 0
    /\ caller = [c \in Callers |-> "idle"]
    /\ answer = "none"
    /\ recent = [age \in 0 .. Window - 1 |-> 0]
    /\ rate_faults = 0 /\ process_ends = 0

-----------------------------------------------------------------------------
\* It counts for this second and for every longer time that ends with it.
Admit ==
    /\ answer' = "admitted"
    /\ recent' = [age \in DOMAIN recent |-> recent[age] + 1]

\* Mutant of Answer: a request is compared before it is counted.
Answer_before(count) ==
    IF count - 1 <= Limit
    THEN Admit
    ELSE answer' = "refused" /\ recent' = recent

\* The request is admitted, or refused with 429.
Answer(count) ==
    IF count <= Limit
    THEN Admit
    ELSE answer' = "refused" /\ recent' = recent

\* Mutant of Incr: a refused request starts the window again.
Incr_prolonging(c) ==
    /\ caller[c] = "idle"
    /\ counter' = Count(counter)
    /\ IF counter = 0
       THEN caller' = [caller EXCEPT ![c] = "incremented"]
            /\ UNCHANGED <<ttl, answer, recent>>
       ELSE ttl' = Window /\ Answer(Count(counter)) /\ caller' = caller
    /\ UNCHANGED <<current_count, expires_in, rate_faults, process_ends>>

\* incr; the first request of a window goes on to expire.
Incr(c) ==
    /\ caller[c] = "idle"
    /\ counter' = Count(counter)
    /\ IF counter = 0
       THEN caller' = [caller EXCEPT ![c] = "incremented"]
            /\ UNCHANGED <<answer, recent>>
       ELSE Answer(Count(counter)) /\ caller' = caller
    /\ UNCHANGED <<ttl, current_count, expires_in, rate_faults, process_ends>>

\* expire; the counter that incr has returned was 1.
Expire(c) ==
    /\ caller[c] = "incremented"
    /\ ttl' = Window
    /\ caller' = [caller EXCEPT ![c] = "idle"]
    /\ Answer(1)
    /\ UNCHANGED <<counter, current_count, expires_in, rate_faults, process_ends>>

\* What the error may leave in Redis: nothing, or what was asked, when only
\* the answer is lost.
LeftInRedis(c) ==
    \/ UNCHANGED <<counter, ttl>>
    \/ caller[c] = "idle" /\ counter' = Count(counter) /\ ttl' = ttl
    \/ caller[c] = "incremented" /\ ttl' = Window /\ counter' = counter

\* _allow_fallback, after an error of incr or of expire.
AllowFallback(c) ==
    LET expired == expires_in = 0
        count == Count(IF expired THEN 0 ELSE current_count)
    IN  /\ rate_faults + process_ends < MaxRateFaults
        /\ rate_faults' = rate_faults + 1
        /\ LeftInRedis(c)
        /\ current_count' = count
        /\ expires_in' = IF expired THEN Window ELSE expires_in
        /\ Answer(count)
        /\ caller' = [caller EXCEPT ![c] = "idle"]
        /\ UNCHANGED process_ends

\* A process ends at any point of its requests; so does its store.
ProcessEnds ==
    /\ rate_faults + process_ends < MaxRateFaults
    /\ process_ends' = process_ends + 1
    /\ caller' = [c \in Callers |-> "idle"]
    /\ current_count' = 0 /\ expires_in' = 0
    /\ UNCHANGED <<counter, ttl, answer, recent, rate_faults>>

RateSecond ==
    /\ counter' = IF ttl = 1 THEN 0 ELSE counter
    /\ ttl' = CASE ttl = NoTtl -> ttl [] ttl = 1 -> NoTtl [] OTHER -> ttl - 1
    /\ expires_in' = IF expires_in = 0 THEN 0 ELSE expires_in - 1
    /\ recent' = [age \in DOMAIN recent |-> IF age = 0 THEN 0 ELSE recent[age - 1]]
    /\ UNCHANGED <<current_count, caller, answer, rate_faults, process_ends>>

RateNext ==
    \/ \E c \in Callers : Incr(c) \/ Expire(c) \/ AllowFallback(c)
    \/ ProcessEnds
    \/ RateSecond

RateSpec == RateInit /\ [][RateNext]_rateVars

\* Time passes, the client asks again, and a request that is served ends.
RateFairness ==
    /\ WF_rateVars(RateSecond)
    /\ \A c \in Callers : WF_rateVars(Incr(c)) /\ WF_rateVars(Expire(c))

RateFairSpec == RateSpec /\ RateFairness

-----------------------------------------------------------------------------
(***************************************************************************)
(* Whatever the interleaving of incr and expire, any Window seconds admit  *)
(* less than twice the limit: the end of one window, without the request   *)
(* that opened it, and all of the next.  While Redis fails the store       *)
(* admits as much once more, and the limit again after each restart.       *)
(***************************************************************************)
AdmissionBounded ==
    recent[Window - 1] <= IF rate_faults = 0 THEN 2 * Limit - 1
                          ELSE 2 * (2 * Limit - 1) + process_ends * Limit

\* A request was cut off between incr and expire: the key is there for ever.
KeyStuck == counter > 0 /\ ttl = NoTtl /\ \A c \in Callers : caller[c] = "idle"

(***************************************************************************)
(* "Rate limit exceeded for scope.  Try again later.": a client that keeps *)
(* asking is let in again, through errors and restarts, unless a request   *)
(* was cut off between incr and expire.                                    *)
(***************************************************************************)
RefusedIsAdmitted == answer = "refused" ~> answer = "admitted" \/ KeyStuck
=============================================================================
