--------------------------- MODULE FallbackProofs ---------------------------
(***************************************************************************)
(* What is left to rely on when a service fails: the rate limiter with its *)
(* in-memory store, for every limit and window, any number of callers,     *)
(* faults and restarts; the contract the fallback builds for a roadmap,    *)
(* for any number of items.                                                *)
(***************************************************************************)
EXTENDS RateLimiter, RoadmapContracts,
        FunctionTheorems, FiniteSetTheorems, TLAPS

(***************************************************************************)
(* The rate limiter. Admissions are paid for by what has been counted: a   *)
(* window of Redis has room for Limit of them, and the seconds that look back *)
(* across its start for Limit - 1 of the window before.                    *)
(***************************************************************************)

Least(a, b) == IF a < b THEN a ELSE b

\* The request between incr and expire, not answered yet.
Pending == IF \E c \in Callers : caller[c] = "incremented" THEN 1 ELSE 0

\* Of a window that ends in `left` seconds: whether the last age + 1 seconds
\* leave out the request that opened it, and what they may hold of the one before.
Opener(age, left) == IF age + left < Window THEN 1 ELSE 0
Previous(age, left) == IF age + left > Window THEN Limit - 1 ELSE 0

\* Of n requests Redis has counted, one of them not answered when pending is 1.
RedisShare(age, n, left, pending) ==
    (IF n = 0 THEN 0 ELSE Least(n, Limit) - pending - Opener(age, left))
      + Previous(age, Least(left, Window))

\* Of n requests the store has counted; it has expired when left is 0.
StoreShare(age, n, left) ==
    IF left = 0 THEN Previous(age, Window)
    ELSE Least(n, Limit) - Opener(age, left) + Previous(age, left)

\* At most what Redis, and the stores of this process and of those that have
\* ended, have admitted in the last age + 1 seconds.
ByRedis(age) == RedisShare(age, counter, ttl, Pending)
ByStore(age) == StoreShare(age, current_count, expires_in) + process_ends * Limit

RateTypeOK ==
    /\ counter \in Nat /\ counter <= Limit + 1
    /\ ttl \in Nat /\ 1 <= ttl /\ ttl <= NoTtl
    /\ current_count \in Nat /\ current_count <= Limit + 1
    /\ expires_in \in Nat /\ expires_in <= Window
    /\ caller \in [Callers -> {"idle", "incremented"}]
    /\ recent \in [0 .. Window - 1 -> Nat]
    /\ rate_faults \in Nat /\ process_ends \in Nat

\* The first request of a window is alone between incr and expire, and only
\* expire lets the key end.
FirstAlone ==
    /\ counter = 0 => ttl = NoTtl
    /\ \A c \in Callers : caller[c] = "incremented" =>
          /\ counter >= 1 /\ ttl = NoTtl
          /\ \A d \in Callers : caller[d] = "incremented" => d = c

\* The store counts from 1, and is used when Redis has failed.
StoreUsed ==
    /\ expires_in > 0 => current_count >= 1
    /\ rate_faults = 0 => expires_in = 0

\* Every admission has been counted.
AdmissionsCounted ==
    \A age \in 0 .. Window - 1 :
        recent[age] <= ByRedis(age) + (IF rate_faults = 0 THEN 0 ELSE ByStore(age))

\* Only an error or the end of a process leaves a key without a time to live.
StuckByFault == rate_faults + process_ends = 0 => ~KeyStuck

RateInv == RateTypeOK /\ FirstAlone /\ StoreUsed /\ AdmissionsCounted /\ StuckByFault

-----------------------------------------------------------------------------
\* Whether a request is pending, in this state and in the next.
LEMMA PendingBit ==
    /\ Pending \in {0, 1} /\ Pending' \in {0, 1}
    /\ caller' = caller => Pending' = Pending
    /\ \A c \in Callers : caller[c] = "incremented" => Pending = 1
    /\ \A c \in Callers : caller'[c] = "incremented" => Pending' = 1
    /\ (\A c \in Callers : caller[c] # "incremented") => Pending = 0
    /\ (\A c \in Callers : caller'[c] # "incremented") => Pending' = 0
  BY DEF Pending

\* The shares as numbers: their types and limits, and how they grow with the
\* counters and as time passes.
LEMMA RedisShares ==
    ASSUME NEW age \in 0 .. Window - 1, NEW n \in Nat, NEW left \in Nat,
           left <= NoTtl, NEW pending \in {0, 1}
    PROVE  /\ RedisShare(age, n, left, pending) \in Int
           /\ RedisShare(age, n, left, pending) <= 2 * Limit - 1
           /\ left >= Window \/ pending = 0 => RedisShare(age, n, left, pending) >= 0
           /\ RedisShare(age, n, NoTtl, pending) = RedisShare(age, n, Window, pending)
           /\ n > 0 => RedisShare(age, n, left, 0) = RedisShare(age, n, left, 1) + 1
           /\ RedisShare(age, Count(n), NoTtl, 1) >= RedisShare(age, 0, NoTtl, 0)
           /\ n > 0 => RedisShare(age, Count(n), left, pending)
                        >= RedisShare(age, n, left, pending) + (IF n < Limit THEN 1 ELSE 0)
           /\ age > 0 /\ left = NoTtl =>
                 RedisShare(age, n, left, pending) >= RedisShare(age - 1, n, left, pending)
           /\ age > 0 /\ left = 1 /\ pending = 0 =>
                 RedisShare(age, 0, NoTtl, pending) >= RedisShare(age - 1, n, left, pending)
           /\ age > 0 /\ left > 0 /\ left < NoTtl =>
                 RedisShare(age, n, left - 1, pending) >= RedisShare(age - 1, n, left, pending)
<1>1. Limit \in Nat /\ Limit >= 1 /\ Window \in Nat /\ Window >= 1
  BY RateAssumption
<1> USE <1>1 DEF RedisShare, Previous, Opener, Least, NoTtl, Count
<1>2. /\ RedisShare(age, n, left, pending) \in Int
      /\ RedisShare(age, n, left, pending) <= 2 * Limit - 1
      /\ left >= Window \/ pending = 0 => RedisShare(age, n, left, pending) >= 0
  OBVIOUS
<1>3. RedisShare(age, n, NoTtl, pending) = RedisShare(age, n, Window, pending)
  OBVIOUS
<1>4. n > 0 => RedisShare(age, n, left, 0) = RedisShare(age, n, left, 1) + 1
  OBVIOUS
<1>5. /\ RedisShare(age, Count(n), NoTtl, 1) >= RedisShare(age, 0, NoTtl, 0)
      /\ n > 0 => RedisShare(age, Count(n), left, pending)
                        >= RedisShare(age, n, left, pending) + (IF n < Limit THEN 1 ELSE 0)
  OBVIOUS
<1>6. age > 0 /\ left = NoTtl =>
                 RedisShare(age, n, left, pending) >= RedisShare(age - 1, n, left, pending)
  OBVIOUS
<1>7. age > 0 /\ left = 1 /\ pending = 0 =>
                 RedisShare(age, 0, NoTtl, pending) >= RedisShare(age - 1, n, left, pending)
  OBVIOUS
<1>8. age > 0 /\ left > 0 /\ left < NoTtl =>
                 RedisShare(age, n, left - 1, pending) >= RedisShare(age - 1, n, left, pending)
  OBVIOUS
<1> QED BY <1>2, <1>3, <1>4, <1>5, <1>6, <1>7, <1>8

LEMMA StoreShares ==
    ASSUME NEW age \in 0 .. Window - 1, NEW n \in Nat, NEW left \in Nat,
           left <= Window, left > 0 => n >= 1
    PROVE  /\ StoreShare(age, n, left) \in Nat
           /\ StoreShare(age, n, left) <= 2 * Limit - 1
           /\ StoreShare(age, 1, Window) = StoreShare(age, n, 0) + 1
           /\ left > 0 => StoreShare(age, Count(n), left)
                         = StoreShare(age, n, left) + (IF n < Limit THEN 1 ELSE 0)
           /\ StoreShare(age, 0, 0) + Limit >= StoreShare(age, n, left)
           /\ age > 0 => StoreShare(age, n, IF left = 0 THEN 0 ELSE left - 1)
                         >= StoreShare(age - 1, n, left)
<1>1. Limit \in Nat /\ Limit >= 1 /\ Window \in Nat /\ Window >= 1
  BY RateAssumption
<1> USE <1>1 DEF StoreShare, Previous, Opener, Least, Count
<1>2. StoreShare(age, n, left) \in Nat /\ StoreShare(age, n, left) <= 2 * Limit - 1
  OBVIOUS
<1>3. StoreShare(age, 1, Window) = StoreShare(age, n, 0) + 1
  OBVIOUS
<1>4. left > 0 => StoreShare(age, Count(n), left)
                         = StoreShare(age, n, left) + (IF n < Limit THEN 1 ELSE 0)
  OBVIOUS
<1>5. StoreShare(age, 0, 0) + Limit >= StoreShare(age, n, left)
  OBVIOUS
<1>6. age > 0 => StoreShare(age, n, IF left = 0 THEN 0 ELSE left - 1)
                         >= StoreShare(age - 1, n, left)
  OBVIOUS
<1> QED BY <1>2, <1>3, <1>4, <1>5, <1>6

-----------------------------------------------------------------------------
LEMMA RateInitial == RateInit => RateInv
<1> SUFFICES ASSUME RateInit PROVE RateInv
  OBVIOUS
<1>a. {Limit, Window} \subseteq Nat \ {0}
  BY RateAssumption
<1>1. RateTypeOK /\ FirstAlone /\ StoreUsed /\ StuckByFault
  BY <1>a DEF RateInit, RateTypeOK, FirstAlone, StoreUsed, StuckByFault, KeyStuck, NoTtl
<1>2. AdmissionsCounted
  BY <1>a DEF RateInit, AdmissionsCounted, ByRedis, ByStore, RedisShare, StoreShare,
     Previous, Opener, Least, NoTtl
<1> QED BY <1>1, <1>2 DEF RateInv

LEMMA RateInductive == RateInv /\ [RateNext]_rateVars => RateInv'
<1> SUFFICES ASSUME RateInv, [RateNext]_rateVars
             PROVE  RateInv'
  OBVIOUS
<1>a. Limit \in Nat /\ Limit >= 1 /\ Window \in Nat /\ Window >= 1
  BY RateAssumption
<1>p. process_ends * Limit \in Nat
  <2>1. process_ends \in Nat
    BY DEF RateInv, RateTypeOK
  <2> QED BY <1>a, <2>1
<1> DEFINE Store(age) == StoreShare(age, current_count, expires_in)
           one == IF answer' = "admitted" THEN 1 ELSE 0
<1>s. \A age \in 0 .. Window - 1 :
         /\ recent[age] \in Nat /\ ByRedis(age) \in Int /\ Store(age) \in Nat
         /\ recent[age] <= ByRedis(age)
              + (IF rate_faults = 0 THEN 0 ELSE Store(age) + process_ends * Limit)
  <2>1. \A age \in 0 .. Window - 1 : ByRedis(age) \in Int
    BY <1>a, PendingBit, RedisShares DEF RateInv, RateTypeOK, ByRedis
  <2>2. \A age \in 0 .. Window - 1 : Store(age) \in Nat
    BY <1>a, StoreShares DEF RateInv, RateTypeOK, StoreUsed
  <2> QED BY <1>a, <2>1, <2>2 DEF RateInv, RateTypeOK, AdmissionsCounted, ByStore
<1>n. ASSUME RateTypeOK', StoreUsed',
             \A age \in 0 .. Window - 1 :
                recent'[age] <= ByRedis(age)'
                   + (IF rate_faults' = 0 THEN 0 ELSE Store(age)' + process_ends' * Limit)
      PROVE  AdmissionsCounted'
  BY <1>n DEF AdmissionsCounted, ByStore
<1>r. RateTypeOK' => \A age \in 0 .. Window - 1 : ByRedis(age)' \in Int
  BY <1>a, PendingBit, RedisShares DEF RateTypeOK, ByRedis
<1>w. RateTypeOK' /\ StoreUsed' => \A age \in 0 .. Window - 1 : Store(age)' \in Nat
  BY <1>a, StoreShares DEF RateTypeOK, StoreUsed
<1> USE <1>a DEF RateInv
<1>1. ASSUME NEW c \in Callers, Incr(c)
      PROVE  RateInv'
  <2> USE <1>1 DEF Incr
  <2>1. RateTypeOK'
    BY DEF RateTypeOK, Count, Answer, Admit, NoTtl
  <2>2. FirstAlone'
    BY DEF RateTypeOK, FirstAlone, Count, NoTtl
  <2>3. StoreUsed' /\ StuckByFault'
    BY DEF RateTypeOK, StoreUsed, StuckByFault, KeyStuck, Count
  <2>4. ASSUME NEW age \in 0 .. Window - 1
        PROVE  recent'[age] <= ByRedis(age)'
                 + (IF rate_faults' = 0 THEN 0 ELSE Store(age)' + process_ends' * Limit)
    <3>t. counter \in Nat /\ ttl \in Nat /\ ttl <= NoTtl /\ ByRedis(age)' \in Int
      BY <2>1, <1>r DEF RateTypeOK
    <3>0. Store(age)' = Store(age)
      OBVIOUS
    <3>1. CASE counter = 0
      <4>1. ttl = NoTtl /\ Pending = 0 /\ Pending' = 1
        BY <3>1, PendingBit DEF RateTypeOK, FirstAlone
      <4>2. ByRedis(age)' >= ByRedis(age)
        BY <3>1, <4>1, RedisShares DEF ByRedis, NoTtl
      <4>3. recent'[age] = recent[age]
        BY <3>1
      <4> QED BY <3>t, <3>0, <4>2, <4>3, <1>s, <1>p
    <3>2. CASE counter # 0
      <4>1. Pending' = Pending /\ Pending \in {0, 1}
        BY <3>2, PendingBit
      <4>2. recent'[age] = recent[age] + (IF counter < Limit THEN 1 ELSE 0)
        BY <3>2 DEF RateTypeOK, Answer, Admit, Count
      <4>3. ByRedis(age)' >= ByRedis(age) + (IF counter < Limit THEN 1 ELSE 0)
        BY <3>2, <3>t, <4>1, RedisShares DEF ByRedis
      <4> QED BY <3>t, <3>0, <4>2, <4>3, <1>s, <1>p
    <3> QED BY <3>1, <3>2
  <2> QED BY <1>n, <2>1, <2>2, <2>3, <2>4
<1>2. ASSUME NEW c \in Callers, Expire(c)
      PROVE  RateInv'
  <2> USE <1>2 DEF Expire
  <2>1. RateTypeOK'
    BY DEF RateTypeOK, Answer, Admit, NoTtl
  <2>2. FirstAlone'
    BY DEF RateTypeOK, FirstAlone, NoTtl
  <2>3. StoreUsed' /\ StuckByFault'
    BY DEF RateTypeOK, StoreUsed, StuckByFault, KeyStuck, NoTtl
  <2>4. ASSUME NEW age \in 0 .. Window - 1
        PROVE  recent'[age] <= ByRedis(age)'
                 + (IF rate_faults' = 0 THEN 0 ELSE Store(age)' + process_ends' * Limit)
    <3>1. Pending = 1 /\ Pending' = 0 /\ ttl = NoTtl /\ counter \in Nat /\ counter > 0
      BY PendingBit DEF RateTypeOK, FirstAlone
    <3>2. recent'[age] = recent[age] + 1
      BY DEF RateTypeOK, Answer, Admit
    <3>3. ByRedis(age)' = ByRedis(age) + 1
      <4>1. RedisShare(age, counter, Window, 0) = RedisShare(age, counter, Window, 1) + 1
        BY <3>1, RedisShares DEF NoTtl
      <4>2. RedisShare(age, counter, NoTtl, 1) = RedisShare(age, counter, Window, 1)
        BY <3>1, RedisShares DEF NoTtl
      <4> QED BY <3>1, <4>1, <4>2 DEF ByRedis
    <3> QED BY <3>2, <3>3, <1>s, <1>p
  <2> QED BY <1>n, <2>1, <2>2, <2>3, <2>4
<1>3. ASSUME NEW c \in Callers, AllowFallback(c)
      PROVE  RateInv'
  <2> USE <1>3 DEF AllowFallback
  <2>1. RateTypeOK'
    BY DEF RateTypeOK, LeftInRedis, Count, Answer, Admit, NoTtl
  <2>2. FirstAlone'
    BY DEF RateTypeOK, FirstAlone, LeftInRedis, Count, NoTtl
  <2>3. StoreUsed' /\ StuckByFault'
    BY DEF RateTypeOK, StoreUsed, StuckByFault, Count
  <2>4. ASSUME NEW age \in 0 .. Window - 1
        PROVE  recent'[age] <= ByRedis(age)'
                 + (IF rate_faults' = 0 THEN 0 ELSE Store(age)' + process_ends' * Limit)
    <3>t. counter \in Nat /\ ttl \in Nat /\ ttl <= NoTtl /\ ByRedis(age)' \in Int
      BY <2>1, <1>r DEF RateTypeOK
    <3>1. ByRedis(age)' >= ByRedis(age)
      <4>p. Pending \in {0, 1} /\ Pending' \in {0, 1} /\ Pending' <= Pending
        BY PendingBit DEF RateTypeOK
      <4>q. Pending = 1 => counter > 0 /\ ttl = NoTtl
        BY PendingBit DEF RateTypeOK, FirstAlone
      <4>1. CASE UNCHANGED <<counter, ttl>>
        <5>1. RedisShare(age, counter, ttl, Pending') >= RedisShare(age, counter, ttl, Pending)
          BY <3>t, <4>p, <4>q, RedisShares
        <5> QED BY <4>1, <5>1 DEF ByRedis
      <4>2. CASE caller[c] = "idle" /\ counter' = Count(counter) /\ ttl' = ttl
        <5>1. Pending' = Pending
          BY <4>2, PendingBit DEF RateTypeOK
        <5>2. CASE counter = 0
          <6>1. ttl = NoTtl /\ Pending = 0
            BY <5>2, <4>p, <4>q DEF FirstAlone
          <6>2. RedisShare(age, Count(0), NoTtl, 0) = RedisShare(age, Count(0), NoTtl, 1) + 1
            BY <3>t, RedisShares DEF Count, NoTtl
          <6>3. RedisShare(age, Count(0), NoTtl, 1) >= RedisShare(age, 0, NoTtl, 0)
            BY <3>t, RedisShares DEF NoTtl
          <6>4. /\ RedisShare(age, Count(0), NoTtl, 1) \in Int
                /\ RedisShare(age, 0, NoTtl, 0) \in Int
            <7> DEFINE first == Count(0)
                       never == NoTtl
            <7>1. first \in Nat /\ never \in Nat /\ never <= NoTtl
              BY DEF Count, NoTtl
            <7> HIDE DEF first, never
            <7>2. RedisShare(age, first, never, 1) \in Int /\ RedisShare(age, 0, never, 0) \in Int
              BY <7>1, RedisShares
            <7> QED BY <7>2 DEF first, never
          <6>5. /\ ByRedis(age)' = RedisShare(age, Count(0), NoTtl, 0)
                /\ ByRedis(age) = RedisShare(age, 0, NoTtl, 0)
            BY <4>2, <5>1, <5>2, <6>1 DEF ByRedis
          <6> QED BY <6>2, <6>3, <6>4, <6>5
        <5>3. CASE counter > 0
          <6>1. RedisShare(age, Count(counter), ttl, Pending)
                  >= RedisShare(age, counter, ttl, Pending) + (IF counter < Limit THEN 1 ELSE 0)
            BY <5>3, <3>t, <4>p, RedisShares
          <6> QED BY <4>2, <5>1, <6>1, <3>t, <1>s DEF ByRedis
        <5> QED BY <3>t, <5>2, <5>3
      <4>3. CASE caller[c] = "incremented" /\ ttl' = Window /\ counter' = counter
        <5>1. counter > 0 /\ ttl = NoTtl /\ Pending = 1 /\ Pending' = 0
          BY <4>3, PendingBit DEF RateTypeOK, FirstAlone
        <5>2. RedisShare(age, counter, Window, 0) = RedisShare(age, counter, Window, 1) + 1
          BY <3>t, <5>1, RedisShares DEF NoTtl
        <5>3. RedisShare(age, counter, NoTtl, 1) = RedisShare(age, counter, Window, 1)
          BY <3>t, RedisShares DEF NoTtl
        <5> QED BY <4>3, <5>1, <5>2, <5>3, <3>t, <1>s DEF ByRedis
      <4> QED BY <4>1, <4>2, <4>3 DEF LeftInRedis
    <3>2. Store(age)' = Store(age) + (recent'[age] - recent[age])
      <4>1. CASE expires_in = 0
        <5>1. recent'[age] = recent[age] + 1
          BY <4>1 DEF RateTypeOK, Answer, Admit, Count
        <5>2. StoreShare(age, 1, Window) = StoreShare(age, current_count, 0) + 1
          BY StoreShares DEF RateTypeOK
        <5> QED BY <4>1, <5>1, <5>2, <1>s DEF Count
      <4>2. CASE expires_in > 0
        <5>1. recent'[age] = recent[age] + (IF current_count < Limit THEN 1 ELSE 0)
          BY <4>2 DEF RateTypeOK, Answer, Admit, Count
        <5>2. StoreShare(age, Count(current_count), expires_in)
                = Store(age) + (IF current_count < Limit THEN 1 ELSE 0)
          BY <4>2, StoreShares DEF RateTypeOK, StoreUsed
        <5> QED BY <4>2, <5>1, <5>2, <1>s
      <4> QED BY <4>1, <4>2 DEF RateTypeOK
    <3>3. recent'[age] \in Nat /\ rate_faults' # 0
      BY <2>1 DEF RateTypeOK
    <3> QED BY <3>t, <3>1, <3>2, <3>3, <1>s, <1>p
  <2> QED BY <1>n, <2>1, <2>2, <2>3, <2>4
<1>4. CASE ProcessEnds
  <2> USE <1>4 DEF ProcessEnds
  <2>1. RateTypeOK'
    BY DEF RateTypeOK
  <2>2. FirstAlone'
    BY DEF RateTypeOK, FirstAlone
  <2>3. StoreUsed' /\ StuckByFault'
    BY DEF RateTypeOK, StoreUsed, StuckByFault
  <2>4. ASSUME NEW age \in 0 .. Window - 1
        PROVE  recent'[age] <= ByRedis(age)'
                 + (IF rate_faults' = 0 THEN 0 ELSE Store(age)' + process_ends' * Limit)
    <3>t. counter \in Nat /\ ttl \in Nat /\ ttl <= NoTtl /\ ByRedis(age)' \in Int
      BY <2>1, <1>r DEF RateTypeOK
    <3>1. ByRedis(age)' >= ByRedis(age)
      <4>p. Pending \in {0, 1} /\ Pending' = 0
        BY PendingBit DEF RateTypeOK
      <4>q. Pending = 1 => counter > 0
        BY PendingBit DEF RateTypeOK, FirstAlone
      <4>1. RedisShare(age, counter, ttl, 0) >= RedisShare(age, counter, ttl, Pending)
        BY <3>t, <4>p, <4>q, RedisShares
      <4> QED BY <4>1, <4>p DEF ByRedis
    <3>2. process_ends' * Limit = process_ends * Limit + Limit
      BY DEF RateTypeOK
    <3>3. Store(age)' + Limit >= Store(age) /\ Store(age)' \in Nat
      BY <2>1, <2>3, <1>w, StoreShares DEF RateTypeOK, StoreUsed
    <3> HIDE DEF Store
    <3>4. recent' = recent /\ rate_faults' = rate_faults
      OBVIOUS
    <3>5. /\ recent[age] \in Nat /\ ByRedis(age) \in Int /\ Store(age) \in Nat
          /\ recent[age] <= ByRedis(age)
               + (IF rate_faults = 0 THEN 0 ELSE Store(age) + process_ends * Limit)
      BY <1>s
    <3>6. CASE rate_faults = 0
      BY ONLY <3>6, <3>t, <3>1, <3>4, <3>5
    <3>7. CASE rate_faults # 0
      <4>1. process_ends * Limit \in Nat /\ Limit \in Nat
        BY <1>a, <1>p
      <4>2. recent[age] <= ByRedis(age) + (Store(age) + process_ends * Limit)
        BY <3>5, <3>7
      <4>3. recent[age] <= ByRedis(age)' + (Store(age)' + process_ends' * Limit)
        BY ONLY <4>1, <4>2, <3>t, <3>1, <3>2, <3>3, <3>5
      <4> QED BY <4>3, <3>4, <3>7
    <3> QED BY <3>6, <3>7
  <2> QED BY <1>n, <2>1, <2>2, <2>3, <2>4
<1>5. CASE RateSecond
  <2> USE <1>5 DEF RateSecond
  <2>1. RateTypeOK'
    <3>1. counter' \in Nat /\ counter' <= Limit + 1
      BY DEF RateTypeOK
    <3>2. ttl' \in Nat /\ 1 <= ttl' /\ ttl' <= NoTtl
      BY DEF RateTypeOK, NoTtl
    <3>3. expires_in' \in Nat /\ expires_in' <= Window
      BY DEF RateTypeOK
    <3>4. recent' \in [0 .. Window - 1 -> Nat]
      BY DEF RateTypeOK
    <3> QED BY <3>1, <3>2, <3>3, <3>4 DEF RateTypeOK
  <2>2. FirstAlone'
    BY DEF RateTypeOK, FirstAlone, NoTtl
  <2>3. StoreUsed' /\ StuckByFault'
    BY DEF RateTypeOK, FirstAlone, StoreUsed, StuckByFault, KeyStuck, NoTtl
  <2>4. ASSUME NEW age \in 0 .. Window - 1
        PROVE  recent'[age] <= ByRedis(age)'
                 + (IF rate_faults' = 0 THEN 0 ELSE Store(age)' + process_ends' * Limit)
    <3>t. /\ counter \in Nat /\ ttl \in Nat /\ 1 <= ttl /\ ttl <= NoTtl
          /\ ByRedis(age)' \in Int /\ Store(age)' \in Nat
      BY <2>1, <2>3, <1>r, <1>w DEF RateTypeOK
    <3>p. Pending' = Pending /\ Pending \in {0, 1}
      BY PendingBit
    <3>q. Pending = 1 => ttl = NoTtl
      BY PendingBit DEF RateTypeOK, FirstAlone
    <3>1. CASE age = 0
      <4>1. recent'[age] = 0
        BY <3>1 DEF RateTypeOK
      <4>2. ByRedis(age)' >= 0
        <5>1. Pending' = 1 => ttl' = NoTtl
          BY <3>p, <3>q
        <5>2. counter' \in Nat /\ ttl' \in Nat /\ ttl' <= NoTtl
          BY <2>1 DEF RateTypeOK
        <5>3. ttl' >= Window \/ Pending' = 0
          BY <5>1, <3>p DEF NoTtl
        <5>4. RedisShare(age, counter', ttl', Pending') >= 0
          BY <5>2, <5>3, <3>p, RedisShares
        <5> QED BY <5>4 DEF ByRedis
      <4> HIDE DEF Store
      <4> QED BY <4>1, <4>2, <3>t, <1>p
    <3>2. CASE age > 0
      <4>1. recent'[age] = recent[age - 1] /\ age - 1 \in 0 .. Window - 1
        BY <3>2 DEF RateTypeOK
      <4>2. ByRedis(age)' >= ByRedis(age - 1)
        <5>1. CASE ttl = NoTtl
          BY <5>1, <3>2, <3>t, <3>p, RedisShares DEF ByRedis, NoTtl
        <5>2. CASE ttl = 1
          <6>1. Pending = 0
            BY <5>2, <3>p, <3>q DEF NoTtl
          <6> QED BY <5>2, <6>1, <3>2, <3>t, <3>p, RedisShares DEF ByRedis, NoTtl
        <5>3. CASE ttl # NoTtl /\ ttl # 1
          <6>1. counter' = counter /\ ttl' = ttl - 1 /\ ttl < NoTtl
            BY <5>3, <3>t DEF NoTtl
          <6>2. RedisShare(age, counter, ttl - 1, Pending)
                  >= RedisShare(age - 1, counter, ttl, Pending)
            BY <6>1, <3>2, <3>t, <3>p, RedisShares
          <6> QED BY <6>1, <6>2, <3>p DEF ByRedis
        <5> QED BY <5>1, <5>2, <5>3
      <4>3. Store(age)' >= Store(age - 1)
        <5>1. /\ current_count \in Nat /\ expires_in \in Nat /\ expires_in <= Window
              /\ expires_in > 0 => current_count >= 1
          BY DEF RateTypeOK, StoreUsed
        <5> QED BY <3>2, <5>1, StoreShares
      <4> HIDE DEF Store
      <4> QED BY <4>1, <4>2, <4>3, <3>t, <1>s, <1>p
    <3> QED BY <3>1, <3>2
  <2> QED BY <1>n, <2>1, <2>2, <2>3, <2>4
<1>6. CASE UNCHANGED rateVars
  BY <1>6 DEF rateVars, RateTypeOK, FirstAlone, StoreUsed, AdmissionsCounted, StuckByFault,
     KeyStuck, ByRedis, ByStore, Pending
<1> QED BY <1>1, <1>2, <1>3, <1>4, <1>5, <1>6 DEF RateNext

\* The invariant in every reachable state.
LEMMA RateInvariant == RateSpec => []RateInv
<1>1. RateInv /\ [RateNext]_rateVars => RateInv'
  BY RateInductive
<1> QED BY RateInitial, <1>1, PTL DEF RateSpec

(***************************************************************************)
(* check_rate_limit admits no more requests of one key in Window seconds than *)
(* two windows hold, and nothing but a fault of Redis or the end of a process *)
(* lets the stores of the processes add to that.                           *)
(***************************************************************************)
THEOREM AdmissionsAreBounded == RateSpec => []AdmissionBounded
<1>1. RateInv => AdmissionBounded
  <2> SUFFICES ASSUME RateInv PROVE AdmissionBounded
    OBVIOUS
  <2>a. Limit \in Nat /\ Limit >= 1 /\ Window \in Nat /\ Window >= 1
    BY RateAssumption
  <2> DEFINE age == Window - 1
  <2>1. age \in 0 .. Window - 1
    BY <2>a
  <2>2. ByRedis(age) \in Int /\ ByRedis(age) <= 2 * Limit - 1
    BY <2>1, PendingBit, RedisShares DEF RateInv, RateTypeOK, ByRedis
  <2>3. /\ StoreShare(age, current_count, expires_in) \in Nat
        /\ StoreShare(age, current_count, expires_in) <= 2 * Limit - 1
    BY <2>1, StoreShares DEF RateInv, RateTypeOK, StoreUsed
  <2>4. recent[age] <= ByRedis(age) + (IF rate_faults = 0 THEN 0 ELSE ByStore(age))
    BY <2>1 DEF RateInv, AdmissionsCounted
  <2>5. recent[age] \in Nat /\ process_ends * Limit \in Nat
    BY <2>1, <2>a DEF RateInv, RateTypeOK
  <2> HIDE DEF age
  <2>6. recent[age] <= IF rate_faults = 0 THEN 2 * Limit - 1
                       ELSE 2 * (2 * Limit - 1) + process_ends * Limit
    BY <2>a, <2>2, <2>3, <2>4, <2>5 DEF ByStore
  <2> QED BY <2>6 DEF AdmissionBounded, age
<1> QED BY RateInvariant, <1>1, PTL

\* The counters of check_rate_limit stay within their bounds: neither is
\* counted further than the first request that is refused.
THEOREM RateTypesCorrect == RateSpec => []RateTypeOK
  BY RateInvariant, PTL DEF RateInv

\* A key that never expires, between incr and expire of check_rate_limit, is
\* the work of an error of Redis or of a process that ended there.
THEOREM StuckByFaultOnly == RateSpec => []StuckByFault
  BY RateInvariant, PTL DEF RateInv

-----------------------------------------------------------------------------
(***************************************************************************)
(* The contract of a roadmap.                                              *)
(***************************************************************************)

\* A set of numbers in order has every number once.
LEMMA InOrderEnumerates ==
    ASSUME NEW S \in SUBSET Nat, IsFiniteSet(S)
    PROVE  /\ Cardinality(S) \in Nat
           /\ \A n \in 1 .. Cardinality(S) : InOrder(S)[n] \in S
           /\ \A i \in S : \E n \in 1 .. Cardinality(S) : InOrder(S)[n] = i
           /\ \A m, n \in 1 .. Cardinality(S) : InOrder(S)[m] = InOrder(S)[n] => m = n
<1> DEFINE Below(i) == {j \in S : j <= i}
           rank == [i \in S |-> Cardinality(Below(i))]
           size == Cardinality(S)
<1>1. size \in Nat
  BY FS_CardinalityType
<1>2. ASSUME NEW i \in S
      PROVE  IsFiniteSet(Below(i)) /\ rank[i] \in 1 .. size
  <2>1. Below(i) \in SUBSET S /\ Below(i) # {}
    BY <1>2
  <2> HIDE DEF Below
  <2>2. IsFiniteSet(Below(i)) /\ Cardinality(Below(i)) <= size
    BY <2>1, FS_Subset
  <2>3. Cardinality(Below(i)) \in Nat /\ Cardinality(Below(i)) # 0
    BY <2>1, <2>2, FS_EmptySet, FS_CardinalityType
  <2> QED BY <1>1, <2>2, <2>3
<1>3. ASSUME NEW i \in S, NEW k \in S, rank[i] = rank[k], i < k
      PROVE  FALSE
  <2>0. i \in Nat /\ k \in Nat
    OBVIOUS
  <2>1. Below(i) \in SUBSET Below(k) /\ k \in Below(k) /\ k \notin Below(i)
    <3>1. \A j \in S : j <= i => j <= k
      BY <1>3, <2>0
    <3>2. k <= k /\ ~ (k <= i)
      BY <1>3, <2>0
    <3> QED BY <3>1, <3>2
  <2>2. IsFiniteSet(Below(k)) /\ Cardinality(Below(k)) = Cardinality(Below(i))
    BY <1>2, <1>3
  <2> HIDE DEF Below
  <2>3. Below(k) = Below(i)
    BY <2>1, <2>2, FS_Subset
  <2> QED BY <2>1, <2>3
<1>4. \A i, k \in S : rank[i] = rank[k] => i = k
  BY <1>3
<1>5. \A n \in 1 .. size : \E i \in S : rank[i] = n
  <2>1. rank \in Injection(S, 1 .. size)
    <3>1. rank \in [S -> 1 .. size]
      BY <1>2
    <3> HIDE DEF rank
    <3> QED BY <3>1, <1>4 DEF Injection, IsInjective
  <2>2. IsFiniteSet(1 .. size) /\ Cardinality(1 .. size) = size
    BY <1>1, FS_Interval
  <2> HIDE DEF rank
  <2>3. rank \in Surjection(S, 1 .. size)
    BY <2>1, <2>2, FS_Injection
  <2> QED BY <2>3 DEF Surjection
<1>6. \A n \in 1 .. size : InOrder(S)[n] \in S /\ rank[InOrder(S)[n]] = n
  BY <1>5 DEF InOrder
<1> HIDE DEF rank
<1>7. \A i \in S : rank[i] \in 1 .. size
  BY <1>2
<1> QED BY <1>1, <1>4, <1>6, <1>7

-----------------------------------------------------------------------------
\* The items that are gaps, as Gaps lists them.
GapItems ==
    {i \in DOMAIN result_items :
        /\ result_items[i].applied
        /\ result_items[i].is_blocking \/ result_items[i].score_delta < 0}

ContractsTypeOK ==
    /\ result_items \in UNION {[1 .. n -> ResultItem] : n \in 0 .. MaxResultItems}
    /\ contract_pc \in {"generate", "validate", "stored", "rejected"}

\* What the fallback has answered stays what it answers to these items.
FallbackKept ==
    contract.by = "fallback" => contract = FallbackContract /\ contract_pc # "rejected"

ContractsInv == ContractsTypeOK /\ FallbackKept

\* The gaps are finitely many, and counted from 1.
LEMMA GapItemsFinite ==
    ContractsTypeOK => GapItems \in SUBSET Nat /\ IsFiniteSet(GapItems) /\ 0 \notin GapItems
<1> SUFFICES ASSUME ContractsTypeOK
             PROVE  GapItems \in SUBSET Nat /\ IsFiniteSet(GapItems) /\ 0 \notin GapItems
  OBVIOUS
<1>1. PICK n \in 0 .. MaxResultItems : result_items \in [1 .. n -> ResultItem]
  BY DEF ContractsTypeOK
<1>2. GapItems \in SUBSET (1 .. n) /\ n \in Nat
  BY <1>1, ContractsAssumption DEF GapItems
<1>3. IsFiniteSet(1 .. n)
  BY <1>2, FS_Interval
<1>4. IsFiniteSet(GapItems)
  BY <1>2, <1>3, FS_Subset
<1> QED BY <1>2, <1>4

\* The steps of the fallback: one for each gap, in a chain, or one without.
LEMMA FallbackChain ==
    ASSUME ContractsTypeOK
    PROVE  LET steps == FallbackSteps
               size == Cardinality(GapItems)
           IN  /\ size \in Nat
               /\ size = 0 => steps = << RoadmapStep(1, {}, 0) >>
               /\ size > 0 =>
                     steps = [n \in 1 .. size |->
                                RoadmapStep(n, IF n > 1 THEN {n - 1} ELSE {}, Gaps[n])]
<1> DEFINE size == Cardinality(GapItems)
<1>1. size \in Nat
  BY GapItemsFinite, FS_CardinalityType
<1>2. Gaps = InOrder(GapItems)
  BY DEF Gaps, GapItems
<1>3. DOMAIN Gaps = 1 .. size
  BY <1>2 DEF InOrder
<1>4. size = 0 => Gaps = << >>
  BY <1>2, <1>3 DEF InOrder
<1>5. size > 0 => Gaps # << >>
  BY <1>1, <1>3
<1> HIDE DEF size
<1>6. size > 0 =>
        FallbackSteps = [n \in 1 .. size |->
                            RoadmapStep(n, IF n > 1 THEN {n - 1} ELSE {}, Gaps[n])]
  BY <1>3, <1>5 DEF FallbackSteps
<1>7. size = 0 => FallbackSteps = << RoadmapStep(1, {}, 0) >>
  BY <1>4 DEF FallbackSteps
<1> QED BY <1>1, <1>6, <1>7 DEF size

-----------------------------------------------------------------------------
LEMMA ContractsInitial == ContractsInit => ContractsInv
  BY DEF ContractsInit, ContractsInv, ContractsTypeOK, FallbackKept, NoContract, BoundedSeq, SeqOf

\* The orders of the fallback are 1, 2, ...
LEMMA FallbackAccepted ==
    ContractsTypeOK => SchemaValid(FallbackSteps) /\ ValidContract(FallbackContract)
<1> SUFFICES ASSUME ContractsTypeOK
             PROVE  SchemaValid(FallbackSteps) /\ ValidContract(FallbackContract)
  OBVIOUS
<1> DEFINE size == Cardinality(GapItems)
<1>1. CASE size = 0
  <2>1. FallbackSteps = << RoadmapStep(1, {}, 0) >>
    BY <1>1, FallbackChain
  <2> QED BY <2>1 DEF SchemaValid, ValidContract, FallbackContract, RoadmapStep
<1>2. CASE size > 0
  <2>1. FallbackSteps = [n \in 1 .. size |->
                            RoadmapStep(n, IF n > 1 THEN {n - 1} ELSE {}, Gaps[n])]
    BY <1>2, FallbackChain
  <2>2. size \in Nat
    BY FallbackChain
  <2> HIDE DEF size
  <2>3. /\ DOMAIN FallbackSteps = 1 .. size
        /\ \A n \in 1 .. size : FallbackSteps[n].step_order = n
    BY <2>1 DEF RoadmapStep
  <2>4. FallbackSteps # << >>
    BY <1>2, <2>2, <2>3
  <2> QED BY <2>2, <2>3, <2>4 DEF SchemaValid, ValidContract, FallbackContract
<1>3. size \in Nat
  BY FallbackChain
<1> QED BY <1>1, <1>2, <1>3

LEMMA ContractsInductive == ContractsInv /\ [ContractsNext]_contractsVars => ContractsInv'
<1> SUFFICES ASSUME ContractsInv, [ContractsNext]_contractsVars
             PROVE  ContractsInv'
  OBVIOUS
<1> USE DEF ContractsInv, ContractsTypeOK, FallbackKept
<1>f. result_items' = result_items => FallbackContract' = FallbackContract
  BY DEF FallbackContract, FallbackSteps, Gaps
<1>1. ASSUME NEW v \in ContractVersion, NEW s \in PrimarySteps, Primary(v, s)
      PROVE  ContractsInv'
  BY <1>1, <1>f DEF Primary, FallbackContract
<1>2. CASE Fallback
  BY <1>2, <1>f DEF Fallback
<1>3. CASE Validate
  <2>1. contract.by = "fallback" => ValidContract(contract)
    BY FallbackAccepted
  <2> QED BY <1>3, <1>f, <2>1 DEF Validate
<1>4. CASE UNCHANGED contractsVars
  BY <1>4, <1>f DEF contractsVars
<1> QED BY <1>1, <1>2, <1>3, <1>4 DEF ContractsNext

\* Every gap is the subject of one step, and nothing else is.
LEMMA FallbackAnswers ==
    ASSUME ContractsTypeOK, NEW i \in DOMAIN result_items
    PROVE  Cardinality({j \in DOMAIN FallbackSteps : FallbackSteps[j].gap_relacionado = i})
             = IF i \in GapItems THEN 1 ELSE 0
<1> DEFINE size == Cardinality(GapItems)
           about == {j \in DOMAIN FallbackSteps : FallbackSteps[j].gap_relacionado = i}
<1>0. size \in Nat /\ i \in Nat /\ i # 0
  <2>1. i \in Nat /\ i # 0
    BY ContractsAssumption DEF ContractsTypeOK
  <2> QED BY <2>1, FallbackChain
<1>e. Cardinality({}) = 0 /\ \A x : Cardinality({x}) = 1
  BY FS_EmptySet, FS_Singleton
<1>1. CASE size = 0
  <2>1. FallbackSteps = << RoadmapStep(1, {}, 0) >>
    BY <1>1, FallbackChain
  <2>2. about = {}
    BY <2>1, <1>0 DEF RoadmapStep
  <2>3. i \notin GapItems
    BY <1>1, GapItemsFinite, FS_EmptySet
  <2> HIDE DEF about
  <2>4. Cardinality(about) = IF i \in GapItems THEN 1 ELSE 0
    BY <2>2, <2>3, <1>e
  <2> QED BY <2>4 DEF about
<1>2. CASE size > 0
  <2>1. FallbackSteps = [n \in 1 .. size |->
                            RoadmapStep(n, IF n > 1 THEN {n - 1} ELSE {}, Gaps[n])]
    BY <1>2, FallbackChain
  <2>2. /\ \A n \in 1 .. size : Gaps[n] \in GapItems
        /\ \A g \in GapItems : \E n \in 1 .. size : Gaps[n] = g
        /\ \A m, n \in 1 .. size : Gaps[m] = Gaps[n] => m = n
    <3>1. Gaps = InOrder(GapItems)
      BY DEF Gaps, GapItems
    <3> QED BY <3>1, GapItemsFinite, InOrderEnumerates
  <2> HIDE DEF size
  <2>3. about = {n \in 1 .. size : Gaps[n] = i}
    BY <2>1 DEF RoadmapStep
  <2> HIDE DEF about
  <2>4. CASE i \in GapItems
    <3>1. PICK n \in 1 .. size : Gaps[n] = i
      BY <2>2, <2>4
    <3>2. about = {n}
      BY <2>2, <2>3, <3>1
    <3>3. Cardinality(about) = 1
      BY <3>2, <1>e
    <3> QED BY <2>4, <3>3 DEF about
  <2>5. CASE i \notin GapItems
    <3>1. about = {}
      BY <2>2, <2>3, <2>5
    <3>2. Cardinality(about) = 0
      BY <3>1, <1>e
    <3> QED BY <2>5, <3>2 DEF about
  <2> QED BY <2>4, <2>5
<1> QED BY <1>0, <1>1, <1>2

\* A step of the fallback waits for the one before it.
LEMMA FallbackOrdered ==
    ASSUME ContractsTypeOK, NEW j \in DOMAIN FallbackSteps,
           NEW d \in FallbackSteps[j].dependencias
    PROVE  \E i \in 1 .. j - 1 : FallbackSteps[i].step_order = d
<1> DEFINE size == Cardinality(GapItems)
<1>0. size \in Nat
  BY FallbackChain
<1>1. CASE size = 0
  <2>1. FallbackSteps = << RoadmapStep(1, {}, 0) >>
    BY <1>1, FallbackChain
  <2> QED BY <2>1 DEF RoadmapStep
<1>2. CASE size > 0
  <2>1. FallbackSteps = [n \in 1 .. size |->
                            RoadmapStep(n, IF n > 1 THEN {n - 1} ELSE {}, Gaps[n])]
    BY <1>2, FallbackChain
  <2> HIDE DEF size
  <2>2. j \in 1 .. size /\ d \in (IF j > 1 THEN {j - 1} ELSE {})
    BY <2>1 DEF RoadmapStep
  <2>3. j > 1 /\ d = j - 1 /\ j - 1 \in 1 .. size /\ j - 1 \in 1 .. j - 1
    BY <2>2, <1>0
  <2>4. FallbackSteps[j - 1].step_order = j - 1
    BY <2>1, <2>3 DEF RoadmapStep
  <2> QED BY <2>3, <2>4
<1> QED BY <1>0, <1>1, <1>2

(***************************************************************************)
(* What build_fallback_contract makes of an audit passes validate_contract, *)
(* answers every gap once and nothing else, and every step depends on an   *)
(* earlier one, whatever the items of the score and however many.          *)
(***************************************************************************)
THEOREM FallbackIsComplete == ContractsSpec => []FallbackCoversGaps
<1>1. ContractsInv /\ [ContractsNext]_contractsVars => ContractsInv'
  BY ContractsInductive
<1>2. ContractsInv => FallbackCoversGaps
  <2> SUFFICES ASSUME ContractsInv, contract.by = "fallback"
               PROVE  FallbackCoversGaps
    BY DEF FallbackCoversGaps
  <2>1. ContractsTypeOK /\ contract.steps = FallbackSteps /\ contract_pc # "rejected"
    BY DEF ContractsInv, FallbackKept, FallbackContract
  <2>2. SchemaValid(contract.steps)
    BY <2>1, FallbackAccepted
  <2>3. ASSUME NEW i \in DOMAIN result_items
        PROVE  Cardinality({j \in DOMAIN contract.steps :
                              contract.steps[j].gap_relacionado = i})
                = IF /\ result_items[i].applied
                     /\ result_items[i].is_blocking \/ result_items[i].score_delta = -1
                  THEN 1 ELSE 0
    <3>1. result_items[i] \in ResultItem
      BY <2>1 DEF ContractsTypeOK
    <3>2. i \in GapItems <=>
             /\ result_items[i].applied
             /\ result_items[i].is_blocking \/ result_items[i].score_delta = -1
      BY <3>1 DEF GapItems, ResultItem
    <3> QED BY <2>1, <3>2, FallbackAnswers
  <2>4. \A j \in DOMAIN contract.steps : \A d \in contract.steps[j].dependencias :
           \E i \in 1 .. j - 1 : contract.steps[i].step_order = d
    BY <2>1, FallbackOrdered
  <2> QED BY <2>1, <2>2, <2>3, <2>4 DEF FallbackCoversGaps
<1> QED BY ContractsInitial, <1>1, <1>2, PTL DEF ContractsSpec
=============================================================================
