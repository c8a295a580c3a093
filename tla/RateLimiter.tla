------------------------------ MODULE RateLimiter -----------------------------
(***************************************************************************)
(* FixedWindowRateLimiter: a bounded map of buckets, one per key, cleared  *)
(* lazily, that knows the order of insertion. A tick of the clock is 1 /   *)
(* TicksPerSecond of a second: Retry-After rounds up to whole seconds.     *)
(***************************************************************************)
EXTENDS Integers, FiniteSets, FiniteSetsExt

CONSTANTS
    WindowMs,       \* windowMs, in ticks
    MaxKeys,        \* maxKeys
    TicksPerSecond

VARIABLES
    now,        \* Date.now()
    buckets     \* #buckets: key -> [count, resetAt, place], place in the order of insertion

LimiterInit == buckets = [key \in {} |-> 0]

Ceil(n, unit) == (n + unit - 1) \div unit
AtLeastOne(n) == IF n = 0 THEN 1 ELSE n

\* Mutant: a bucket lives through the tick its window ends.
UnexpiredLate == {key \in DOMAIN buckets : buckets[key].resetAt >= now}

\* removeExpired.
Unexpired == {key \in DOMAIN buckets : buckets[key].resetAt > now}

Oldest == CHOOSE key \in Unexpired : \A other \in Unexpired : buckets[key].place <= buckets[other].place
Last == Max({buckets[key].place : key \in Unexpired} \cup {0})

\* Mutant: room is made one key early.
WithRoomEarly == IF Cardinality(Unexpired) + 1 >= MaxKeys THEN Unexpired \ {Oldest} ELSE Unexpired

\* At maxKeys the oldest bucket makes room for a new key.
WithRoom == IF Cardinality(Unexpired) >= MaxKeys THEN Unexpired \ {Oldest} ELSE Unexpired

\* The bucket consume() counts in: the key's own, or a new one.
Counting(key) ==
    IF key \in Unexpired THEN buckets[key] ELSE [count |-> 0, resetAt |-> now + WindowMs, place |-> Last + 1]
Count(key) == Counting(key).count + 1

Allowed(key, limit) == Count(key) <= limit
RetryAfter(key) == AtLeastOne(Ceil(Counting(key).resetAt - now, TicksPerSecond))

\* consume(): whatever the answer, the request is counted.
Consume(key) ==
    LET kept == IF key \in Unexpired THEN Unexpired ELSE WithRoom
    IN  buckets' = [k \in kept \cup {key} |->
                       IF k = key THEN [Counting(key) EXCEPT !.count = @ + 1] ELSE buckets[k]]
=============================================================================
