-------------------------------- MODULE RunApi --------------------------------
(***************************************************************************)
(* The requests of several clients to the backend: the onRequest hook with *)
(* the rate limiter in front of every route but /health, and the creation  *)
(* of runs behind it (IdempotentCreation). A refused request never reaches *)
(* its handler.                                                            *)
(***************************************************************************)
EXTENDS IdempotentCreation, Sequences

CONSTANTS
    Clients,            \* request.ip
    RunRateLimitMax,    \* config.runRateLimitMax
    RateLimitMax,       \* config.rateLimitMax
    WindowMs,           \* config.rateLimitWindowMs, in ticks
    MaxKeys,            \* maxKeys of the limiter
    TicksPerSecond,
    MaxConsumed         \* bound: requests that reach the limiter

ASSUME ApiAssumption ==
    /\ {RunRateLimitMax, RateLimitMax, WindowMs, MaxKeys, TicksPerSecond} \subseteq Nat \ {0}
    /\ MaxConsumed \in Nat

VARIABLES
    buckets,    \* of the limiter
    log         \* what it answered: <<[key, at, allowed, retryAfter], ...>>

INSTANCE RateLimiter

api == <<vars, buckets, log>>

ApiInit == Init /\ LimiterInit /\ log = <<>>

RunKey(c) == <<"run", c>>
GlobalKey(c) == <<"global", c>>
Limit(key) == IF key[1] = "run" THEN RunRateLimitMax ELSE RateLimitMax

\* The hook: counts the request, and answers 429 with Retry-After or lets it through.
\* The counted request and its answer enter the log.
Limited(key) ==
    /\ Len(log) < MaxConsumed
    /\ Consume(key)
    /\ log' = Append(log, [key |-> key, at |-> now, allowed |-> Allowed(key, Limit(key)),
                           retryAfter |-> RetryAfter(key)])

\* POST /api/v1/runs or /runs/definitions: counted as it arrives, before its handler runs.
PostRun(c, r) ==
    /\ Limited(RunKey(c))
    /\ Allowed(RunKey(c), Limit(RunKey(c)))
    /\ Arrive(r)

PostRefused(c) ==
    /\ Limited(RunKey(c))
    /\ ~Allowed(RunKey(c), Limit(RunKey(c)))
    /\ UNCHANGED vars

\* Any other route: a poll, the catalogue. Its handler is of no interest here.
OtherRequest(c) == Limited(GlobalKey(c)) /\ UNCHANGED vars

ApiNext ==
    \/ \E c \in Clients : PostRefused(c) \/ OtherRequest(c) \/ \E r \in Requests : PostRun(c, r)
    \/ (Tick \/ \E r \in Requests : TurnAway(r) \/ Post(r) \/ Process(r) \/ RunEnds(r)) /\ UNCHANGED <<buckets, log>>

ApiSpec == ApiInit /\ [][ApiNext]_api

-----------------------------------------------------------------------------
(* Properties                                                              *)

Within(key, from, to) == {i \in DOMAIN log : log[i].key = key /\ log[i].at \in from..to}
\* The other keys that come after the i-th answer, in the window that opens with it.
Rivals(i) ==
    {log[j].key : j \in {m \in (i + 1)..Len(log) : log[m].at < log[i].at + WindowMs}} \ {log[i].key}

\* However windows, lazy removal and eviction fall, a client is served no more than its
\* limit in the window that opens with its first request after a window's silence, unless
\* as many other keys as the limiter has buckets come up after it in that window. Buckets
\* of before, however many, are evicted first and cost the client nothing.
QuotaHolds ==
    \A i \in DOMAIN log :
        LET k == log[i].key
            t == log[i].at
        IN  /\ \A j \in 1..(i - 1) : log[j].key = k => log[j].at <= t - WindowMs
            /\ Cardinality(Rivals(i)) < MaxKeys
            => Cardinality({j \in Within(k, t, t + WindowMs - 1) : log[j].allowed}) <= Limit(k)

\* Retry-After is honest: a client that was refused and stays away that many seconds is
\* served when it comes back, and it is never sent away for longer than a window.
RetryAfterHonest ==
    /\ \A i \in DOMAIN log :
          log[i].retryAfter <= Ceil(WindowMs, TicksPerSecond)
    /\ \A i, j \in DOMAIN log :
          /\ ~log[i].allowed /\ j > i /\ log[j].key = log[i].key
          /\ \A m \in (i + 1)..(j - 1) : log[m].key # log[i].key
          /\ log[j].at >= log[i].at + log[i].retryAfter * TicksPerSecond
          => log[j].allowed

=============================================================================
