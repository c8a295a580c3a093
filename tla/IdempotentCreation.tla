-------------------------- MODULE IdempotentCreation -------------------------
(***************************************************************************)
(* POST /api/v1/runs and /runs/definitions with an Idempotency-Key: the    *)
(* handlers in app.ts, the IdempotencyStore, and as much of                *)
(* RunService.start as decides whether a request gets a run: a limit on    *)
(* active runs, and a store.create that is answered later, or with an      *)
(* error.                                                                  *)
(*                                                                         *)
(* A request waits before its handler comes to the key: its body is read,  *)
(* and its scenario looked up, in published mode in the database. Others   *)
(* may overtake it meanwhile, the clock moves on, and the lookup may turn  *)
(* it away.                                                                *)
(*                                                                         *)
(* What a request carries is chosen when its handler comes to it: until    *)
(* then all that wait are alike, and numbers are given in the order in     *)
(* which handlers get their turn, whichever request came first. A run has  *)
(* the number of the request that started it. The fingerprint of a request *)
(* is its body: canonical JSON tells two bodies apart.                     *)
(***************************************************************************)
EXTENDS Integers, FiniteSets

CONSTANTS
    Keys, Bodies,       \* what they may carry
    NoKey,              \* a request without a usable Idempotency-Key
    MaxEntries,         \* maxEntries of the store
    RetentionMs,        \* retentionMs of the store, in ticks
    MaxConcurrentRuns,  \* options.maxConcurrentRuns
    MaxRequests,        \* bound: POST requests
    MaxTime             \* bound: ticks of the clock

ASSUME ConstantsAssumption ==
    /\ {MaxEntries, RetentionMs, MaxConcurrentRuns} \subseteq Nat \ {0}
    /\ {MaxRequests, MaxTime} \subseteq Nat
    /\ NoKey \notin Keys

VARIABLES
    now,        \* Date.now()
    entries,    \* #entries: key -> [body, owner, createdAt], owner started the run
    request,    \* what each carried, when its key was looked up, whose promise it awaits
    start,      \* the promise of runs.start each request made, if it made one
    answer,     \* what each request was answered
    running     \* runs that hold a unit of capacity

vars == <<now, entries, request, start, answer, running>>

Requests == 1..MaxRequests
Nobody == 0
NotYet == -1
Unsent == [key |-> NoKey, body |-> "none", at |-> NotYet, awaits |-> Nobody]
Unread == [key |-> NoKey, body |-> "unread", at |-> NotYet, awaits |-> Nobody]

Init ==
    /\ now = 0
    /\ entries = [k \in {} |-> 0]
    /\ request = [r \in Requests |-> Unsent]
    /\ start = [r \in Requests |-> "none"]
    /\ answer = [r \in Requests |-> "none"]
    /\ running = {}

Tick ==
    /\ now < MaxTime
    /\ now' = now + 1
    /\ UNCHANGED <<entries, request, start, answer, running>>

-----------------------------------------------------------------------------
(* A request arrives, and its scenario is looked up.                       *)

Arrive(r) ==
    /\ request[r] = Unsent
    /\ \A q \in 1..(r - 1) : request[q] # Unsent
    /\ request' = [request EXCEPT ![r] = Unread]
    /\ UNCHANGED <<now, entries, start, answer, running>>

\* The handler of r gets its turn.
Turn(r) ==
    /\ request[r] = Unread
    /\ answer[r] = "none"
    /\ \A q \in 1..(r - 1) : request[q] = Unread => answer[q] # "none"

Answer(r, status) == answer' = [answer EXCEPT ![r] = status]

\* The handler leaves before it comes to the key: the scenario is not found (404) or of
\* another version (409), the catalogue cannot be read (503), the definition is not valid.
TurnAway(r) ==
    /\ Turn(r)
    /\ Answer(r, "TURNED_AWAY")
    /\ UNCHANGED <<now, entries, request, start, running>>

-----------------------------------------------------------------------------
(* The lookup has found the scenario: in one turn of the handler, insert() *)
(* and through its producer start().                                       *)

\* Mutant: an entry expires one tick early.
FreshTooShort == {k \in DOMAIN entries : entries[k].createdAt > now - RetentionMs + 1}

\* #removeExpired.
Fresh == {k \in DOMAIN entries : entries[k].createdAt > now - RetentionMs}
Kept == [k \in Fresh |-> entries[k]]

Receive(r, key, body, owner) ==
    /\ Turn(r)
    /\ request' = [request EXCEPT ![r] = [key |-> key, body |-> body, at |-> now, awaits |-> owner]]

\* The synchronous part of start(): rejected at once at capacity, else store.create.
StartRun(r) ==
    IF Cardinality(running) >= MaxConcurrentRuns
    THEN start' = [start EXCEPT ![r] = "RUN_CAPACITY"] /\ UNCHANGED running
    ELSE start' = [start EXCEPT ![r] = "creating"] /\ running' = running \cup {r}

PostWithoutKey(r) ==
    /\ Receive(r, NoKey, "none", r)
    /\ StartRun(r)
    /\ UNCHANGED <<now, entries, answer>>

PostCreates(r, key, body) ==
    /\ key \notin Fresh
    /\ Cardinality(Fresh) < MaxEntries
    /\ Receive(r, key, body, r)
    /\ StartRun(r)
    /\ entries' = [k \in Fresh \cup {key} |->
                      IF k = key THEN [body |-> body, owner |-> r, createdAt |-> now] ELSE entries[k]]
    /\ UNCHANGED <<now, answer>>

\* Both "created" and "existing" await the promise of the entry.
PostExisting(r, key, body) ==
    /\ key \in Fresh
    /\ entries[key].body = body
    /\ Receive(r, key, body, entries[key].owner)
    /\ entries' = Kept
    /\ UNCHANGED <<now, start, answer, running>>

PostConflict(r, key, body) ==
    /\ key \in Fresh
    /\ entries[key].body # body
    /\ Receive(r, key, body, Nobody)
    /\ Answer(r, "IDEMPOTENCY_CONFLICT")
    /\ entries' = Kept
    /\ UNCHANGED <<now, start, running>>

\* Mutant: the capacity is checked before the key is looked up.
PostOverCapacityFirst(r, key, body) ==
    /\ Cardinality(Fresh) >= MaxEntries
    /\ Receive(r, key, body, Nobody)
    /\ Answer(r, "IDEMPOTENCY_CAPACITY")
    /\ entries' = Kept
    /\ UNCHANGED <<now, start, running>>

PostOverCapacity(r, key, body) ==
    /\ key \notin Fresh
    /\ Cardinality(Fresh) >= MaxEntries
    /\ Receive(r, key, body, Nobody)
    /\ Answer(r, "IDEMPOTENCY_CAPACITY")
    /\ entries' = Kept
    /\ UNCHANGED <<now, start, running>>

-----------------------------------------------------------------------------
(* What happens to a started run, and to the requests that await it.       *)

CreateSucceeds(r) ==
    /\ start[r] = "creating"
    /\ start' = [start EXCEPT ![r] = "run"]
    /\ UNCHANGED <<now, entries, request, answer, running>>

CreateFails(r) ==
    /\ start[r] = "creating"
    /\ start' = [start EXCEPT ![r] = "DATABASE_UNAVAILABLE"]
    /\ running' = running \ {r}
    /\ UNCHANGED <<now, entries, request, answer>>

RunEnds(r) ==
    /\ start[r] = "run"
    /\ r \in running
    /\ running' = running \ {r}
    /\ UNCHANGED <<now, entries, request, start, answer>>

\* 202 with the run, or the error handler's answer to the rejection.
Reply(r) ==
    /\ request[r].awaits # Nobody
    /\ answer[r] = "none"
    /\ start[request[r].awaits] \notin {"none", "creating"}
    /\ Answer(r, start[request[r].awaits])
    /\ UNCHANGED <<now, entries, request, start, running>>

-----------------------------------------------------------------------------

Post(r) ==
    \/ PostWithoutKey(r)
    \/ \E key \in Keys, body \in Bodies :
          \/ PostCreates(r, key, body)
          \/ PostExisting(r, key, body)
          \/ PostConflict(r, key, body)
          \/ PostOverCapacity(r, key, body)

Process(r) == CreateSucceeds(r) \/ CreateFails(r) \/ Reply(r)

-----------------------------------------------------------------------------
(* Properties                                                              *)

Outcomes == {"run", "RUN_CAPACITY", "DATABASE_UNAVAILABLE"}
TypeOK ==
    /\ now \in 0..MaxTime
    /\ DOMAIN entries \subseteq Keys
    /\ \A k \in DOMAIN entries :
          entries[k] \in [body : Bodies, owner : Requests, createdAt : 0..now]
    /\ request \in [Requests -> [key : Keys \cup {NoKey}, body : Bodies \cup {"none", "unread"},
                                 at : NotYet..now, awaits : Requests \cup {Nobody}]]
    /\ start \in [Requests -> Outcomes \cup {"none", "creating"}]
    /\ answer \in [Requests -> Outcomes \cup {"none", "TURNED_AWAY", "IDEMPOTENCY_CONFLICT", "IDEMPOTENCY_CAPACITY"}]
    /\ running \subseteq Requests

\* The handler of r has come to its key.
Keyed(r) == request[r].key # NoKey
Starters == {r \in Requests : start[r] # "none"}

\* One start per key and retention window, however requests, expiry, capacity and
\* pending creates interleave: two starts under a key are at least a window apart.
OneStartPerKey ==
    \A r, s \in Starters :
        r # s /\ Keyed(r) /\ request[r].key = request[s].key =>
            \/ request[r].at - request[s].at >= RetentionMs
            \/ request[s].at - request[r].at >= RetentionMs

\* The window of the run that r started is open when the key of s is looked up.
Repeats(s, r) ==
    /\ request[s].key = request[r].key /\ request[s].body = request[r].body
    /\ request[s].at >= request[r].at
    /\ request[s].at - request[r].at < RetentionMs

\* A request that comes to its key, with the same body, within a window of the start under
\* it gets the promise and the answer of that start, the one that comes while the create is
\* pending included. The lookup of its scenario comes first and may turn it away, even
\* while the run it asks for exists: only a request that has not come to its key gets
\* another answer, and that is the only answer it gets.
SameKeySameAnswer ==
    /\ \A r \in Starters, s \in Requests :
          Keyed(r) /\ Repeats(s, r)
          => request[s].awaits = r /\ answer[s] \in {"none", start[r]}
    /\ \A s \in Requests :
          IF request[s].at = NotYet THEN answer[s] \in {"none", "TURNED_AWAY"}
                                    ELSE answer[s] # "TURNED_AWAY"

=============================================================================
