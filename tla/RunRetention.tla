---------------------------- MODULE RunRetention -----------------------------
(***************************************************************************)
(* InMemoryRunStore under RunService: which reports it holds, which it     *)
(* drops because they expired, and which it evicts to make room for a new  *)
(* run.                                                                    *)
(*                                                                         *)
(* A report is cut down to its completion time. Every store call first     *)
(* drops what has expired (removeExpired).                                 *)
(***************************************************************************)
EXTENDS Integers, FiniteSets

CONSTANTS
    Runs,               \* the runs that may be started
    MaxEntries,         \* maxEntries (MAX_STORED_RUNS)
    RetentionMs,        \* retentionMs, in ticks
    MaxConcurrentRuns,  \* options.maxConcurrentRuns of the service
    MaxTime             \* bound: ticks of the clock

ASSUME ConstantsAssumption ==
    /\ IsFiniteSet(Runs)
    /\ {MaxEntries, RetentionMs, MaxConcurrentRuns} \subseteq Nat \ {0}
    /\ MaxTime \in Nat

VARIABLES
    now,            \* the clock of the store, the service and the handlers
    stored,         \* the keys of #runs
    completedAt,    \* completedAt of each report, Active while there is none
    position,       \* the insertion order of #runs
    inserted,       \* entries inserted so far
    executing,      \* runs whose execute() has not released its capacity
    refused         \* runs the store had no room for

vars == <<now, stored, completedAt, position, inserted, executing, refused>>

Active == -1
Terminal(r) == completedAt[r] # Active

Init ==
    /\ now = 0
    /\ stored = {}
    /\ completedAt = [r \in Runs |-> Active]
    /\ position = [r \in Runs |-> 0]
    /\ inserted = 0
    /\ executing = {}
    /\ refused = {}

Tick ==
    /\ now < MaxTime
    /\ now' = now + 1
    /\ UNCHANGED <<stored, completedAt, position, inserted, executing, refused>>

-----------------------------------------------------------------------------
(* InMemoryRunStore.                                                       *)

\* What removeExpired leaves.
Kept == {r \in stored : ~(Terminal(r) /\ completedAt[r] <= now - RetentionMs)}

\* Mutants: any report may go; only the oldest one may, if it is terminal.
EvictableAny == Kept
EvictableOldest == {r \in Kept : Terminal(r) /\ \A q \in Kept : position[r] <= position[q]}

\* The first terminal report of #runs. create() evicts while the store is full; it
\* is never more than full, so one eviction makes the room.
Evictable == {r \in Kept : Terminal(r)}
\* Mutant: the newest terminal report goes.
VictimNewest == CHOOSE r \in Evictable : \A q \in Evictable : position[r] >= position[q]

Victim == CHOOSE r \in Evictable : \A q \in Evictable : position[r] <= position[q]

Insert(r, base) ==
    /\ stored' = base \cup {r}
    /\ inserted' = inserted + 1
    /\ position' = [position EXCEPT ![r] = inserted']

-----------------------------------------------------------------------------
(* RunService, which calls the synchronous store in one turn with its own  *)
(* bookkeeping.                                                            *)

New(r) == position[r] = 0 /\ r \notin refused
Admitted(r) == New(r) /\ Cardinality(executing) < MaxConcurrentRuns

StartWithRoom(r) ==
    /\ Admitted(r)
    /\ Cardinality(Kept) < MaxEntries
    /\ Insert(r, Kept)
    /\ executing' = executing \cup {r}
    /\ UNCHANGED <<now, completedAt, refused>>

StartEvicting(r) ==
    /\ Admitted(r)
    /\ Cardinality(Kept) >= MaxEntries
    /\ Evictable # {}
    /\ Insert(r, Kept \ {Victim})
    /\ executing' = executing \cup {r}
    /\ UNCHANGED <<now, completedAt, refused>>

\* RunCapacityError: "The run store is full with active runs."
StartRefused(r) ==
    /\ Admitted(r)
    /\ Cardinality(Kept) >= MaxEntries
    /\ Evictable = {}
    /\ refused' = refused \cup {r}
    /\ stored' = Kept
    /\ UNCHANGED <<now, completedAt, position, inserted, executing>>

\* A get() and update() of execute() that keeps the run active.
Progress(r) ==
    /\ r \in executing
    /\ ~Terminal(r)
    /\ r \in Kept
    /\ stored' = Kept
    /\ UNCHANGED <<now, completedAt, position, inserted, executing, refused>>

\* The final update(), or the one of the catch block.
Complete(r) ==
    /\ r \in executing
    /\ ~Terminal(r)
    /\ r \in Kept
    /\ stored' = Kept
    /\ completedAt' = [completedAt EXCEPT ![r] = now]
    /\ UNCHANGED <<now, position, inserted, executing, refused>>

\* The finally block, some turns later.
Release(r) ==
    /\ r \in executing
    /\ Terminal(r)
    /\ executing' = executing \ {r}
    /\ UNCHANGED <<now, stored, completedAt, position, inserted, refused>>

\* GET /api/v1/runs/:runId and /report: a get(), whatever it finds.
Read ==
    /\ stored' = Kept
    /\ UNCHANGED <<now, completedAt, position, inserted, executing, refused>>

-----------------------------------------------------------------------------

Next ==
    \/ \E r \in Runs :
          \/ StartWithRoom(r) \/ StartEvicting(r) \/ StartRefused(r)
          \/ Progress(r) \/ Complete(r) \/ Release(r)
    \/ Read
    \/ Tick

Spec == Init /\ [][Next]_vars

-----------------------------------------------------------------------------
(* Properties                                                              *)

TypeOK ==
    /\ now \in 0..MaxTime
    /\ stored \subseteq Runs
    /\ completedAt \in [Runs -> Active..MaxTime]
    /\ position \in [Runs -> Nat]
    /\ inserted \in Nat
    /\ executing \subseteq Runs
    /\ refused \subseteq Runs

\* No store call of an execution fails with "Run ... does not exist": an active run is
\* dropped neither by expiry nor by the eviction that makes room for another run.
ActiveRunsKept == \A r \in executing : ~Terminal(r) => r \in stored

\* The store stays within its bound although terminal reports are dropped lazily.
StoreBounded == Cardinality(stored) <= MaxEntries

\* The store turns a run away only while it is full of reports that executions still
\* update: a service that may execute no more runs than the store holds never sees it.
RefusalMeansBusy ==
    [][refused' # refused =>
          /\ stored' \subseteq executing
          /\ Cardinality(stored') = MaxEntries
          /\ MaxEntries < MaxConcurrentRuns]_vars

\* A report leaves the store only when it has expired, or to make room in a full store,
\* and then no terminal report that stays was started before it.
OldestTerminalLeaves ==
    [][\A r \in stored \ stored' :
          /\ Terminal(r)
          /\ \/ completedAt[r] + RetentionMs <= now
             \/ /\ \E q \in stored' : q \notin stored
                /\ Cardinality(stored') = MaxEntries
                /\ \A q \in stored \cap stored' : Terminal(q) => position[r] < position[q]]_vars

\* Whoever leaves or is turned away, it is for want of room, and the right one.
RoomIsMadeRightly == RefusalMeansBusy /\ OldestTerminalLeaves

\* The inductive form of the properties: whatever is stored was started, what is stored
\* and active still executes, and no two started runs share a place in the order.
RetentionInv ==
    /\ TypeOK
    /\ ActiveRunsKept
    /\ StoreBounded
    /\ \A r \in stored : position[r] > 0 /\ (Terminal(r) \/ r \in executing)
    /\ \A r \in executing : position[r] > 0
    /\ \A r \in Runs : position[r] = 0 => completedAt[r] = Active
    /\ \A r \in Runs : position[r] <= inserted
    /\ \A r, q \in Runs : position[r] = position[q] /\ position[r] > 0 => r = q
    /\ Cardinality(executing) <= MaxConcurrentRuns

=============================================================================
