---------------------------- MODULE RunAdmission -----------------------------
(***************************************************************************)
(* RunService.start, the bookkeeping around RunService.execute, drain and  *)
(* the shutdown sequence of server.ts: who is admitted, how many runs are  *)
(* in flight, what every counter says, and what a shutdown waits for.      *)
(*                                                                         *)
(* The body of execute() between its first statement and its finally block *)
(* is one nondeterministic outcome here (module RunExecution opens it up); *)
(* store.create is a call that may be answered late, with an error, or     *)
(* never before the process exits.                                         *)
(***************************************************************************)
EXTENDS Naturals, FiniteSets

CONSTANTS
    Runs,               \* the POST requests that reach RunService.start
    MaxConcurrentRuns   \* options.maxConcurrentRuns

ASSUME RunsAssumption == IsFiniteSet(Runs)
ASSUME LimitAssumption == MaxConcurrentRuns \in Nat \ {0}

VARIABLES
    pc,                 \* how far each request's run has come
    verdict,            \* what the caller or the lifecycle log was told of it
    activeRuns,         \* #activeRuns
    activePromises,     \* #activePromises, by the run that owns the promise
    draining,           \* #draining
    passedRuns, failedRuns,                     \* #passedRuns, #failedRuns
    capacityRejectedStarts, drainingRejectedStarts,
    runDurationCount,   \* #runDurationCount
    phase,              \* where the shutdown sequence of server.ts is
    awaited,            \* the promises drain() took when it was called
    timedOut            \* the drain deadline won the race in closeAfterDrain

serviceVars == <<activeRuns, activePromises>>
endCounters == <<passedRuns, failedRuns, runDurationCount>>
counters == <<endCounters, capacityRejectedStarts, drainingRejectedStarts>>
shutdownVars == <<draining, phase, awaited, timedOut>>
vars == <<pc, verdict, serviceVars, counters, shutdownVars>>

States == {"new", "refused", "creating", "aborted", "accepted", "executing",
           "finished", "settled"}
Verdicts == {"none", "passed", "failed", "capacity", "draining", "fault"}
Phases == {"serving", "draining", "closing", "exited"}

\* Runs that hold a unit of capacity, runs whose promise is unresolved, runs that
\* gave their unit back, requests that never got one.
InFlight == {r \in Runs : pc[r] \in {"creating", "accepted", "executing"}}
Unsettled == {r \in Runs : pc[r] \in {"creating", "accepted", "executing", "finished"}}
Released == {r \in Runs : pc[r] \in {"aborted", "finished", "settled"}}
Refused == {r \in Runs : pc[r] = "refused"}
Told(v) == {r \in Runs : verdict[r] = v}

TypeOK ==
    /\ pc \in [Runs -> States]
    /\ verdict \in [Runs -> Verdicts]
    /\ activeRuns \in Nat
    /\ activePromises \subseteq Runs
    /\ draining \in BOOLEAN
    /\ passedRuns \in Nat
    /\ failedRuns \in Nat
    /\ capacityRejectedStarts \in Nat
    /\ drainingRejectedStarts \in Nat
    /\ runDurationCount \in Nat
    /\ phase \in Phases
    /\ awaited \subseteq Runs
    /\ timedOut \in BOOLEAN

Init ==
    /\ pc = [r \in Runs |-> "new"]
    /\ verdict = [r \in Runs |-> "none"]
    /\ activeRuns = 0
    /\ activePromises = {}
    /\ draining = FALSE
    /\ passedRuns = 0
    /\ failedRuns = 0
    /\ capacityRejectedStarts = 0
    /\ drainingRejectedStarts = 0
    /\ runDurationCount = 0
    /\ phase = "serving"
    /\ awaited = {}
    /\ timedOut = FALSE

Move(r, from, to) == pc[r] = from /\ pc' = [pc EXCEPT ![r] = to]
Tell(r, v) == verdict' = [verdict EXCEPT ![r] = v]

-----------------------------------------------------------------------------
(* RunService.start: the part before the first await runs in one turn.     *)

StartWhileDraining(r) ==
    /\ phase \in {"serving", "draining"}
    /\ draining
    /\ Move(r, "new", "refused")
    /\ Tell(r, "draining")
    /\ drainingRejectedStarts' = drainingRejectedStarts + 1
    /\ UNCHANGED <<serviceVars, endCounters, capacityRejectedStarts, shutdownVars>>

StartAtCapacity(r) ==
    /\ phase \in {"serving", "draining"}
    /\ ~draining
    /\ activeRuns >= MaxConcurrentRuns
    /\ Move(r, "new", "refused")
    /\ Tell(r, "capacity")
    /\ capacityRejectedStarts' = capacityRejectedStarts + 1
    /\ UNCHANGED <<serviceVars, endCounters, drainingRejectedStarts, shutdownVars>>

\* Mutants: the limit is off by one; a draining service still admits.
Admit(r) ==
    /\ phase \in {"serving", "draining"}
    /\ Move(r, "new", "creating")
    /\ activeRuns' = activeRuns + 1
    /\ activePromises' = activePromises \cup {r}
    /\ UNCHANGED <<verdict, counters, shutdownVars>>
StartAdmittedOneTooMany(r) == ~draining /\ activeRuns <= MaxConcurrentRuns /\ Admit(r)
StartAdmittedWhileDraining(r) == activeRuns < MaxConcurrentRuns /\ Admit(r)

\* The unit of capacity and the promise are taken before store.create is awaited.
StartAdmitted(r) ==
    /\ phase \in {"serving", "draining"}
    /\ ~draining
    /\ activeRuns < MaxConcurrentRuns
    /\ Move(r, "new", "creating")
    /\ activeRuns' = activeRuns + 1
    /\ activePromises' = activePromises \cup {r}
    /\ UNCHANGED <<verdict, counters, shutdownVars>>

\* store.create returned: the report is answered with 202 and setImmediate is armed.
CreateSucceeds(r) ==
    /\ phase # "exited"
    /\ Move(r, "creating", "accepted")
    /\ UNCHANGED <<verdict, serviceVars, counters, shutdownVars>>

\* Mutant: every error of the store is counted as a capacity rejection.
CreateFailsMiscounted(r, storeFull) ==
    /\ phase # "exited"
    /\ Move(r, "creating", "aborted")
    /\ Tell(r, IF storeFull THEN "capacity" ELSE "fault")
    /\ activeRuns' = activeRuns - 1
    /\ capacityRejectedStarts' = capacityRejectedStarts + 1
    /\ activePromises' = activePromises \ {r}
    /\ UNCHANGED <<endCounters, drainingRejectedStarts, shutdownVars>>

\* store.create threw: a RunCapacityError (the in-memory store is full of active
\* runs) is counted as a capacity rejection, any other error is not counted.
CreateFails(r, storeFull) ==
    /\ phase # "exited"
    /\ Move(r, "creating", "aborted")
    /\ Tell(r, IF storeFull THEN "capacity" ELSE "fault")
    /\ activeRuns' = activeRuns - 1
    /\ capacityRejectedStarts' = capacityRejectedStarts + (IF storeFull THEN 1 ELSE 0)
    /\ activePromises' = activePromises \ {r}
    /\ UNCHANGED <<endCounters, drainingRejectedStarts, shutdownVars>>

-----------------------------------------------------------------------------
(* RunService.execute, seen from the service's own fields.                 *)

ExecuteBegins(r) ==
    /\ phase # "exited"
    /\ Move(r, "accepted", "executing")
    /\ UNCHANGED <<verdict, serviceVars, counters, shutdownVars>>

\* The finally block, reached from the normal path, the catch block, or a throw in it.
ExecuteFinally(r, outcome) ==
    /\ phase # "exited"
    /\ Move(r, "executing", "finished")
    /\ Tell(r, outcome)
    /\ activeRuns' = activeRuns - 1
    /\ passedRuns' = passedRuns + (IF outcome = "passed" THEN 1 ELSE 0)
    /\ failedRuns' = failedRuns + (IF outcome = "passed" THEN 0 ELSE 1)
    /\ runDurationCount' = runDurationCount + 1
    /\ UNCHANGED <<activePromises, capacityRejectedStarts, drainingRejectedStarts, shutdownVars>>

\* Mutant: .then(resolveExecution) without the second argument.
ExecutionResolvesOnSuccess(r) ==
    /\ phase # "exited"
    /\ verdict[r] = "passed"
    /\ Move(r, "finished", "settled")
    /\ activePromises' = activePromises \ {r}
    /\ UNCHANGED <<verdict, activeRuns, counters, shutdownVars>>

\* .then(resolveExecution, resolveExecution), whose reaction deletes the promise.
ExecutionResolves(r) ==
    /\ phase # "exited"
    /\ Move(r, "finished", "settled")
    /\ activePromises' = activePromises \ {r}
    /\ UNCHANGED <<verdict, activeRuns, counters, shutdownVars>>

-----------------------------------------------------------------------------
(* shutdown in server.ts and closeAfterDrain in app.ts.                    *)

Signal ==
    /\ phase = "serving"
    /\ phase' = "draining"
    /\ draining' = TRUE
    /\ awaited' = activePromises
    /\ UNCHANGED <<pc, verdict, serviceVars, counters, timedOut>>

\* Mutant: Promise.race where drain() has Promise.allSettled.
DrainResolvesWithFirst ==
    /\ phase = "draining"
    /\ awaited = {} \/ ~(awaited \subseteq activePromises)
    /\ phase' = "closing"
    /\ UNCHANGED <<pc, verdict, serviceVars, counters, draining, awaited, timedOut>>

DrainResolves ==
    /\ phase = "draining"
    /\ awaited \cap activePromises = {}
    /\ phase' = "closing"
    /\ UNCHANGED <<pc, verdict, serviceVars, counters, draining, awaited, timedOut>>

DrainDeadline ==
    /\ phase = "draining"
    /\ phase' = "closing"
    /\ timedOut' = TRUE
    /\ UNCHANGED <<pc, verdict, serviceVars, counters, draining, awaited>>

\* app.close() and process.exit(0): every run still in flight stops where it is.
Exit ==
    /\ phase = "closing"
    /\ phase' = "exited"
    /\ UNCHANGED <<pc, verdict, serviceVars, counters, draining, awaited, timedOut>>

-----------------------------------------------------------------------------

RunStep(r) ==
    \/ StartWhileDraining(r)
    \/ StartAtCapacity(r)
    \/ StartAdmitted(r)
    \/ CreateSucceeds(r)
    \/ \E storeFull \in BOOLEAN : CreateFails(r, storeFull)
    \/ ExecuteBegins(r)
    \/ \E outcome \in {"passed", "failed"} : ExecuteFinally(r, outcome)
    \/ ExecutionResolves(r)

Next ==
    \/ \E r \in Runs : RunStep(r)
    \/ Signal
    \/ DrainResolves
    \/ DrainDeadline
    \/ Exit

\* What the process itself drives on: a store call is answered (queries carry a
\* statement timeout), setImmediate and promise reactions run, execute() ends
\* (every await in it is bounded by the run timeout or a query timeout), the
\* deadline timer fires, close returns. Requests and signals owe nothing.
Progress(r) ==
    \/ CreateSucceeds(r)
    \/ \E storeFull \in BOOLEAN : CreateFails(r, storeFull)
    \/ ExecuteBegins(r)
    \/ \E outcome \in {"passed", "failed"} : ExecuteFinally(r, outcome)
    \/ ExecutionResolves(r)

Fairness ==
    /\ \A r \in Runs : WF_vars(Progress(r))
    /\ WF_vars(DrainResolves \/ DrainDeadline)
    /\ WF_vars(Exit)

Spec == Init /\ [][Next]_vars /\ Fairness

-----------------------------------------------------------------------------
(* Properties                                                              *)

\* The capacity counter is neither leaked nor released twice on any path of
\* start and execute: it always equals the number of runs in flight, and so
\* never lets more than maxConcurrentRuns execute at once.
CapacityExact ==
    /\ activeRuns = Cardinality(InFlight)
    /\ activeRuns <= MaxConcurrentRuns

\* GET /metrics accounts for every start exactly once: each counter is the
\* number of requests whose caller or log entry was told that very outcome.
MetricsExact ==
    /\ passedRuns = Cardinality(Told("passed"))
    /\ failedRuns = Cardinality(Told("failed"))
    /\ capacityRejectedStarts = Cardinality(Told("capacity"))
    /\ drainingRejectedStarts = Cardinality(Told("draining"))
    /\ runDurationCount = passedRuns + failedRuns

\* Every counter of the service is exact at every moment: the gauge it admits by, and the
\* totals it reports.
CountersExact == CapacityExact /\ MetricsExact

\* The snapshot drain() waits for misses no run, even one whose store.create
\* is still unanswered when the signal arrives.
DrainCoversInFlight == phase # "serving" => Unsettled \subseteq awaited

\* Unless the deadline fired, the server closes the database and exits only
\* when no run is in flight: an orderly shutdown cuts no run short.
OrderlyClose == phase \in {"closing", "exited"} /\ ~timedOut => InFlight = {}

\* The inductive form of the two above. A promise is tracked exactly as long as
\* its run is unsettled, and #draining is set exactly when the signal arrived:
\* without the first the snapshot could miss a run, without the second a run
\* could still be admitted behind the snapshot.
AdmissionInv ==
    /\ TypeOK
    /\ CapacityExact
    /\ activePromises = Unsettled
    /\ draining <=> phase # "serving"
    /\ DrainCoversInFlight
    /\ phase \in {"closing", "exited"} /\ ~timedOut => Unsettled = {}

\* The inductive form of MetricsExact: a run's verdict is given once, at its end.
MetricsInv ==
    /\ MetricsExact
    /\ \A r \in Runs : pc[r] \in {"new", "creating", "accepted", "executing"} => verdict[r] = "none"

\* The service implements the gate it promises: its requests enter once, at
\* most maxConcurrentRuns at a time, refused only when full or draining.
Gate == INSTANCE BoundedGate WITH
    Members <- Runs,
    Limit <- MaxConcurrentRuns,
    inside <- InFlight,
    past <- Released,
    refused <- Refused,
    closed <- draining

ImplementsGate == Gate!GateSpec

\* Every admitted run gives its capacity back and resolves its promise,
\* whichever way create and execute end, unless the process exits first.
AdmittedRunsSettle ==
    \A r \in Runs : pc[r] = "creating" ~> pc[r] \in {"aborted", "settled"} \/ phase = "exited"

=============================================================================
