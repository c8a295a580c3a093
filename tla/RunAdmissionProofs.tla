------------------------- MODULE RunAdmissionProofs --------------------------
(***************************************************************************)
(* Proofs, for every finite set of requests and every limit, of the safety *)
(* properties of RunAdmission and of its refinement of BoundedGate.        *)
(***************************************************************************)
EXTENDS RunAdmission, FiniteSetTheorems, TLAPS

-----------------------------------------------------------------------------
(* The sizes of the sets of runs the counters stand for.                   *)

\* A set of runs is finite, its size is a natural number, zero only if empty.
LEMMA RunSetFinite ==
  ASSUME NEW S \in SUBSET Runs
  PROVE  IsFiniteSet(S) /\ Cardinality(S) \in Nat /\ (Cardinality(S) = 0 <=> S = {})
BY RunsAssumption, FS_Subset, FS_CardinalityType, FS_EmptySet

\* Adding a run that is not in a set adds one to its size, removing a member takes one.
LEMMA RunSetStep ==
  ASSUME NEW S \in SUBSET Runs, NEW r \in Runs
  PROVE  /\ r \notin S => Cardinality(S \cup {r}) = Cardinality(S) + 1
         /\ r \in S => Cardinality(S \ {r}) = Cardinality(S) - 1
BY RunSetFinite, FS_AddElement, FS_RemoveElement

\* InFlight grows by the run store.create is called for.
LEMMA InFlightEnter ==
  ASSUME TypeOK, NEW r \in Runs, Move(r, "new", "creating")
  PROVE  /\ InFlight' = InFlight \cup {r}
         /\ Unsettled' = Unsettled \cup {r}
         /\ Cardinality(InFlight') = Cardinality(InFlight) + 1
<1>1. r \notin InFlight /\ InFlight \subseteq Runs
  BY DEF Move, InFlight
<1>2. InFlight' = InFlight \cup {r}
  BY DEF Move, InFlight, TypeOK
<1>3. Unsettled' = Unsettled \cup {r}
  BY DEF Move, Unsettled, TypeOK
<1>4. QED
  BY <1>1, <1>2, <1>3, RunSetStep

\* InFlight shrinks by the run whose create failed or whose finally block ran.
LEMMA InFlightLeave ==
  ASSUME TypeOK, NEW r \in Runs,
         Move(r, "creating", "aborted") \/ Move(r, "executing", "finished")
  PROVE  /\ InFlight' = InFlight \ {r}
         /\ Cardinality(InFlight') = Cardinality(InFlight) - 1
         /\ Cardinality(InFlight) \in Nat \ {0}
<1>1. r \in InFlight /\ InFlight \subseteq Runs
  BY DEF Move, InFlight
<1>2. InFlight' = InFlight \ {r}
  BY DEF Move, InFlight, TypeOK
<1>3. QED
  BY <1>1, <1>2, RunSetStep, RunSetFinite

\* The other moves of a run leave InFlight alone.
LEMMA InFlightSame ==
  ASSUME TypeOK, NEW r \in Runs,
         \/ Move(r, "new", "refused")
         \/ Move(r, "creating", "accepted")
         \/ Move(r, "accepted", "executing")
         \/ Move(r, "finished", "settled")
  PROVE  InFlight' = InFlight
BY DEF Move, InFlight, TypeOK

\* A promise is resolved by the two moves that end a run, and by no other.
LEMMA UnsettledLeave ==
  ASSUME TypeOK, NEW r \in Runs,
         Move(r, "creating", "aborted") \/ Move(r, "finished", "settled")
  PROVE  Unsettled' = Unsettled \ {r}
BY DEF Move, Unsettled, TypeOK

LEMMA UnsettledSame ==
  ASSUME TypeOK, NEW r \in Runs,
         \/ Move(r, "new", "refused")
         \/ Move(r, "creating", "accepted")
         \/ Move(r, "accepted", "executing")
         \/ Move(r, "executing", "finished")
  PROVE  Unsettled' = Unsettled
BY DEF Move, Unsettled, TypeOK

-----------------------------------------------------------------------------
(* Admission, capacity and shutdown.                                       *)

LEMMA AdmissionInit == Init => AdmissionInv
<1> SUFFICES ASSUME Init PROVE AdmissionInv
  OBVIOUS
<1>1. TypeOK
  BY DEF Init, TypeOK, States, Verdicts, Phases
<1>2. InFlight = {} /\ Unsettled = {}
  BY DEF Init, InFlight, Unsettled
<1>3. QED
  BY <1>1, <1>2, FS_EmptySet, LimitAssumption DEF AdmissionInv, CapacityExact, DrainCoversInFlight, Init

\* Every step keeps the admission invariant: start takes its unit of capacity
\* and its promise before the first await, every path gives both back once.
LEMMA AdmissionStep == AdmissionInv /\ [Next]_vars => AdmissionInv'
<1> SUFFICES ASSUME AdmissionInv, [Next]_vars
             PROVE  AdmissionInv'
  OBVIOUS
<1> USE LimitAssumption DEF AdmissionInv, CapacityExact, DrainCoversInFlight
<1>0. Cardinality(InFlight) \in Nat /\ Unsettled \subseteq Runs
  BY RunSetFinite DEF InFlight, Unsettled
<1>1. ASSUME NEW r \in Runs, StartWhileDraining(r)
      PROVE  AdmissionInv'
  <2>1. TypeOK'
    BY <1>0, <1>1 DEF StartWhileDraining, Move, Tell, TypeOK, States, Verdicts,
       serviceVars, counters, endCounters, shutdownVars
  <2>2. InFlight' = InFlight /\ Unsettled' = Unsettled
    BY <1>1, InFlightSame, UnsettledSame DEF StartWhileDraining
  <2>3. QED
    BY <1>0, <1>1, <2>1, <2>2 DEF StartWhileDraining, serviceVars, counters, endCounters, shutdownVars
<1>2. ASSUME NEW r \in Runs, StartAtCapacity(r)
      PROVE  AdmissionInv'
  <2>1. TypeOK'
    BY <1>0, <1>2 DEF StartAtCapacity, Move, Tell, TypeOK, States, Verdicts,
       serviceVars, counters, endCounters, shutdownVars
  <2>2. InFlight' = InFlight /\ Unsettled' = Unsettled
    BY <1>2, InFlightSame, UnsettledSame DEF StartAtCapacity
  <2>3. QED
    BY <1>0, <1>2, <2>1, <2>2 DEF StartAtCapacity, serviceVars, counters, endCounters, shutdownVars
<1>3. ASSUME NEW r \in Runs, StartAdmitted(r)
      PROVE  AdmissionInv'
  <2>1. TypeOK'
    BY <1>0, <1>3 DEF StartAdmitted, Move, Tell, TypeOK, States, Verdicts,
       serviceVars, counters, endCounters, shutdownVars
  <2>2. Cardinality(InFlight') = Cardinality(InFlight) + 1 /\ Unsettled' = Unsettled \cup {r}
    BY <1>3, InFlightEnter DEF StartAdmitted
  <2>3. QED
    BY <1>0, <1>3, <2>1, <2>2 DEF StartAdmitted, serviceVars, counters, endCounters, shutdownVars
<1>4. ASSUME NEW r \in Runs, CreateSucceeds(r)
      PROVE  AdmissionInv'
  <2>1. TypeOK'
    BY <1>0, <1>4 DEF CreateSucceeds, Move, Tell, TypeOK, States, Verdicts,
       serviceVars, counters, endCounters, shutdownVars
  <2>2. InFlight' = InFlight /\ Unsettled' = Unsettled
    BY <1>4, InFlightSame, UnsettledSame DEF CreateSucceeds
  <2>3. QED
    BY <1>0, <1>4, <2>1, <2>2 DEF CreateSucceeds, serviceVars, counters, endCounters, shutdownVars
<1>5. ASSUME NEW r \in Runs, NEW storeFull \in BOOLEAN, CreateFails(r, storeFull)
      PROVE  AdmissionInv'
  <2>0. /\ Cardinality(InFlight') = Cardinality(InFlight) - 1
        /\ Cardinality(InFlight) \in Nat \ {0}
    BY <1>5, InFlightLeave DEF CreateFails
  <2>1. TypeOK'
    BY <1>0, <1>5, <2>0 DEF CreateFails, Move, Tell, TypeOK, States, Verdicts,
       serviceVars, counters, endCounters, shutdownVars
  <2>2. Unsettled' = Unsettled \ {r}
    BY <1>5, UnsettledLeave DEF CreateFails
  <2>3. QED
    BY <1>0, <1>5, <2>0, <2>1, <2>2 DEF CreateFails, serviceVars, counters, endCounters, shutdownVars
<1>6. ASSUME NEW r \in Runs, ExecuteBegins(r)
      PROVE  AdmissionInv'
  <2>1. TypeOK'
    BY <1>0, <1>6 DEF ExecuteBegins, Move, Tell, TypeOK, States, Verdicts,
       serviceVars, counters, endCounters, shutdownVars
  <2>2. InFlight' = InFlight /\ Unsettled' = Unsettled
    BY <1>6, InFlightSame, UnsettledSame DEF ExecuteBegins
  <2>3. QED
    BY <1>0, <1>6, <2>1, <2>2 DEF ExecuteBegins, serviceVars, counters, endCounters, shutdownVars
<1>7. ASSUME NEW r \in Runs, NEW outcome \in {"passed", "failed"}, ExecuteFinally(r, outcome)
      PROVE  AdmissionInv'
  <2>0. /\ Cardinality(InFlight') = Cardinality(InFlight) - 1
        /\ Cardinality(InFlight) \in Nat \ {0}
    BY <1>7, InFlightLeave DEF ExecuteFinally
  <2>1. TypeOK'
    BY <1>0, <1>7, <2>0 DEF ExecuteFinally, Move, Tell, TypeOK, States, Verdicts,
       serviceVars, counters, endCounters, shutdownVars
  <2>2. Unsettled' = Unsettled
    BY <1>7, UnsettledSame DEF ExecuteFinally
  <2>3. QED
    BY <1>0, <1>7, <2>0, <2>1, <2>2 DEF ExecuteFinally, serviceVars, counters, endCounters, shutdownVars
<1>8. ASSUME NEW r \in Runs, ExecutionResolves(r)
      PROVE  AdmissionInv'
  <2>1. TypeOK'
    BY <1>0, <1>8 DEF ExecutionResolves, Move, Tell, TypeOK, States, Verdicts,
       serviceVars, counters, endCounters, shutdownVars
  <2>2. InFlight' = InFlight /\ Unsettled' = Unsettled \ {r}
    BY <1>8, InFlightSame, UnsettledLeave DEF ExecutionResolves
  <2>3. QED
    BY <1>0, <1>8, <2>1, <2>2 DEF ExecutionResolves, serviceVars, counters, endCounters, shutdownVars
<1>9. ASSUME Signal \/ DrainResolves \/ DrainDeadline \/ Exit
      PROVE  AdmissionInv'
  <2>1. InFlight' = InFlight /\ Unsettled' = Unsettled
    BY <1>9 DEF Signal, DrainResolves, DrainDeadline, Exit, InFlight, Unsettled
  <2>2. TypeOK'
    BY <1>9 DEF Signal, DrainResolves, DrainDeadline, Exit, TypeOK, Phases,
       serviceVars, counters, endCounters
  <2>3. QED
    BY <1>9, <2>1, <2>2 DEF Signal, DrainResolves, DrainDeadline, Exit, serviceVars, Phases, TypeOK
<1>10. CASE UNCHANGED vars
  BY <1>10 DEF vars, serviceVars, counters, endCounters, shutdownVars, TypeOK, InFlight, Unsettled
<1>11. QED
  BY <1>1, <1>2, <1>3, <1>4, <1>5, <1>6, <1>7, <1>8, <1>9, <1>10 DEF Next, RunStep

LEMMA AdmissionInvariant == Spec => []AdmissionInv
BY AdmissionInit, AdmissionStep, PTL DEF Spec

\* Type correctness of RunAdmission. That #activeRuns stays a natural number is
\* not a matter of types: it holds because every decrement has its increment.
THEOREM TypeCorrect == Spec => []TypeOK
<1>1. AdmissionInv => TypeOK
  BY DEF AdmissionInv
<1>2. QED
  BY <1>1, AdmissionInvariant, PTL

\* #activeRuns always equals the number of runs in flight and never exceeds
\* maxConcurrentRuns, for every number of requests and every limit.
THEOREM CapacityCorrect == Spec => []CapacityExact
<1>1. AdmissionInv => CapacityExact
  BY DEF AdmissionInv
<1>2. QED
  BY <1>1, AdmissionInvariant, PTL

\* Once the signal arrived, what drain() waits for covers every unsettled run.
THEOREM DrainCorrect == Spec => []DrainCoversInFlight
<1>1. AdmissionInv => DrainCoversInFlight
  BY DEF AdmissionInv
<1>2. QED
  BY <1>1, AdmissionInvariant, PTL

\* A shutdown that was not cut by its deadline closes with no run in flight.
THEOREM CloseCorrect == Spec => []OrderlyClose
<1>1. AdmissionInv => OrderlyClose
  BY DEF AdmissionInv, OrderlyClose, InFlight, Unsettled
<1>2. QED
  BY <1>1, AdmissionInvariant, PTL

-----------------------------------------------------------------------------
(* Metrics: every start is counted exactly once.                           *)

\* Giving a run without a verdict its verdict moves it between two of the sets
\* the counters are the sizes of, and touches no other.
LEMMA TellStep ==
  ASSUME TypeOK, NEW r \in Runs, NEW v \in Verdicts \ {"none"},
         verdict[r] = "none", Tell(r, v)
  PROVE  /\ Cardinality(Told(v)') = Cardinality(Told(v)) + 1
         /\ \A w \in Verdicts \ {"none", v} : Told(w)' = Told(w)
<1>1. Told(v) \in SUBSET Runs /\ r \notin Told(v)
  BY DEF Told, Verdicts
<1>2. Told(v)' = Told(v) \cup {r}
  BY DEF Tell, Told, TypeOK
<1>3. \A w \in Verdicts \ {"none", v} : Told(w)' = Told(w)
  BY DEF Tell, Told, TypeOK
<1>4. QED
  BY <1>1, <1>2, <1>3, RunSetStep

LEMMA ToldSame ==
  ASSUME UNCHANGED verdict, NEW w
  PROVE  Told(w)' = Told(w)
BY DEF Told

LEMMA MetricsInit == Init => MetricsInv
<1> SUFFICES ASSUME Init PROVE MetricsInv
  OBVIOUS
<1>1. \A v \in Verdicts \ {"none"} : Told(v) = {}
  BY DEF Init, Told, Verdicts
<1>2. QED
  BY <1>1, FS_EmptySet DEF MetricsInv, MetricsExact, Init, Verdicts

\* Each counter moves together with the set of runs it counts.
LEMMA MetricsStep == AdmissionInv /\ MetricsInv /\ [Next]_vars => MetricsInv'
<1> SUFFICES ASSUME AdmissionInv, MetricsInv, [Next]_vars
             PROVE  MetricsInv'
  OBVIOUS
<1> USE DEF MetricsInv, MetricsExact
<1>0. TypeOK
  BY DEF AdmissionInv
<1>a. {"passed", "failed", "capacity", "draining", "fault"} \subseteq Verdicts \ {"none"}
  BY DEF Verdicts
<1>1. ASSUME NEW r \in Runs, StartWhileDraining(r)
      PROVE  MetricsInv'
  <2>1. verdict[r] = "none"
    BY <1>1 DEF StartWhileDraining, Move
  <2>2. /\ Cardinality(Told("draining")') = Cardinality(Told("draining")) + 1
        /\ \A w \in Verdicts \ {"none", "draining"} : Told(w)' = Told(w)
    BY <1>0, <1>a, <1>1, <2>1, TellStep DEF StartWhileDraining
  <2>3. QED
    BY <1>0, <1>a, <1>1, <2>2 DEF StartWhileDraining, Move, Tell, TypeOK, endCounters
<1>2. ASSUME NEW r \in Runs, StartAtCapacity(r)
      PROVE  MetricsInv'
  <2>1. verdict[r] = "none"
    BY <1>2 DEF StartAtCapacity, Move
  <2>2. /\ Cardinality(Told("capacity")') = Cardinality(Told("capacity")) + 1
        /\ \A w \in Verdicts \ {"none", "capacity"} : Told(w)' = Told(w)
    BY <1>0, <1>a, <1>2, <2>1, TellStep DEF StartAtCapacity
  <2>3. QED
    BY <1>0, <1>a, <1>2, <2>2 DEF StartAtCapacity, Move, Tell, TypeOK, endCounters
<1>3. ASSUME NEW r \in Runs, CreateFails(r, TRUE)
      PROVE  MetricsInv'
  <2>1. verdict[r] = "none"
    BY <1>3 DEF CreateFails, Move
  <2>2. /\ Cardinality(Told("capacity")') = Cardinality(Told("capacity")) + 1
        /\ \A w \in Verdicts \ {"none", "capacity"} : Told(w)' = Told(w)
    BY <1>0, <1>a, <1>3, <2>1, TellStep DEF CreateFails
  <2>3. QED
    BY <1>0, <1>a, <1>3, <2>2 DEF CreateFails, Move, Tell, TypeOK, endCounters
<1>4. ASSUME NEW r \in Runs, CreateFails(r, FALSE)
      PROVE  MetricsInv'
  <2>1. verdict[r] = "none"
    BY <1>4 DEF CreateFails, Move
  <2>2. \A w \in Verdicts \ {"none", "fault"} : Told(w)' = Told(w)
    BY <1>0, <1>a, <1>4, <2>1, TellStep DEF CreateFails
  <2>3. QED
    BY <1>0, <1>a, <1>4, <2>2 DEF CreateFails, Move, Tell, TypeOK, endCounters
<1>5. ASSUME NEW r \in Runs, NEW outcome \in {"passed", "failed"}, ExecuteFinally(r, outcome)
      PROVE  MetricsInv'
  <2>1. verdict[r] = "none"
    BY <1>5 DEF ExecuteFinally, Move
  <2>2. /\ Cardinality(Told(outcome)') = Cardinality(Told(outcome)) + 1
        /\ \A w \in Verdicts \ {"none", outcome} : Told(w)' = Told(w)
    BY <1>0, <1>a, <1>5, <2>1, TellStep DEF ExecuteFinally
  <2>3. CASE outcome = "passed"
    BY <1>0, <1>a, <1>5, <2>2, <2>3 DEF ExecuteFinally, Move, Tell, TypeOK
  <2>4. CASE outcome = "failed"
    BY <1>0, <1>a, <1>5, <2>2, <2>4 DEF ExecuteFinally, Move, Tell, TypeOK
  <2>5. QED
    BY <2>3, <2>4
<1>6. ASSUME NEW r \in Runs,
             \/ StartAdmitted(r)
             \/ CreateSucceeds(r)
             \/ ExecuteBegins(r)
             \/ ExecutionResolves(r)
      PROVE  MetricsInv'
  <2>1. UNCHANGED verdict /\ UNCHANGED counters
    BY <1>6 DEF StartAdmitted, CreateSucceeds, ExecuteBegins, ExecutionResolves
  <2>2. \A q \in Runs : pc'[q] \in {"new", "creating", "accepted", "executing"}
                          => pc[q] \in {"new", "creating", "accepted", "executing"}
    BY <1>0, <1>6 DEF StartAdmitted, CreateSucceeds, ExecuteBegins, ExecutionResolves, Move, TypeOK
  <2>3. QED
    BY <2>1, <2>2, ToldSame DEF counters, endCounters
<1>7. ASSUME Signal \/ DrainResolves \/ DrainDeadline \/ Exit \/ UNCHANGED vars
      PROVE  MetricsInv'
  <2>1. UNCHANGED <<pc, verdict, counters>>
    BY <1>7 DEF Signal, DrainResolves, DrainDeadline, Exit, vars
  <2>2. QED
    BY <2>1, ToldSame DEF counters, endCounters
<1>8. QED
  BY <1>1, <1>2, <1>3, <1>4, <1>5, <1>6, <1>7 DEF Next, RunStep

\* Whatever the interleaving of starts, executions and shutdown, each metric is
\* the number of runs whose caller or log entry was told that outcome.
THEOREM MetricsCorrect == Spec => []MetricsExact
<1>1. MetricsInv => MetricsExact
  BY DEF MetricsInv
<1>2. QED
  BY <1>1, MetricsInit, MetricsStep, AdmissionInvariant, PTL DEF Spec

\* All the counters of the service, the gauge it admits by and the totals it reports, are
\* exact at every moment.
THEOREM CountersCorrect == Spec => []CountersExact
<1>1. CapacityExact /\ MetricsExact => CountersExact
  BY DEF CountersExact
<1>2. QED
  BY <1>1, CapacityCorrect, MetricsCorrect, PTL

-----------------------------------------------------------------------------
(* Refinement of the abstract gate.                                        *)

\* The cardinality BoundedGate compares with its limit is that of FiniteSets.
LEMMA GateCardinality == Gate!Cardinality(InFlight) = Cardinality(InFlight)
BY DEF Gate!Cardinality, Cardinality, Gate!IsFiniteSet, IsFiniteSet

LEMMA RefinementInit == Init => Gate!GateInit
<1> SUFFICES ASSUME Init PROVE Gate!GateInit
  OBVIOUS
<1>1. QED
  BY DEF Init, Gate!GateInit, InFlight, Released, Refused

\* Admission, refusal, release and the signal are the steps of the gate; every
\* other step of the service is invisible to it.
LEMMA RefinementStep == AdmissionInv /\ [Next]_vars => [Gate!GateNext]_(Gate!gateVars)
<1> SUFFICES ASSUME AdmissionInv, [Next]_vars
             PROVE  [Gate!GateNext]_(Gate!gateVars)
  OBVIOUS
<1> USE DEF Gate!gateVars
<1>0. TypeOK /\ CapacityExact
  BY DEF AdmissionInv
<1>1. ASSUME NEW r \in Runs, StartWhileDraining(r) \/ StartAtCapacity(r)
      PROVE  Gate!Refuse(r)
  <2>1. Move(r, "new", "refused") /\ UNCHANGED draining
    BY <1>1 DEF StartWhileDraining, StartAtCapacity, shutdownVars
  <2>2. draining \/ Cardinality(InFlight) >= MaxConcurrentRuns
    BY <1>0, <1>1 DEF StartWhileDraining, StartAtCapacity, CapacityExact
  <2>3. InFlight' = InFlight
    BY <1>0, <2>1, InFlightSame
  <2>4. Released' = Released /\ Refused' = Refused \cup {r}
    BY <1>0, <2>1 DEF Move, Released, Refused, TypeOK
  <2>5. r \notin InFlight \cup Released \cup Refused
    BY <2>1 DEF Move, InFlight, Released, Refused
  <2>6. QED
    BY <2>1, <2>2, <2>3, <2>4, <2>5, GateCardinality DEF Gate!Refuse, Gate!Fresh
<1>2. ASSUME NEW r \in Runs, StartAdmitted(r)
      PROVE  Gate!Enter(r)
  <2>1. Move(r, "new", "creating") /\ UNCHANGED draining /\ ~draining
    BY <1>2 DEF StartAdmitted, shutdownVars
  <2>2. Cardinality(InFlight) < MaxConcurrentRuns
    BY <1>0, <1>2 DEF StartAdmitted, CapacityExact
  <2>3. InFlight' = InFlight \cup {r}
    BY <1>0, <2>1, InFlightEnter
  <2>4. Released' = Released /\ Refused' = Refused
    BY <1>0, <2>1 DEF Move, Released, Refused, TypeOK
  <2>5. r \notin InFlight \cup Released \cup Refused
    BY <2>1 DEF Move, InFlight, Released, Refused
  <2>6. QED
    BY <2>1, <2>2, <2>3, <2>4, <2>5, GateCardinality DEF Gate!Enter, Gate!Fresh
<1>3. ASSUME NEW r \in Runs, Move(r, "creating", "aborted") \/ Move(r, "executing", "finished"),
             UNCHANGED draining
      PROVE  Gate!Leave(r)
  <2>1. InFlight' = InFlight \ {r}
    BY <1>0, <1>3, InFlightLeave
  <2>2. Released' = Released \cup {r} /\ Refused' = Refused /\ r \in InFlight
    BY <1>0, <1>3 DEF Move, InFlight, Released, Refused, TypeOK
  <2>3. QED
    BY <1>3, <2>1, <2>2 DEF Gate!Leave
<1>4. ASSUME NEW r \in Runs,
             \/ Move(r, "creating", "accepted")
             \/ Move(r, "accepted", "executing")
             \/ Move(r, "finished", "settled"),
             UNCHANGED draining
      PROVE  UNCHANGED Gate!gateVars
  BY <1>0, <1>4 DEF Move, InFlight, Released, Refused, TypeOK
<1>5. ASSUME Signal
      PROVE  Gate!Close
  BY <1>5 DEF Signal, AdmissionInv, Gate!Close, InFlight, Released, Refused
<1>6. ASSUME DrainResolves \/ DrainDeadline \/ Exit \/ UNCHANGED vars
      PROVE  UNCHANGED Gate!gateVars
  BY <1>6 DEF DrainResolves, DrainDeadline, Exit, vars, shutdownVars, InFlight, Released, Refused
<1>7. QED
  BY <1>1, <1>2, <1>3, <1>4, <1>5, <1>6
     DEF Next, RunStep, Gate!GateNext, CreateSucceeds, CreateFails, ExecuteBegins,
         ExecuteFinally, ExecutionResolves, shutdownVars

\* The run service implements the gate: every request enters at most once, at
\* most maxConcurrentRuns are inside, and nobody enters after drain() was called.
THEOREM GateImplemented == Spec => ImplementsGate
BY RefinementInit, RefinementStep, AdmissionInvariant, PTL DEF Spec, ImplementsGate, Gate!GateSpec

=============================================================================
