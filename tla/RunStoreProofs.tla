---------------------------- MODULE RunStoreProofs ----------------------------
(***************************************************************************)
(* Proofs about the two stores of run-store.ts. Of the one in memory, for  *)
(* every set of runs, every bound and every retention period: what it      *)
(* keeps and what it gives up. Of pruneExpired, for any number of runs,    *)
(* operators and failing statements: that the audit and the totals printed *)
(* account for every run that is gone.                                     *)
(***************************************************************************)
EXTENDS RunRetention, PruneRuns, FiniteSetTheorems, WellFoundedInduction, TLAPS

-----------------------------------------------------------------------------
(* The sets of runs and the order of insertion.                            *)

\* A set of runs is finite, and no larger than a set that contains it.
LEMMA RunSetFinite ==
  ASSUME NEW S \in SUBSET Runs, NEW T \in SUBSET S
  PROVE  /\ IsFiniteSet(S) /\ Cardinality(S) \in Nat
         /\ IsFiniteSet(T) /\ Cardinality(T) \in Nat
         /\ Cardinality(T) <= Cardinality(S)
<1>1. IsFiniteSet(S)
  BY ConstantsAssumption, FS_Subset
<1>2. IsFiniteSet(T) /\ Cardinality(T) <= Cardinality(S)
  BY <1>1, FS_Subset
<1>3. QED
  BY <1>1, <1>2, FS_CardinalityType

\* Every nonempty set of runs has a member that was inserted first.
LEMMA FirstInserted ==
  ASSUME position \in [Runs -> Nat], NEW S \in SUBSET Runs, S # {}
  PROVE  \E r \in S : \A q \in S : position[r] <= position[q]
<1> DEFINE Before(r) == {q \in S : position[q] < position[r]}
           Segments == {Before(r) : r \in S}
           R == StrictSubsetOrdering(S)
<1>1. IsFiniteSet(S)
  BY RunSetFinite
<1>2. Segments \subseteq FiniteSubsetsOf(S) /\ Segments # {}
  <2>1. FiniteSubsetsOf(S) = SUBSET S
    BY <1>1, FS_FiniteSubsetsOfFinite
  <2>2. Segments \subseteq SUBSET S /\ Segments # {}
    OBVIOUS
  <2>3. QED
    BY <2>1, <2>2
<1>3. IsWellFoundedOn(R, FiniteSubsetsOf(S))
  BY FS_StrictSubsetOrderingWellFounded
<1> HIDE DEF R
<1>4. PICK D \in Segments : \A E \in Segments : <<E, D>> \notin R
  <2> HIDE DEF Segments
  <2>1. QED
    BY <1>2, <1>3, WFMin
<1>5. PICK r \in S : D = Before(r)
  BY <1>4
<1>6. ASSUME NEW q \in S, position[q] < position[r]
      PROVE  FALSE
  <2>1. q \in Before(r) /\ q \notin Before(q) /\ Before(q) \subseteq Before(r)
    BY <1>6
  <2>2. <<Before(q), Before(r)>> \in R
    BY <2>1 DEF R, StrictSubsetOrdering
  <2>3. QED
    BY <1>4, <1>5, <2>2
<1>7. QED
  BY <1>6

\* removeExpired leaves runs that were stored, and all those that are not complete.
LEMMA KeptFacts ==
  ASSUME RetentionInv
  PROVE  /\ Kept \in SUBSET stored /\ Kept \in SUBSET Runs
         /\ Cardinality(Kept) \in Nat /\ Cardinality(Kept) <= MaxEntries
         /\ \A r \in executing : ~Terminal(r) => r \in Kept
         /\ Evictable \in SUBSET Kept
<1>1. Kept \in SUBSET stored /\ stored \in SUBSET Runs /\ Evictable \in SUBSET Kept
  BY DEF Kept, Evictable, RetentionInv, TypeOK
<1>2. Cardinality(Kept) \in Nat /\ Cardinality(stored) \in Nat /\ Cardinality(Kept) <= Cardinality(stored)
  BY <1>1, RunSetFinite
<1>3. Cardinality(Kept) <= MaxEntries
  BY <1>2, ConstantsAssumption DEF RetentionInv, StoreBounded
<1>4. \A r \in executing : ~Terminal(r) => r \in Kept
  BY DEF Kept, RetentionInv, ActiveRunsKept
<1>5. QED
  BY <1>1, <1>2, <1>3, <1>4

\* The evicted report is complete, and no complete one was inserted before it.
LEMMA VictimFacts ==
  ASSUME RetentionInv, Evictable # {}
  PROVE  /\ Victim \in Kept /\ Terminal(Victim)
         /\ \A q \in Evictable : position[Victim] <= position[q]
<1>1. Evictable \in SUBSET Runs /\ position \in [Runs -> Nat]
  BY KeptFacts DEF RetentionInv, TypeOK
<1>2. \E r \in Evictable : \A q \in Evictable : position[r] <= position[q]
  BY <1>1, FirstInserted
<1>3. Victim \in Evictable /\ \A q \in Evictable : position[Victim] <= position[q]
  BY <1>2 DEF Victim
<1>4. QED
  BY <1>3 DEF Evictable

-----------------------------------------------------------------------------
(* The inductive invariant.                                                *)

LEMMA RetentionInit == Init => RetentionInv
<1> SUFFICES ASSUME Init PROVE RetentionInv
  OBVIOUS
<1>1. Cardinality({}) = 0
  BY FS_EmptySet
<1>2. TypeOK
  BY ConstantsAssumption DEF Init, TypeOK, Active
<1>3. QED
  BY <1>1, <1>2, ConstantsAssumption
     DEF Init, RetentionInv, ActiveRunsKept, StoreBounded

\* A start whose new report finds room, whether or not it had to be made: what is kept
\* of the store has a free entry and holds every report that is still updated.
LEMMA InsertStep ==
  ASSUME RetentionInv, NEW r \in Runs, Admitted(r), NEW base \in SUBSET Kept,
         Cardinality(base) < MaxEntries,
         \A q \in executing : ~Terminal(q) => q \in base,
         Insert(r, base), executing' = executing \cup {r},
         UNCHANGED <<now, completedAt, refused>>
  PROVE  RetentionInv'
<1> USE DEF RetentionInv
<1>1. base \in SUBSET stored /\ stored \in SUBSET Runs /\ base \in SUBSET Runs /\ executing \in SUBSET Runs
  BY KeptFacts DEF TypeOK
<1>2. r \notin base /\ r \notin executing /\ position[r] = 0 /\ completedAt[r] = Active
  BY <1>1 DEF Admitted, New
<1>3. position' = [position EXCEPT ![r] = inserted + 1] /\ inserted' = inserted + 1 /\ stored' = base \cup {r}
  BY DEF Insert
<1>4. TypeOK'
  BY <1>1, <1>3 DEF TypeOK
<1>5. ActiveRunsKept'
  BY <1>3 DEF ActiveRunsKept, Terminal
<1>6. StoreBounded'
  <2>1. IsFiniteSet(base) /\ Cardinality(base) \in Nat
    BY <1>1, RunSetFinite
  <2>2. Cardinality(base \cup {r}) = Cardinality(base) + 1
    BY <1>2, <2>1, FS_AddElement
  <2>3. QED
    BY <1>3, <2>1, <2>2, ConstantsAssumption DEF StoreBounded
<1>7. (\A q \in stored : position[q] > 0 /\ (Terminal(q) \/ q \in executing))'
  BY <1>1, <1>3 DEF TypeOK, Terminal
<1>8. (\A q \in executing : position[q] > 0)'
  BY <1>1, <1>3 DEF TypeOK
<1>9. (\A q \in Runs : position[q] = 0 => completedAt[q] = Active)'
  BY <1>3 DEF TypeOK
<1>10. (\A q \in Runs : position[q] <= inserted)'
  BY <1>3 DEF TypeOK
<1>11. (\A q, p \in Runs : position[q] = position[p] /\ position[q] > 0 => q = p)'
  <2> SUFFICES ASSUME NEW q \in Runs, NEW p \in Runs, position'[q] = position'[p], position'[q] > 0
               PROVE  q = p
    OBVIOUS
  <2>1. CASE q = r \/ p = r
    BY <1>3, <2>1 DEF TypeOK
  <2>2. CASE q # r /\ p # r
    BY <1>3, <2>2 DEF TypeOK
  <2>3. QED
    BY <2>1, <2>2
<1>12. (Cardinality(executing) <= MaxConcurrentRuns)'
  <2>1. IsFiniteSet(executing) /\ Cardinality(executing) \in Nat
    BY <1>1, RunSetFinite
  <2>2. Cardinality(executing \cup {r}) = Cardinality(executing) + 1
    BY <1>2, <2>1, FS_AddElement
  <2>3. QED
    BY <2>1, <2>2, ConstantsAssumption DEF Admitted
<1>13. QED
  BY <1>4, <1>5, <1>6, <1>7, <1>8, <1>9, <1>10, <1>11, <1>12

\* A call that drops what has expired and leaves the rest of the store alone.
LEMMA PurgeStep ==
  ASSUME RetentionInv, stored' = Kept,
         UNCHANGED <<now, completedAt, position, inserted, executing>>, refused' \in SUBSET Runs
  PROVE  RetentionInv'
<1>1. TypeOK'
  BY KeptFacts DEF RetentionInv, TypeOK
<1>2. ActiveRunsKept' /\ StoreBounded'
  BY KeptFacts DEF ActiveRunsKept, StoreBounded, Terminal
<1>3. QED
  BY <1>1, <1>2, KeptFacts DEF RetentionInv, Terminal

\* Every step keeps the invariant: expiry and eviction take complete reports only, and a
\* run releases its capacity after its report is complete.
LEMMA RetentionStep == RetentionInv /\ [Next]_vars => RetentionInv'
<1> SUFFICES ASSUME RetentionInv, [Next]_vars
             PROVE  RetentionInv'
  OBVIOUS
<1>1. ASSUME NEW r \in Runs, StartWithRoom(r)
      PROVE  RetentionInv'
  BY <1>1, KeptFacts, InsertStep DEF StartWithRoom
<1>2. ASSUME NEW r \in Runs, StartEvicting(r)
      PROVE  RetentionInv'
  <2> DEFINE base == Kept \ {Victim}
  <2>1. Victim \in Kept /\ Terminal(Victim)
    BY <1>2, VictimFacts DEF StartEvicting
  <2>2. Cardinality(base) < MaxEntries
    <3>1. IsFiniteSet(Kept) /\ Cardinality(Kept) \in Nat
      BY KeptFacts, RunSetFinite
    <3>2. Cardinality(base) = Cardinality(Kept) - 1
      BY <2>1, <3>1, FS_RemoveElement
    <3>3. QED
      BY <3>1, <3>2, KeptFacts, ConstantsAssumption
  <2>3. \A q \in executing : ~Terminal(q) => q \in base
    BY <2>1, KeptFacts
  <2>4. base \in SUBSET Kept
    OBVIOUS
  <2>5. QED
    BY <1>2, <2>2, <2>3, <2>4, InsertStep DEF StartEvicting
<1>3. ASSUME NEW r \in Runs, StartRefused(r)
      PROVE  RetentionInv'
  BY <1>3, PurgeStep DEF StartRefused, RetentionInv, TypeOK
<1>4. ASSUME NEW r \in Runs, Progress(r)
      PROVE  RetentionInv'
  BY <1>4, PurgeStep DEF Progress, RetentionInv, TypeOK
<1>5. ASSUME NEW r \in Runs, Complete(r)
      PROVE  RetentionInv'
  <2>1. /\ completedAt' = [completedAt EXCEPT ![r] = now] /\ now \in 0..MaxTime
        /\ completedAt \in [Runs -> Active..MaxTime]
    BY <1>5 DEF Complete, RetentionInv, TypeOK
  <2>2. Terminal(r)' /\ \A q \in Runs : Terminal(q) => Terminal(q)'
    BY <2>1 DEF Terminal, Active
  <2>3. \A q \in Runs : q # r => completedAt'[q] = completedAt[q]
    BY <2>1
  <2>4. TypeOK'
    BY <1>5, <2>1, KeptFacts DEF Complete, RetentionInv, TypeOK, Active
  <2>5. ActiveRunsKept' /\ StoreBounded'
    BY <1>5, <2>2, <2>3, KeptFacts DEF Complete, ActiveRunsKept, StoreBounded, Terminal, RetentionInv, TypeOK
  <2>6. (\A q \in stored : position[q] > 0 /\ (Terminal(q) \/ q \in executing))'
    BY <1>5, <2>2, KeptFacts DEF Complete, RetentionInv
  <2>7. (\A q \in Runs : position[q] = 0 => completedAt[q] = Active)'
    BY <1>5, <2>3 DEF Complete, RetentionInv
  <2>8. QED
    BY <1>5, <2>4, <2>5, <2>6, <2>7 DEF Complete, RetentionInv
<1>6. ASSUME NEW r \in Runs, Release(r)
      PROVE  RetentionInv'
  <2>1. executing' = executing \ {r} /\ executing \in SUBSET Runs
    BY <1>6 DEF Release, RetentionInv, TypeOK
  <2>2. Cardinality(executing') <= MaxConcurrentRuns
    <3>1. executing' \in SUBSET executing
      BY <2>1
    <3>2. Cardinality(executing') <= Cardinality(executing) /\ Cardinality(executing') \in Nat /\ Cardinality(executing) \in Nat
      BY <2>1, <3>1, RunSetFinite
    <3>3. QED
      BY <3>2, ConstantsAssumption DEF RetentionInv
  <2>3. QED
    BY <1>6, <2>1, <2>2 DEF Release, RetentionInv, TypeOK, ActiveRunsKept, StoreBounded, Terminal
<1>7. ASSUME Read
      PROVE  RetentionInv'
  BY <1>7, PurgeStep DEF Read, RetentionInv, TypeOK
<1>8. ASSUME Tick
      PROVE  RetentionInv'
  BY <1>8, ConstantsAssumption
     DEF Tick, RetentionInv, TypeOK, ActiveRunsKept, StoreBounded, Terminal
<1>9. ASSUME UNCHANGED vars
      PROVE  RetentionInv'
  BY <1>9 DEF vars, RetentionInv, TypeOK, ActiveRunsKept, StoreBounded, Terminal
<1>10. QED
  BY <1>1, <1>2, <1>3, <1>4, <1>5, <1>6, <1>7, <1>8, <1>9 DEF Next

\* The inductive invariant holds in every reachable state.
THEOREM RetentionInvariant == Spec => []RetentionInv
<1>1. QED
  BY RetentionInit, RetentionStep, PTL DEF Spec

\* No execution finds its report gone: whatever expires and whoever needs room, the report
\* of an active run stays in the store.
THEOREM ActiveRunsStay == Spec => []ActiveRunsKept
<1>1. RetentionInv => ActiveRunsKept
  BY DEF RetentionInv
<1>2. QED
  BY <1>1, RetentionInvariant, PTL

\* The store never holds more than maxEntries reports.
THEOREM StoreStaysBounded == Spec => []StoreBounded
<1>1. RetentionInv => StoreBounded
  BY DEF RetentionInv
<1>2. QED
  BY <1>1, RetentionInvariant, PTL

-----------------------------------------------------------------------------
(* What leaves the store, and what it turns away.                          *)

\* What a call drops because it expired.
LEMMA ExpiredLeaves ==
  ASSUME RetentionInv, NEW r \in stored, r \notin Kept
  PROVE  Terminal(r) /\ completedAt[r] + RetentionMs <= now
<1>1. r \in Runs /\ completedAt[r] \in Int /\ now \in Int /\ RetentionMs \in Int
  BY ConstantsAssumption DEF RetentionInv, TypeOK, Active
<1>2. QED
  BY <1>1 DEF Kept

\* The report that makes room: the store is full again with the new one, and what is
\* complete and stays was inserted later.
LEMMA EvictionStep ==
  ASSUME RetentionInv, NEW r \in Runs, StartEvicting(r)
  PROVE  /\ Victim \in Kept /\ Terminal(Victim)
         /\ r \in stored' /\ r \notin stored
         /\ stored' = (Kept \ {Victim}) \cup {r}
         /\ Cardinality(stored') = MaxEntries
         /\ \A q \in stored \cap stored' : Terminal(q) => position[Victim] < position[q]
<1>1. Victim \in Kept /\ Terminal(Victim) /\ \A q \in Evictable : position[Victim] <= position[q]
  BY VictimFacts DEF StartEvicting
<1>2. stored' = (Kept \ {Victim}) \cup {r} /\ r \notin stored
  BY DEF StartEvicting, Insert, Admitted, New, RetentionInv
<1>3. Cardinality(stored') = MaxEntries
  <2>1. /\ IsFiniteSet(Kept) /\ Cardinality(Kept) \in Nat
        /\ Cardinality(Kept) <= MaxEntries /\ Cardinality(Kept) >= MaxEntries /\ r \notin Kept
    BY <1>2, KeptFacts, RunSetFinite DEF StartEvicting
  <2>2. IsFiniteSet(Kept \ {Victim}) /\ Cardinality(Kept \ {Victim}) = Cardinality(Kept) - 1
    BY <1>1, <2>1, FS_RemoveElement
  <2>3. Cardinality((Kept \ {Victim}) \cup {r}) = Cardinality(Kept \ {Victim}) + 1
    BY <2>1, <2>2, FS_AddElement
  <2>4. QED
    BY <1>2, <2>1, <2>2, <2>3, ConstantsAssumption
<1>4. ASSUME NEW q \in stored \cap stored', Terminal(q)
      PROVE  position[Victim] < position[q]
  <2>1. q \in Evictable /\ q # Victim
    BY <1>2, <1>4 DEF Evictable
  <2>2. q \in Runs /\ Victim \in Runs /\ position[q] \in Nat /\ position[Victim] \in Nat
    BY <1>1, KeptFacts, <1>4 DEF RetentionInv, TypeOK
  <2>3. position[q] # position[Victim]
    BY <1>4, <2>1, <2>2 DEF RetentionInv
  <2>4. QED
    BY <1>1, <2>1, <2>2, <2>3
<1>5. QED
  BY <1>1, <1>2, <1>3, <1>4

\* A run is turned away only while every report is active and every entry is taken.
LEMMA RefusalStep ==
  ASSUME RetentionInv, [Next]_vars, refused' # refused
  PROVE  /\ stored' \subseteq executing
         /\ Cardinality(stored') = MaxEntries
         /\ MaxEntries < MaxConcurrentRuns
<1>1. PICK r \in Runs : StartRefused(r)
  BY DEF Next, vars, StartWithRoom, StartEvicting, Progress, Complete, Release, Read, Tick
<1>2. stored' = Kept /\ Kept \subseteq executing
  BY <1>1, KeptFacts DEF StartRefused, Evictable, RetentionInv
<1>3. Cardinality(stored') = MaxEntries
  BY <1>1, <1>2, KeptFacts, ConstantsAssumption DEF StartRefused
<1>4. /\ Cardinality(Kept) <= Cardinality(executing)
      /\ Cardinality(Kept) \in Nat /\ Cardinality(executing) \in Nat
  BY <1>2, RunSetFinite DEF RetentionInv, TypeOK
<1>5. Cardinality(executing) < MaxConcurrentRuns
  BY <1>1 DEF StartRefused, Admitted
<1>6. QED
  BY <1>2, <1>3, <1>4, <1>5, ConstantsAssumption

LEMMA LeaveStep ==
  ASSUME RetentionInv, [Next]_vars, NEW r \in stored \ stored'
  PROVE  /\ Terminal(r)
         /\ \/ completedAt[r] + RetentionMs <= now
            \/ /\ \E q \in stored' : q \notin stored
               /\ Cardinality(stored') = MaxEntries
               /\ \A q \in stored \cap stored' : Terminal(q) => position[r] < position[q]
<1>1. CASE r \notin Kept
  BY <1>1, ExpiredLeaves
<1>2. CASE r \in Kept
  <2>1. PICK s \in Runs : StartEvicting(s)
    BY <1>2 DEF Next, vars, StartWithRoom, StartRefused, Insert, Progress, Complete, Release, Read, Tick
  <2>2. r = Victim
    BY <1>2, <2>1, EvictionStep
  <2>3. QED
    BY <2>1, <2>2, EvictionStep
<1>3. QED
  BY <1>1, <1>2

\* A report leaves the store only when it has expired or when it is the oldest complete
\* one of a full store, and a run is turned away only by a store full of active runs.
THEOREM RoomCorrect == Spec => RoomIsMadeRightly
<1>1. RetentionInv /\ [Next]_vars =>
         [refused' # refused =>
             /\ stored' \subseteq executing
             /\ Cardinality(stored') = MaxEntries
             /\ MaxEntries < MaxConcurrentRuns]_vars
  BY RefusalStep
<1>2. RetentionInv /\ [Next]_vars =>
         [\A r \in stored \ stored' :
             /\ Terminal(r)
             /\ \/ completedAt[r] + RetentionMs <= now
                \/ /\ \E q \in stored' : q \notin stored
                   /\ Cardinality(stored') = MaxEntries
                   /\ \A q \in stored \cap stored' : Terminal(q) => position[r] < position[q]]_vars
  BY LeaveStep
<1>3. QED
  BY <1>1, <1>2, RetentionInvariant, PTL
     DEF Spec, RoomIsMadeRightly, RefusalMeansBusy, OldestTerminalLeaves

-----------------------------------------------------------------------------
(* The inductive invariant.                                                *)

\* What an open transaction has deleted is still there for everyone else, and its row
\* locks keep the other transactions off it.
LocksExclude ==
    /\ \A o \in Operators : deleted[o] \subseteq rows
    /\ \A o, p \in Operators : o # p => deleted[o] \cap deleted[p] = {}

\* A run that was old enough when it was selected still is when it is deleted, so
\* guard_run_cleanup never refuses a row of a batch.
BatchesExpired == \A o \in Operators : \A r \in batch[o] : age[r] = "expired"

PruneInv ==
    /\ PruneTypeOK /\ LocksExclude /\ BatchesExpired
    /\ DeletionsAudited /\ TotalsAddUp

LEMMA TypeFacts ==
  ASSUME PruneTypeOK
  PROVE  /\ batch \in [Operators -> SUBSET RunRows] /\ visited \in [Operators -> SUBSET RunRows]
         /\ deleted \in [Operators -> SUBSET RunRows] /\ removed \in [Operators -> SUBSET RunRows]
         /\ \A S \in SUBSET RunRows : IsFiniteSet(S) /\ Cardinality(S) \in Nat
<1>1. \A S \in SUBSET RunRows : IsFiniteSet(S) /\ Cardinality(S) \in Nat
  BY PruneAssumption, FS_Subset, FS_CardinalityType
<1>2. QED
  BY <1>1 DEF PruneTypeOK

LEMMA DisjointCount ==
  ASSUME NEW S, NEW T, IsFiniteSet(S), IsFiniteSet(T), S \cap T = {}
  PROVE  Cardinality(S \cup T) = Cardinality(S) + Cardinality(T)
<1>1. Cardinality(S) \in Nat /\ Cardinality(T) \in Nat /\ Cardinality({}) = 0
  BY FS_CardinalityType, FS_EmptySet
<1>2. Cardinality(S \cup T) = Cardinality(S) + Cardinality(T) - Cardinality(S \cap T)
  BY FS_Union
<1>3. Cardinality(S \cap T) = 0
  BY <1>1
<1>4. QED
  BY <1>1, <1>2, <1>3

LEMMA PruneInitially == PruneInit => PruneInv
<1> SUFFICES ASSUME PruneInit PROVE PruneInv
  OBVIOUS
<1> USE DEF PruneInit
<1>1. PruneTypeOK
  <2>1. /\ batch \in [Operators -> SUBSET RunRows] /\ visited \in [Operators -> SUBSET RunRows]
        /\ deleted \in [Operators -> SUBSET RunRows] /\ removed \in [Operators -> SUBSET RunRows]
    OBVIOUS
  <2>2. \A o \in Operators : deleted[o] \subseteq visited[o] /\ visited[o] \subseteq batch[o]
    OBVIOUS
  <2>3. cleanup \in [Operators -> Nat] /\ total \in [Operators -> Nat] /\ faults \in 0..MaxFaults
    BY PruneAssumption
  <2>4. QED
    BY <2>1, <2>2, <2>3 DEF PruneTypeOK
<1>2. LocksExclude /\ BatchesExpired /\ DeletionsAudited
  BY DEF LocksExclude, BatchesExpired, DeletionsAudited
<1>3. TotalsAddUp
  <2>1. \A o \in Operators : total[o] = 0 /\ removed[o] = {}
    OBVIOUS
  <2>2. Cardinality({}) = 0
    BY FS_EmptySet
  <2>3. UNION {removed[o] : o \in Operators} = {} /\ RunRows \ rows = {}
    BY <2>1
  <2>4. QED
    BY <2>1, <2>2, <2>3 DEF TotalsAddUp
<1>4. QED
  BY <1>1, <1>2, <1>3 DEF PruneInv

-----------------------------------------------------------------------------
(* The steps.                                                              *)

\* A run ages and never grows younger.
LEMMA GrowsOlderStep ==
  ASSUME PruneInv, NEW r \in RunRows, GrowsOlder(r)
  PROVE  PruneInv'
<1> USE DEF PruneInv, GrowsOlder, batchVars
<1>1. age' \in [RunRows -> Ages] /\ \A s \in RunRows : age[s] = "expired" => age'[s] = "expired"
  BY DEF PruneTypeOK, Ages
<1>2. PruneTypeOK'
  BY <1>1 DEF PruneTypeOK
<1>3. BatchesExpired' /\ DeletionsAudited'
  BY <1>1, TypeFacts DEF BatchesExpired, DeletionsAudited, PruneTypeOK
<1>4. LocksExclude' /\ TotalsAddUp'
  BY DEF LocksExclude, TotalsAddUp
<1>5. QED
  BY <1>2, <1>3, <1>4

\* A batch is selected without locks.
LEMMA SelectStep ==
  ASSUME PruneInv, NEW o \in Operators, NEW ids \in SUBSET Eligible, Select(o, ids)
  PROVE  PruneInv'
<1> USE DEF PruneInv, Select
<1>1. ids \subseteq RunRows /\ \A r \in ids : age[r] = "expired"
  BY DEF Eligible, PruneTypeOK
<1>2. /\ batch' \in [Operators -> SUBSET RunRows] /\ batch'[o] = ids
      /\ visited' \in [Operators -> SUBSET RunRows] /\ visited'[o] = {}
      /\ deleted' \in [Operators -> SUBSET RunRows] /\ deleted'[o] = {}
      /\ \A p \in Operators : p # o => batch'[p] = batch[p] /\ visited'[p] = visited[p] /\ deleted'[p] = deleted[p]
  BY <1>1, TypeFacts
<1>3. stage' \in [Operators -> {"selecting", "deleting", "committing", "done", "failed"}]
  BY DEF PruneTypeOK
<1>4. PruneTypeOK'
  <2>1. \A p \in Operators : deleted'[p] \subseteq visited'[p] /\ visited'[p] \subseteq batch'[p]
    BY <1>2 DEF PruneTypeOK
  <2>2. QED
    BY <1>2, <1>3, <2>1, TypeFacts DEF PruneTypeOK
<1>5. LocksExclude' /\ BatchesExpired'
  BY <1>1, <1>2 DEF LocksExclude, BatchesExpired
<1>6. DeletionsAudited' /\ TotalsAddUp'
  BY DEF DeletionsAudited, TotalsAddUp
<1>7. QED
  BY <1>4, <1>5, <1>6

\* The DELETE deals with one row, which no other transaction has locked.
LEMMA DeleteRowStep ==
  ASSUME PruneInv, NEW o \in Operators, NEW r \in RunRows, DeleteRow(o, r)
  PROVE  PruneInv'
<1> USE DEF PruneInv, DeleteRow
<1>1. /\ visited' \in [Operators -> SUBSET RunRows] /\ visited'[o] = visited[o] \cup {r}
      /\ deleted' \in [Operators -> SUBSET RunRows] /\ deleted'[o] = deleted[o] \cup ({r} \cap rows)
      /\ \A p \in Operators : p # o => visited'[p] = visited[p] /\ deleted'[p] = deleted[p]
  BY TypeFacts
<1>2. stage' \in [Operators -> {"selecting", "deleting", "committing", "done", "failed"}]
  BY DEF PruneTypeOK
<1>3. PruneTypeOK'
  <2>1. \A p \in Operators : deleted'[p] \subseteq visited'[p] /\ visited'[p] \subseteq batch'[p]
    BY <1>1 DEF PruneTypeOK
  <2>2. QED
    BY <1>1, <1>2, <2>1, TypeFacts DEF PruneTypeOK
<1>4. LocksExclude'
  <2>1. \A p \in Operators : r \notin deleted[p]
    BY DEF LockedBy
  <2>2. \A p \in Operators : deleted'[p] \subseteq rows
    BY <1>1 DEF LocksExclude
  <2>3. \A p, q \in Operators : p # q => deleted'[p] \cap deleted'[q] = {}
    BY <1>1, <2>1 DEF LocksExclude
  <2>4. QED
    BY <2>2, <2>3 DEF LocksExclude
<1>5. BatchesExpired' /\ DeletionsAudited' /\ TotalsAddUp'
  BY DEF BatchesExpired, DeletionsAudited, TotalsAddUp
<1>6. QED
  BY <1>3, <1>4, <1>5

\* A batch commits: its rows are gone, audited and counted.
LEMMA CommitStep ==
  ASSUME PruneInv, NEW o \in Operators, Commit(o)
  PROVE  PruneInv'
<1> USE DEF PruneInv, Commit
<1>1. /\ batch' \in [Operators -> SUBSET RunRows] /\ batch'[o] = {}
      /\ visited' \in [Operators -> SUBSET RunRows] /\ visited'[o] = {}
      /\ deleted' \in [Operators -> SUBSET RunRows] /\ deleted'[o] = {}
      /\ removed' \in [Operators -> SUBSET RunRows] /\ removed'[o] = removed[o] \cup deleted[o]
      /\ \A p \in Operators : p # o => /\ batch'[p] = batch[p] /\ visited'[p] = visited[p]
                                       /\ deleted'[p] = deleted[p] /\ removed'[p] = removed[p]
  BY TypeFacts
<1>2. deleted[o] \subseteq rows /\ deleted[o] \subseteq batch[o] /\ batch[o] \subseteq RunRows /\ rows' = rows \ deleted[o]
  BY TypeFacts DEF LocksExclude, PruneTypeOK
<1>3. Cardinality(deleted[o]) \in Nat /\ IsFiniteSet(deleted[o]) /\ IsFiniteSet(removed[o]) /\ Cardinality(removed[o]) \in Nat
  BY TypeFacts
<1>4. total' \in [Operators -> Nat] /\ total'[o] = total[o] + Cardinality(deleted[o])
      /\ \A p \in Operators : p # o => total'[p] = total[p]
  BY <1>3 DEF PruneTypeOK
<1>5. PruneTypeOK'
  <2>1. \A p \in Operators : deleted'[p] \subseteq visited'[p] /\ visited'[p] \subseteq batch'[p]
    BY <1>1 DEF PruneTypeOK
  <2>2. stage' \in [Operators -> {"selecting", "deleting", "committing", "done", "failed"}]
    BY DEF PruneTypeOK
  <2>3. Audits(o) \subseteq [operator : Operators, cleanup : Nat, run : RunRows]
    BY <1>2 DEF Audits, PruneTypeOK
  <2>4. cleanup' \in [Operators -> Nat]
    BY DEF PruneTypeOK
  <2>5. age' \in [RunRows -> Ages] /\ rows' \subseteq RunRows /\ faults' \in 0..MaxFaults
        /\ audit' \subseteq [operator : Operators, cleanup : Nat, run : RunRows]
    BY <1>2, <2>3 DEF PruneTypeOK
  <2>6. QED
    BY <1>1, <1>4, <2>1, <2>2, <2>4, <2>5 DEF PruneTypeOK
<1>6. LocksExclude'
  <2>1. \A p \in Operators : p # o => deleted[p] \subseteq rows \ deleted[o]
    BY DEF LocksExclude
  <2>2. QED
    BY <1>1, <1>2, <2>1 DEF LocksExclude
<1>7. BatchesExpired'
  BY <1>1 DEF BatchesExpired
<1>8. DeletionsAudited'
  <2>1. ASSUME NEW r \in RunRows \ rows'
        PROVE  age[r] = "expired" /\ \E a \in audit' : a.run = r
    <3>1. CASE r \in deleted[o]
      <4>1. [operator |-> o, cleanup |-> cleanup[o], run |-> r] \in Audits(o) /\ age[r] = "expired"
        BY <1>2, <3>1 DEF Audits, BatchesExpired
      <4>2. [operator |-> o, cleanup |-> cleanup[o], run |-> r].run = r
        OBVIOUS
      <4>3. QED
        BY <4>1, <4>2
    <3>2. CASE r \notin deleted[o]
      BY <1>2, <2>1, <3>2 DEF DeletionsAudited
    <3>3. QED
      BY <3>1, <3>2
  <2>2. QED
    BY <2>1 DEF DeletionsAudited
<1>9. TotalsAddUp'
  <2> DEFINE gone == UNION {removed[p] : p \in Operators}
             gonePrime == UNION {removed'[p] : p \in Operators}
  <2>1. gone = RunRows \ rows
    BY DEF TotalsAddUp
  <2>2. \A p \in Operators : removed[p] \cap deleted[o] = {}
    BY <1>2, <2>1
  <2>3. Cardinality(removed'[o]) = Cardinality(removed[o]) + Cardinality(deleted[o])
    <3>1. removed'[o] = removed[o] \cup deleted[o] /\ removed[o] \cap deleted[o] = {}
      BY <1>1, <2>2
    <3>2. QED
      BY <1>3, <3>1, DisjointCount
  <2>4. \A p \in Operators : total'[p] = Cardinality(removed'[p])
    BY <1>1, <1>4, <2>3 DEF TotalsAddUp
  <2>5. \A p, q \in Operators : p # q => removed'[p] \cap removed'[q] = {}
    BY <1>1, <2>2 DEF TotalsAddUp
  <2>6. gonePrime = gone \cup deleted[o]
    BY <1>1
  <2>7. gonePrime = RunRows \ rows'
    BY <1>2, <2>1, <2>6
  <2>8. QED
    BY <2>4, <2>5, <2>7 DEF TotalsAddUp
<1>10. QED
  BY <1>5, <1>6, <1>7, <1>8, <1>9

\* A transaction is rolled back: its locks go, and nothing else changes.
LEMMA AbandonStep ==
  ASSUME PruneInv, NEW o \in Operators, Abandon(o), faults' \in 0..MaxFaults
  PROVE  PruneInv'
<1> USE DEF PruneInv, Abandon
<1>1. /\ batch' \in [Operators -> SUBSET RunRows] /\ batch'[o] = {}
      /\ visited' \in [Operators -> SUBSET RunRows] /\ visited'[o] = {}
      /\ deleted' \in [Operators -> SUBSET RunRows] /\ deleted'[o] = {}
      /\ \A p \in Operators : p # o => batch'[p] = batch[p] /\ visited'[p] = visited[p] /\ deleted'[p] = deleted[p]
  BY TypeFacts
<1>2. PruneTypeOK'
  <2>1. \A p \in Operators : deleted'[p] \subseteq visited'[p] /\ visited'[p] \subseteq batch'[p]
    BY <1>1 DEF PruneTypeOK
  <2>2. stage' \in [Operators -> {"selecting", "deleting", "committing", "done", "failed"}]
    BY DEF PruneTypeOK
  <2>3. QED
    BY <1>1, <2>1, <2>2, TypeFacts DEF PruneTypeOK
<1>3. LocksExclude' /\ BatchesExpired'
  BY <1>1 DEF LocksExclude, BatchesExpired
<1>4. DeletionsAudited' /\ TotalsAddUp'
  BY DEF DeletionsAudited, TotalsAddUp
<1>5. QED
  BY <1>2, <1>3, <1>4

LEMMA PruneStep == PruneInv /\ [PruneNext]_pruneVars => PruneInv'
<1> SUFFICES ASSUME PruneInv, [PruneNext]_pruneVars PROVE PruneInv'
  OBVIOUS
<1>1. ASSUME NEW o \in Operators, Prune(o) \/ StatementFails(o)
      PROVE  PruneInv'
  <2>1. faults \in 0..MaxFaults /\ MaxFaults \in Nat
    BY PruneAssumption DEF PruneInv, PruneTypeOK
  <2>2. CASE \E ids \in {s \in SUBSET Eligible : Cardinality(s) <= Limit} : Select(o, ids)
    BY <2>2, SelectStep
  <2>3. CASE \E r \in RunRows : DeleteRow(o, r)
    BY <2>3, DeleteRowStep
  <2>4. CASE Commit(o)
    BY <2>4, CommitStep
  <2>5. CASE DeadlockDetected(o)
    BY <2>1, <2>5, AbandonStep DEF DeadlockDetected
  <2>6. CASE StatementFails(o)
    BY <2>1, <2>6, AbandonStep DEF StatementFails
  <2>7. QED
    BY <1>1, <2>2, <2>3, <2>4, <2>5, <2>6 DEF Prune
<1>2. CASE \E r \in RunRows : GrowsOlder(r)
  BY <1>2, GrowsOlderStep
<1>3. CASE UNCHANGED pruneVars
  BY <1>3 DEF pruneVars, batchVars, PruneInv, PruneTypeOK, LocksExclude, BatchesExpired, DeletionsAudited, TotalsAddUp
<1>4. QED
  BY <1>1, <1>2, <1>3 DEF PruneNext

-----------------------------------------------------------------------------
(* The theorems.                                                           *)

\* However batches of several operators interleave, fail or block each other, their row
\* locks exclude each other and guard_run_cleanup never refuses a row of a batch.
THEOREM PruningAlwaysOK == PruneSpec => []PruneInv
<1>1. QED
  BY PruneInitially, PruneStep, PTL DEF PruneSpec

\* Every run that is gone was old enough, has an audit row, and is counted in exactly one
\* of the totals printed.
THEOREM DeletionsAccountedAlways == PruneSpec => []DeletionsAccounted
<1>1. PruneInv => DeletionsAccounted
  BY DEF PruneInv, DeletionsAccounted
<1>2. QED
  BY <1>1, PruningAlwaysOK, PTL

=============================================================================
