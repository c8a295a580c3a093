--------------------------- MODULE ReportComparison ---------------------------
(***************************************************************************)
(* compareReports of the dashboard's api.ts: what it makes of two exported *)
(* reports.  A report keeps its scenario (id, version and content hash),   *)
(* its status, its duration, and of each step and assertion what names it  *)
(* and its status.                                                         *)
(***************************************************************************)
EXTENDS Integers, Sequences, FiniteSets

NoDuration == -1                \* a report without a readable completion date

(* A later step of the same id takes the place of an earlier one.          *)
StepMap(steps) ==
    [id \in {steps[i].id : i \in DOMAIN steps} |->
        LET last == CHOOSE i \in DOMAIN steps :
                      /\ steps[i].id = id
                      /\ \A j \in DOMAIN steps : steps[j].id = id => j <= i
        IN  steps[last].status]

(* Mutant: the occurrence is not counted.                                  *)
AssertionKeyByType(assertions, i) == <<assertions[i].type, 0>>
(* getAssertionKeyMap: the n-th assertion of a type is named <<type, n>>.  *)
AssertionKey(assertions, i) ==
    <<assertions[i].type,
      Cardinality({j \in 1 .. i - 1 : assertions[j].type = assertions[i].type})>>
AssertionMap(assertions) ==
    [key \in {AssertionKey(assertions, i) : i \in DOMAIN assertions} |->
        LET last == CHOOSE i \in DOMAIN assertions :
                      /\ AssertionKey(assertions, i) = key
                      /\ \A j \in DOMAIN assertions :
                            AssertionKey(assertions, j) = key => j <= i
        IN  assertions[last].status]

Differences(inA, inB) ==
    [key \in DOMAIN inA \union DOMAIN inB |->
        CASE key \notin DOMAIN inB -> "removed"
          [] key \notin DOMAIN inA -> "added"
          [] OTHER -> IF inA[key] = inB[key] THEN "unchanged" ELSE "changed"]
Count(differences, change) ==
    Cardinality({key \in DOMAIN differences : differences[key] = change})

compareReports(a, b) ==
    [scenariosMatch |-> a.scenario = b.scenario,
     statusChanged |-> a.status # b.status,
     durationDiff |-> IF NoDuration \in {a.duration, b.duration} THEN NoDuration
                      ELSE b.duration - a.duration,
     steps |-> Differences(StepMap(a.steps), StepMap(b.steps)),
     assertions |-> Differences(AssertionMap(a.assertions),
                                AssertionMap(b.assertions))]

Outcomes(seq) == [i \in DOMAIN seq |-> seq[i].status]
(* The assertions of a type, in their order.                               *)
OfType(assertions, t) ==
    LET places == {i \in DOMAIN assertions : assertions[i].type = t}
    IN  [n \in 1 .. Cardinality(places) |->
            assertions[CHOOSE i \in places : Cardinality({j \in places : j < i}) = n - 1]]
=============================================================================
