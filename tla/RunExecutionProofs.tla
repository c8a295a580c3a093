-------------------------- MODULE RunExecutionProofs --------------------------
(***************************************************************************)
(* Proofs, for any number of pollers, progress callbacks and failing       *)
(* queries, of what one run leaves in its row of table runs.               *)
(***************************************************************************)
EXTENDS RunExecution, FiniteSetTheorems, WellFoundedInduction, TLAPS

-----------------------------------------------------------------------------
(* The flags of one kind among the results.                                *)

RankIn(S, i) == Cardinality({j \in S : j <= i})

\* Positions are counted, and later ones have higher ranks.
LEMMA RankFacts ==
  ASSUME NEW m \in Nat, NEW S \in SUBSET (1..m)
  PROVE  /\ IsFiniteSet(S) /\ Cardinality(S) \in Nat
         /\ \A i \in Int : RankIn(S, i) \in Nat
         /\ \A i \in Int, k \in S : i < k => RankIn(S, i) < RankIn(S, k)
<1>0. \A j \in S : j \in Int
  OBVIOUS
<1>1. IsFiniteSet(S) /\ Cardinality(S) \in Nat
  <2>1. IsFiniteSet(1..m)
    BY FS_Interval
  <2>2. QED
    BY <2>1, FS_Subset, FS_CardinalityType
<1>2. \A i \in Int : IsFiniteSet({j \in S : j <= i}) /\ RankIn(S, i) \in Nat
  BY <1>1, FS_Subset, FS_CardinalityType DEF RankIn
<1>3. ASSUME NEW i \in Int, NEW k \in S, i < k
      PROVE  RankIn(S, i) < RankIn(S, k)
  <2> DEFINE below == {j \in S : j <= i}
             upto == {j \in S : j <= k}
  <2>1. IsFiniteSet(below) /\ IsFiniteSet(upto) /\ k \in Int
    BY <1>2
  <2>2. k \notin below /\ below \cup {k} \subseteq upto
    <3>1. \A j \in S : j <= i => j <= k /\ j # k
      BY <1>0, <1>3
    <3>2. k <= k
      BY <1>0
    <3>3. QED
      BY <3>1, <3>2
  <2>3. Cardinality(below \cup {k}) = Cardinality(below) + 1
    BY <2>1, <2>2, FS_AddElement
  <2>4. Cardinality(below \cup {k}) <= Cardinality(upto)
    BY <2>1, <2>2, FS_Subset
  <2>5. Cardinality(below) \in Nat /\ Cardinality(upto) \in Nat
    BY <2>1, FS_CardinalityType
  <2>6. Cardinality(below) < Cardinality(upto)
    BY <2>3, <2>4, <2>5
  <2>7. QED
    BY <2>6 DEF RankIn
<1>4. QED
  BY <1>1, <1>2, <1>3

\* The position of rank n is the n-th.
LEMMA NthIs ==
  ASSUME NEW m \in Nat, NEW S \in SUBSET (1..m), NEW i \in S
  PROVE  Nth(S, RankIn(S, i)) = i
<1>1. \A k \in S : RankIn(S, k) = RankIn(S, i) => k = i
  <2>0. \A k \in S : k \in Int
    OBVIOUS
  <2>1. \A k \in S : k \in Int /\ i \in Int /\ RankIn(S, k) \in Nat
    BY <2>0, RankFacts
  <2>2. \A k \in S : k < i => RankIn(S, k) < RankIn(S, i)
    BY <2>1, RankFacts
  <2>3. \A k \in S : i < k => RankIn(S, i) < RankIn(S, k)
    BY <2>1, RankFacts
  <2>4. QED
    BY <2>1, <2>2, <2>3
<1>2. Nth(S, RankIn(S, i)) = CHOOSE k \in S : RankIn(S, k) = RankIn(S, i)
  BY DEF Nth, RankIn
<1>3. QED
  BY <1>1, <1>2

\* There is an n-th position for every n that can be asked for.
LEMMA NthExists ==
  ASSUME NEW m \in Nat, NEW S \in SUBSET (1..m), NEW n \in 1..Cardinality(S)
  PROVE  Nth(S, n) \in S /\ RankIn(S, Nth(S, n)) = n
<1> DEFINE Reach == {i \in Nat : RankIn(S, i) >= n}
           R == OpToRel(<, Nat)
<1>0. \A j \in S : j \in Nat /\ 0 < j /\ j <= m
  OBVIOUS
<1>1. /\ Cardinality(S) \in Nat /\ n \in Nat \ {0} /\ IsFiniteSet(S)
      /\ \A i \in Int : RankIn(S, i) \in Nat
  <2>1. Cardinality(S) \in Nat /\ IsFiniteSet(S) /\ \A i \in Int : RankIn(S, i) \in Nat
    BY RankFacts
  <2>2. QED
    BY <2>1
<1>2. m \in Reach
  <2>1. {j \in S : j <= m} = S
    BY <1>0
  <2>2. QED
    BY <1>1, <2>1 DEF RankIn
<1>3. IsWellFoundedOn(R, Nat)
  BY NatLessThanWellFounded
<1> HIDE DEF R
<1>4. PICK i \in Reach : \A k \in Reach : <<k, i>> \notin R
  <2> HIDE DEF Reach
  <2>1. Reach \subseteq Nat /\ Reach # {}
    BY <1>2 DEF Reach
  <2>2. QED
    BY <1>3, <2>1, WFMin
<1>5. i \in Nat /\ RankIn(S, i) >= n
  OBVIOUS
<1>6. i > 0
  <2>1. i # 0
    <3>1. \A j \in S : ~(j <= 0)
      BY <1>0
    <3>2. RankIn(S, 0) = Cardinality({})
      BY <3>1 DEF RankIn
    <3>3. RankIn(S, 0) = 0
      BY <3>2, FS_EmptySet
    <3>4. QED
      BY <1>1, <1>5, <3>3
  <2>2. QED
    BY <1>5, <2>1
<1>7. ~(RankIn(S, i - 1) >= n)
  <2>1. i - 1 \in Nat /\ i - 1 < i
    BY <1>5, <1>6
  <2>2. <<i - 1, i>> \in R
    BY <2>1, <1>5 DEF R, OpToRel
  <2>3. QED
    BY <1>4, <2>1, <2>2
<1>8. {j \in S : j <= i} = {j \in S : j <= i - 1} \cup (S \cap {i})
  <2>1. \A j \in S : j <= i <=> j <= i - 1 \/ j = i
    BY <1>0, <1>5
  <2>2. QED
    BY <2>1
<1>9. IsFiniteSet({j \in S : j <= i - 1}) /\ i \notin {j \in S : j <= i - 1}
  <2>1. IsFiniteSet({j \in S : j <= i - 1})
    BY <1>1, FS_Subset
  <2>2. QED
    BY <1>5, <2>1
<1>10. i \in S
  <2>1. ASSUME i \notin S PROVE RankIn(S, i) = RankIn(S, i - 1)
    BY <1>8, <2>1 DEF RankIn
  <2>2. QED
    BY <1>5, <1>7, <2>1
<1>11. RankIn(S, i) = RankIn(S, i - 1) + 1
  <2>1. {j \in S : j <= i} = {j \in S : j <= i - 1} \cup {i}
    BY <1>8, <1>10
  <2>2. QED
    BY <1>9, <2>1, FS_AddElement DEF RankIn
<1>12. RankIn(S, i) = n
  <2>1. RankIn(S, i - 1) \in Nat /\ RankIn(S, i) \in Nat
    BY <1>1, <1>5
  <2>2. QED
    BY <1>1, <1>5, <1>7, <1>11, <2>1
<1>13. Nth(S, n) = i
  BY <1>10, <1>12, NthIs
<1>14. QED
  BY <1>10, <1>12, <1>13

\* Positions added at the end leave the n-th where it was.
LEMMA NthPrefix ==
  ASSUME NEW m \in Nat, NEW S \in SUBSET (1..m), NEW k \in Nat,
         NEW n \in 1..Cardinality(S \cap (1..k))
  PROVE  Nth(S, n) = Nth(S \cap (1..k), n)
<1> DEFINE T == S \cap (1..k)
           i == Nth(T, n)
<1>1. i \in T /\ RankIn(T, i) = n
  BY NthExists
<1>2. {j \in S : j <= i} = {j \in T : j <= i}
  <2>1. \A j \in S : j \in Nat /\ 0 < j
    OBVIOUS
  <2>2. i \in Nat /\ i <= k
    BY <1>1
  <2> HIDE DEF i
  <2>3. \A j \in S : j <= i => j \in T
    BY <2>1, <2>2
  <2>4. QED
    BY <2>3
<1>3. RankIn(S, i) = n
  BY <1>1, <1>2 DEF RankIn
<1>4. Nth(S, RankIn(S, i)) = i
  <2>1. i \in S
    BY <1>1
  <2> HIDE DEF i, T
  <2>2. QED
    BY <2>1, NthIs
<1>5. QED
  BY <1>3, <1>4

\* The flags of a kind are a sequence of truth values, one per position, in their order.
LEMMA FlagsFacts ==
  ASSUME NEW e \in Seq(Results), NEW kind
  PROVE  /\ Positions(e, kind) \subseteq 1..Len(e) /\ Len(e) \in Nat
         /\ IsFiniteSet(Positions(e, kind)) /\ Cardinality(Positions(e, kind)) \in Nat
         /\ Flags(e, kind) \in Flagged /\ Len(Flags(e, kind)) = Cardinality(Positions(e, kind))
         /\ \A n \in 1..Cardinality(Positions(e, kind)) :
               /\ Nth(Positions(e, kind), n) \in Positions(e, kind)
               /\ Flags(e, kind)[n] = e[Nth(Positions(e, kind), n)].ok
<1> DEFINE P == Positions(e, kind)
<1>1. P \subseteq 1..Len(e) /\ Len(e) \in Nat /\ \A i \in 1..Len(e) : e[i] \in Results
  BY DEF Positions
<1>2. \A i \in 1..Len(e) : e[i].ok \in BOOLEAN
  BY <1>1 DEF Results
<1> HIDE DEF P
<1>3. IsFiniteSet(P) /\ Cardinality(P) \in Nat
  BY <1>1, RankFacts
<1>4. \A n \in 1..Cardinality(P) : Nth(P, n) \in P
  BY <1>1, NthExists
<1>5. Flags(e, kind) = [n \in 1..Cardinality(P) |-> e[Nth(P, n)].ok]
  BY DEF Flags, P
<1>6. \A n \in 1..Cardinality(P) : e[Nth(P, n)].ok \in BOOLEAN
  BY <1>1, <1>2, <1>4
<1>7. Flags(e, kind) \in Flagged /\ Len(Flags(e, kind)) = Cardinality(P)
  BY <1>3, <1>5, <1>6 DEF Flagged
<1>8. QED
  BY <1>1, <1>3, <1>4, <1>5, <1>7 DEF P

\* The first results of a longer report have the flags the longer one begins with.
LEMMA FlagsBegin ==
  ASSUME NEW e \in Seq(Results), NEW d \in Seq(Results), NEW kind,
         Len(d) <= Len(e), \A i \in 1..Len(d) : d[i] = e[i]
  PROVE  /\ Positions(d, kind) = Positions(e, kind) \cap (1..Len(d))
         /\ Len(Flags(d, kind)) <= Len(Flags(e, kind))
         /\ \A n \in 1..Len(Flags(d, kind)) : Flags(d, kind)[n] = Flags(e, kind)[n]
<1> DEFINE S == Positions(e, kind)
           T == Positions(d, kind)
<1>1. T = S \cap (1..Len(d))
  BY DEF Positions
<1>2. /\ S \subseteq 1..Len(e) /\ Len(e) \in Nat /\ Len(d) \in Nat /\ IsFiniteSet(S)
      /\ Len(Flags(e, kind)) = Cardinality(S) /\ Len(Flags(d, kind)) = Cardinality(T)
      /\ Cardinality(S) \in Nat /\ Cardinality(T) \in Nat
      /\ \A n \in 1..Cardinality(S) : Flags(e, kind)[n] = e[Nth(S, n)].ok
      /\ \A n \in 1..Cardinality(T) : Nth(T, n) \in T /\ Flags(d, kind)[n] = d[Nth(T, n)].ok
  BY FlagsFacts
<1> HIDE DEF S, T
<1>3. Cardinality(T) <= Cardinality(S)
  BY <1>1, <1>2, FS_Subset
<1>4. ASSUME NEW n \in 1..Cardinality(T)
      PROVE  Flags(d, kind)[n] = Flags(e, kind)[n]
  <2>1. Nth(S, n) = Nth(T, n)
    <3>1. n \in 1..Cardinality(S \cap (1..Len(d))) /\ S \in SUBSET (1..Len(e))
      BY <1>1, <1>2
    <3>2. Nth(S, n) = Nth(S \cap (1..Len(d)), n)
      BY <1>2, <3>1, NthPrefix
    <3>3. QED
      BY <1>1, <3>2
  <2>2. n \in 1..Cardinality(S)
    BY <1>2, <1>3
  <2>3. d[Nth(T, n)] = e[Nth(T, n)]
    BY <1>1, <1>2
  <2>4. QED
    BY <1>2, <2>1, <2>2, <2>3
<1>5. QED
  BY <1>1, <1>2, <1>3, <1>4 DEF S, T

\* The same, of the first n results of one report.
LEMMA FlagsPrefix ==
  ASSUME NEW e \in Seq(Results), NEW n \in 0..Len(e), NEW kind
  PROVE  /\ SubSeq(e, 1, n) \in Seq(Results) /\ Flags(SubSeq(e, 1, n), kind) \in Flagged
         /\ IsPrefix(Flags(SubSeq(e, 1, n), kind), Flags(e, kind))
<1> DEFINE d == SubSeq(e, 1, n)
<1>1. d \in Seq(Results) /\ Len(d) = n /\ \A i \in 1..n : d[i] = e[i]
  OBVIOUS
<1> HIDE DEF d
<1> DEFINE f == Flags(d, kind)
           g == Flags(e, kind)
<1>2. n \in Nat /\ n <= Len(e)
  OBVIOUS
<1>3. Len(f) <= Len(g) /\ \A k \in 1..Len(f) : f[k] = g[k]
  BY <1>1, <1>2, FlagsBegin
<1>4. f \in Flagged /\ g \in Flagged
  BY <1>1, FlagsFacts
<1> HIDE DEF f, g
<1>5. SubSeq(f, 1, Len(f)) = SubSeq(g, 1, Len(f))
  BY <1>3, <1>4 DEF Flagged
<1>6. QED
  BY <1>1, <1>3, <1>4, <1>5 DEF IsPrefix, d, f, g

\* A new result adds its flag to those of its kind.
LEMMA FlagsAppend ==
  ASSUME NEW e \in Seq(Results), NEW x \in Results, NEW kind
  PROVE  Flags(Append(e, x), kind) = IF x.kind = kind THEN Append(Flags(e, kind), x.ok) ELSE Flags(e, kind)
<1> DEFINE b == Append(e, x)
           m == Len(e)
           f == Flags(e, kind)
           g == Flags(b, kind)
           S == Positions(e, kind)
           T == Positions(b, kind)
<1>1. b \in Seq(Results) /\ Len(b) = m + 1 /\ m \in Nat /\ b[m + 1] = x /\ \A i \in 1..m : b[i] = e[i]
  OBVIOUS
<1> HIDE DEF b
<1>2. /\ S \subseteq 1..m /\ IsFiniteSet(S) /\ Cardinality(S) \in Nat /\ f \in Flagged /\ Len(f) = Cardinality(S)
      /\ g \in Flagged /\ Len(g) = Cardinality(T) /\ T \subseteq 1..(m + 1)
      /\ \A n \in 1..Cardinality(T) : g[n] = b[Nth(T, n)].ok
  BY <1>1, FlagsFacts
<1>3. Len(f) <= Len(g) /\ \A n \in 1..Len(f) : f[n] = g[n]
  BY <1>1, FlagsBegin
<1>4. T = IF x.kind = kind THEN S \cup {m + 1} ELSE S
  <2>1. DOMAIN b = (DOMAIN e) \cup {m + 1} /\ DOMAIN e = 1..m /\ m + 1 \notin DOMAIN e
    BY <1>1
  <2>2. \A i \in DOMAIN e : b[i] = e[i]
    BY <1>1, <2>1
  <2>3. QED
    BY <1>1, <2>1, <2>2 DEF Positions
<1>5. m + 1 \notin S
  BY <1>1, <1>2
<1> HIDE DEF S, T, f, g, m
<1>6. CASE x.kind = kind
  <2>1. Cardinality(T) = Cardinality(S) + 1
    BY <1>2, <1>4, <1>5, <1>6, FS_AddElement
  <2>2. m + 1 \in T
    BY <1>4, <1>6
  <2>3. RankIn(T, m + 1) = Cardinality(T)
    <3>1. \A j \in T : j <= m + 1
      BY <1>1, <1>2
    <3>2. {j \in T : j <= m + 1} = T
      BY <3>1
    <3>3. QED
      BY <3>2 DEF RankIn
  <2>4. Nth(T, Cardinality(T)) = m + 1
    <3>1. m + 1 \in Nat /\ T \in SUBSET (1..(m + 1))
      BY <1>1, <1>2
    <3>2. Nth(T, RankIn(T, m + 1)) = m + 1
      BY <2>2, <3>1, NthIs
    <3>3. QED
      BY <2>3, <3>2
  <2>5. g[Len(f) + 1] = x.ok
    BY <1>1, <1>2, <2>1, <2>4
  <2>6. x.ok \in BOOLEAN
    BY DEF Results
  <2>7. Len(Append(f, x.ok)) = Len(g) /\ Append(f, x.ok) \in Flagged
    BY <1>2, <2>1, <2>6 DEF Flagged
  <2>8. \A n \in 1..Len(g) : Append(f, x.ok)[n] = g[n]
    BY <1>2, <1>3, <2>1, <2>5 DEF Flagged
  <2>9. g = Append(f, x.ok)
    BY <1>2, <2>7, <2>8 DEF Flagged
  <2>10. QED
    BY <1>6, <2>9 DEF f, g, b
<1>7. CASE x.kind # kind
  <2>1. Len(f) = Len(g)
    BY <1>2, <1>4, <1>7
  <2>2. f = g
    BY <1>2, <1>3, <2>1 DEF Flagged
  <2>3. QED
    BY <1>7, <2>2 DEF f, g, b
<1>8. QED
  BY <1>6, <1>7

\* Every result is of one kind or the other.
LEMMA FlagsCount ==
  ASSUME NEW e \in Seq(Results)
  PROVE  Len(Flags(e, "step")) + Len(Flags(e, "assertion")) = Len(e)
<1> DEFINE S == Positions(e, "step")
           T == Positions(e, "assertion")
<1>1. /\ Len(Flags(e, "step")) = Cardinality(S) /\ Len(Flags(e, "assertion")) = Cardinality(T)
      /\ IsFiniteSet(S) /\ IsFiniteSet(T) /\ Len(e) \in Nat
  BY FlagsFacts
<1>2. S \cup T = 1..Len(e) /\ S \cap T = {}
  <2>1. \A i \in 1..Len(e) : e[i].kind \in {"step", "assertion"}
    <3>1. \A i \in 1..Len(e) : e[i] \in Results
      OBVIOUS
    <3>2. QED
      BY <3>1 DEF Results
  <2>2. QED
    BY <2>1 DEF Positions
<1> HIDE DEF S, T
<1>3. Cardinality(S \cup T) = Cardinality(S) + Cardinality(T)
  <2>1. Cardinality(S \cup T) = Cardinality(S) + Cardinality(T) - Cardinality(S \cap T)
    BY <1>1, FS_Union
  <2>2. Cardinality(S \cap T) = 0
    BY <1>2, FS_EmptySet
  <2>3. Cardinality(S) \in Nat /\ Cardinality(T) \in Nat
    BY <1>1, FS_CardinalityType
  <2>4. QED
    BY <2>1, <2>2, <2>3
<1>4. Cardinality(1..Len(e)) = Len(e)
  <2> DEFINE m == Len(e)
  <2>1. m \in Nat
    BY <1>1
  <2> HIDE DEF m
  <2>2. Cardinality(1..m) = IF 1 > m THEN 0 ELSE m - 1 + 1
    BY <2>1, FS_Interval
  <2>3. Cardinality(1..m) = m
    BY <2>1, <2>2
  <2>4. QED
    BY <2>3 DEF m
<1>5. QED
  BY <1>1, <1>2, <1>3, <1>4 DEF S, T

LEMMA SummarizeType ==
  ASSUME NEW s \in Flagged, NEW t \in Flagged
  PROVE  Summarize(s, t) \in Summaries
<1>1. \A u \in Flagged, b \in BOOLEAN : Cardinality({i \in DOMAIN u : u[i] = b}) \in Nat
  <2> SUFFICES ASSUME NEW u \in Flagged, NEW b \in BOOLEAN
               PROVE  Cardinality({i \in DOMAIN u : u[i] = b}) \in Nat
    OBVIOUS
  <2>1. DOMAIN u = 1..Len(u) /\ Len(u) \in Nat
    BY DEF Flagged
  <2>2. IsFiniteSet(DOMAIN u)
    BY <2>1, FS_Interval
  <2>3. QED
    BY <2>2, FS_Subset, FS_CardinalityType
<1>2. QED
  BY <1>1 DEF Summarize, Summaries

-----------------------------------------------------------------------------
(* The inductive invariant.                                                *)

Updating == {"selectForUpdate", "selectedForUpdate", "write"}

\* Which store call each client can be in.
CallsMatch ==
    /\ \A p \in Pollers : op[p].stage \in {"idle", "select", "selected", "error"}
    /\ op["link"].stage # "idle" => brokenAt = 0 /\ applied < Len(emitted)
    /\ pc \in {"queued", "running", "flushing", "recovering", "ended"} => op["main"].stage = "idle"
    /\ pc \in {"validating", "starting", "finalising", "reporting"} =>
          op["main"].stage \in Updating \cup {"written", "conflict", "error"}
    /\ pc = "rereading" => op["main"].stage \in {"select", "selected", "error"}
    /\ pc \in {"queued", "validating", "starting"} => ledger = "off"
    /\ pc \in {"flushing", "finalising"} => ledger = "resolved"
    /\ outcome # "none" => pc = "ended"

\* Versions only grow, and equal versions mean equal rows: what a client expects is not
\* newer than what its own SELECT returned, and that is not newer than the row.
VersionsAgree ==
    /\ cache <= row.version
    /\ \A c \in Clients :
          /\ op[c].got.version <= row.version
          /\ Terminal(op[c].got) => Terminal(row)
          /\ op[c].stage \in {"selected", "selectedForUpdate", "write"} /\ op[c].got.version = row.version =>
                op[c].got = row
          /\ op[c].stage = "selectForUpdate" => op[c].expected <= row.version
          /\ op[c].stage \in {"selectedForUpdate", "write"} => op[c].expected <= op[c].got.version
          /\ op[c].stage = "written" => op[c].expected < row.version

\* Unless its update is bound to conflict, a patch was computed from the row as it is.
PatchesCurrent ==
    /\ op["link"].stage \in Updating =>
          /\ op["link"].patch \in StepPatches \cup AssertionPatches
          /\ row.version = op["link"].expected =>
                ~Terminal(row) /\ op["link"].patch = LinkPatch(row, emitted[applied + 1])
    /\ op["main"].stage \in Updating =>
          /\ pc = "validating" => op["main"].patch = [status |-> "validating"]
          /\ pc = "starting" => op["main"].patch = [status |-> "running"]
          /\ pc = "finalising" => op["main"].patch =
                FinalPatch(Flags(emitted, "step"), Flags(emitted, "assertion"),
                           IF AllPassed(emitted) THEN "passed" ELSE "failed")
          /\ pc = "reporting" => op["main"].patch \in FinalPatches /\ op["main"].patch.status = "failed"
          /\ pc = "reporting" /\ row.version = op["main"].expected =>
                op["main"].patch = FinalPatch(row.steps, row.assertions, "failed")

\* The row holds the first n results.
Shows(n) ==
    /\ row.steps = Flags(SubSeq(emitted, 1, n), "step")
    /\ row.assertions = Flags(SubSeq(emitted, 1, n), "assertion")

\* Until the report is terminal it holds the results of the completed links, and that of
\* the current link once its UPDATE was committed.
EvidenceKept ==
    /\ row.summary = Summarize(row.steps, row.assertions)
    /\ \/ Terminal(row) /\ \E n \in 0..Len(emitted) : Shows(n)
       \/ ~Terminal(row) /\ Shows(applied) /\ op["link"].stage # "written"
       \/ /\ ~Terminal(row) /\ applied < Len(emitted) /\ Shows(applied + 1)
          /\ op["link"].stage \in {"written", "error"} \/ brokenAt > 0

\* Where execute() is when the report is terminal.
StatusFits ==
    /\ pc \in {"queued", "validating"} => row.status \in {"requested", "validating"}
    /\ Terminal(row) =>
          \/ pc = "finalising" /\ op["main"].stage = "written"
          \/ pc = "finalising" /\ op["main"].stage = "error" /\ faults > 0
          \/ pc \in {"recovering", "rereading", "reporting"} /\ cause = "STORE" /\ faults > 0
          \/ pc = "reporting" /\ op["main"].stage \in {"written", "error"}
          \/ pc = "ended"
    /\ pc = "finalising" /\ op["main"].stage = "written" =>
          row.status = IF AllPassed(emitted) THEN "passed" ELSE "failed"

\* A report that passed holds everything.
PassedComplete ==
    /\ row.status = "passed" =>
          ledger = "resolved" /\ AllPassed(emitted) /\ Shows(Len(emitted))
    /\ outcome = "passed" => row.status = "passed"

ExecutionInv ==
    /\ TypeOK /\ CallsMatch /\ VersionsAgree /\ PatchesCurrent
    /\ EvidenceKept /\ StatusFits /\ PassedComplete

-----------------------------------------------------------------------------
(* Initial states.                                                         *)

LEMMA EmptyFlags ==
  /\ \A kind : Flags(<<>>, kind) = <<>>
  /\ <<>> \in Seq(Results) /\ SubSeq(<<>>, 1, 0) = <<>>
  /\ <<>> \in Flagged /\ Summarize(<<>>, <<>>) \in Summaries
<1>1. <<>> \in Seq(Results) /\ <<>> \in Flagged /\ SubSeq(<<>>, 1, 0) = <<>>
  BY DEF Flagged
<1>2. ASSUME NEW kind
      PROVE  Flags(<<>>, kind) = <<>>
  <2>1. Positions(<<>>, kind) = {}
    BY DEF Positions
  <2>2. Flags(<<>>, kind) \in Flagged /\ Len(Flags(<<>>, kind)) = 0
    BY <1>1, <2>1, FlagsFacts, FS_EmptySet
  <2>3. QED
    BY <2>2 DEF Flagged
<1>3. Summarize(<<>>, <<>>) \in Summaries
  BY <1>1, SummarizeType
<1>4. QED
  BY <1>1, <1>2, <1>3

LEMMA ExecutionInit == Init => ExecutionInv
<1> SUFFICES ASSUME Init PROVE ExecutionInv
  OBVIOUS
<1> USE DEF Init
<1>1. Created \in Rows /\ Created.status = "requested" /\ Created.version = 0
  BY EmptyFlags DEF Created, Rows, Statuses
<1>2. Idle \in Calls /\ Idle.stage = "idle" /\ Idle.got = Created
  BY <1>1 DEF Idle, Calls, Patches
<1>3. "main" \in Clients /\ "link" \in Clients /\ Pollers \subseteq Clients
  BY DEF Clients
<1>4. TypeOK
  <2>1. {MaxCallbacks, MaxPolls, MaxFaults} \subseteq Nat /\ Len(emitted) = 0 /\ emitted \in Seq(Results)
    BY BoundsAssumption, EmptyFlags
  <2>2. op \in [Clients -> Calls] /\ polls \in [Pollers -> 0..MaxPolls] /\ faults \in 0..MaxFaults
    BY <1>2, <2>1
  <2>3. aborted \in BOOLEAN /\ up \in BOOLEAN
    OBVIOUS
  <2>4. applied \in 0..Len(emitted) /\ awaiting \in 0..Len(emitted) /\ brokenAt \in {0, applied + 1}
    BY <2>1
  <2>5. QED
    BY <1>1, <1>3, <2>1, <2>2, <2>3, <2>4 DEF TypeOK
<1>5. \A c \in Clients : op[c] = Idle
  OBVIOUS
<1>6. CallsMatch /\ VersionsAgree /\ PatchesCurrent /\ StatusFits /\ PassedComplete
  BY <1>1, <1>2, <1>3, <1>5
     DEF CallsMatch, VersionsAgree, PatchesCurrent, StatusFits, PassedComplete, Terminal, Updating
<1>7. EvidenceKept
  <2>1. row.summary = Summarize(row.steps, row.assertions) /\ ~Terminal(row)
    BY DEF Created, Terminal
  <2>2. Shows(applied)
    BY EmptyFlags DEF Shows, Created
  <2>3. QED
    BY <1>2, <1>3, <1>5, <2>1, <2>2 DEF EvidenceKept
<1>8. QED
  BY <1>4, <1>6, <1>7 DEF ExecutionInv

-----------------------------------------------------------------------------
(* The row an UPDATE writes.                                               *)

LEMMA WrittenFacts ==
  ASSUME TypeOK, NEW c \in Clients
  PROVE  LET w == Written(c)
             p == op[c].patch
             g == op[c].got
         IN  /\ w \in Rows /\ w.version = row.version + 1
             /\ p \in StatusPatches => /\ w.status = p.status /\ w.steps = g.steps
                                       /\ w.assertions = g.assertions /\ w.summary = g.summary
             /\ p \in StepPatches => /\ w.status = g.status /\ w.steps = p.steps
                                     /\ w.assertions = g.assertions /\ w.summary = p.summary
             /\ p \in AssertionPatches => /\ w.status = g.status /\ w.steps = g.steps
                                          /\ w.assertions = p.assertions /\ w.summary = p.summary
             /\ p \in FinalPatches => /\ w.status = p.status /\ w.steps = p.steps
                                      /\ w.assertions = p.assertions /\ w.summary = p.summary
<1> DEFINE w == Written(c)
           p == op[c].patch
           g == op[c].got
           Field(f) == IF f \in DOMAIN p THEN p[f] ELSE g[f]
<1>1. row \in Rows /\ g \in Rows /\ DOMAIN row = {"status", "steps", "assertions", "summary", "version"}
  BY DEF TypeOK, Calls, Rows
<1>2. p \in {NoPatch} \cup StatusPatches \cup StepPatches \cup AssertionPatches \cup FinalPatches
  BY DEF TypeOK, Calls, Patches
<1>3. w = [f \in {"status", "steps", "assertions", "summary", "version"} |->
              IF f = "version" THEN row.version + 1 ELSE Field(f)]
  BY <1>1 DEF Written
<1> HIDE DEF w, p, g
<1>4. /\ w.status = Field("status") /\ w.steps = Field("steps") /\ w.assertions = Field("assertions")
      /\ w.summary = Field("summary") /\ w.version = row.version + 1
  BY <1>3
<1>5. w = [status |-> Field("status"), steps |-> Field("steps"), assertions |-> Field("assertions"),
           summary |-> Field("summary"), version |-> row.version + 1]
  BY <1>3
<1>6. /\ p \in StatusPatches => DOMAIN p = {"status"}
      /\ p \in StepPatches => DOMAIN p = {"steps", "summary"}
      /\ p \in AssertionPatches => DOMAIN p = {"assertions", "summary"}
      /\ p \in FinalPatches => DOMAIN p = {"status", "steps", "assertions", "summary"}
      /\ p = NoPatch => DOMAIN p = {}
  BY DEF StatusPatches, StepPatches, AssertionPatches, FinalPatches, NoPatch
<1>7. /\ Field("status") \in Statuses /\ Field("steps") \in Flagged /\ Field("assertions") \in Flagged
      /\ Field("summary") \in Summaries
  BY <1>1, <1>2, <1>6 DEF Rows, StatusPatches, StepPatches, AssertionPatches, FinalPatches
<1>8. w \in Rows /\ w.version = row.version + 1
  BY <1>1, <1>4, <1>5, <1>7 DEF Rows
<1>9. QED
  BY <1>4, <1>6, <1>8 DEF w, p, g

-----------------------------------------------------------------------------
(* The calls of the store.                                                 *)

LEMMA ClientFacts ==
  /\ "main" \in Clients /\ "link" \in Clients /\ Pollers \subseteq Clients
  /\ "main" \notin Pollers /\ "link" \notin Pollers
  /\ \A c \in Clients : c \in {"main", "link"} \/ c \in Pollers
BY BoundsAssumption DEF Clients

LEMMA IdleFacts ==
  /\ Created \in Rows /\ ~Terminal(Created) /\ Created.version = 0
  /\ Idle \in Calls /\ Idle = [stage |-> "idle", expected |-> 0, patch |-> NoPatch, got |-> Created]
<1>1. Created \in Rows /\ ~Terminal(Created) /\ Created.version = 0
  BY EmptyFlags DEF Created, Rows, Statuses, Terminal
<1>2. QED
  BY <1>1 DEF Idle, Calls, Patches

\* Get and Update put a client into a new call, Return ends the one it is in.
LEMMA CallFacts ==
  ASSUME TypeOK, NEW c \in Clients
  PROVE  /\ Get(c) => /\ op' \in [Clients -> Calls]
                      /\ op'[c] = [stage |-> "select", expected |-> 0, patch |-> NoPatch, got |-> Created]
                      /\ \A d \in Clients : d # c => op'[d] = op[d]
         /\ Return(c) => /\ op' \in [Clients -> Calls]
                         /\ op'[c] = Idle
                         /\ \A d \in Clients : d # c => op'[d] = op[d]
         /\ \A patch \in Patches, seen \in Nat :
               Update(c, patch, seen) =>
                  /\ op' \in [Clients -> Calls]
                  /\ op'[c] = [stage |-> "selectForUpdate", expected |-> seen, patch |-> patch, got |-> Created]
                  /\ \A d \in Clients : d # c => op'[d] = op[d]
<1>1. op \in [Clients -> Calls]
  BY DEF TypeOK
<1>2. \A call \in Calls : op' = [op EXCEPT ![c] = call]
                         => /\ op' \in [Clients -> Calls] /\ op'[c] = call
                            /\ \A d \in Clients : d # c => op'[d] = op[d]
  BY <1>1
<1>3. ASSUME Get(c)
      PROVE  /\ op' \in [Clients -> Calls]
             /\ op'[c] = [stage |-> "select", expected |-> 0, patch |-> NoPatch, got |-> Created]
             /\ \A d \in Clients : d # c => op'[d] = op[d]
  <2>1. [Idle EXCEPT !.stage = "select"]
        = [stage |-> "select", expected |-> 0, patch |-> NoPatch, got |-> Created]
    BY IdleFacts
  <2>2. [stage |-> "select", expected |-> 0, patch |-> NoPatch, got |-> Created] \in Calls
    BY IdleFacts DEF Calls, Patches
  <2>3. QED
    BY <1>2, <1>3, <2>1, <2>2 DEF Get
<1>4. ASSUME NEW patch \in Patches, NEW seen \in Nat, Update(c, patch, seen)
      PROVE  /\ op' \in [Clients -> Calls]
             /\ op'[c] = [stage |-> "selectForUpdate", expected |-> seen, patch |-> patch, got |-> Created]
             /\ \A d \in Clients : d # c => op'[d] = op[d]
  <2> DEFINE staged == [stage |-> "selectForUpdate", expected |-> 0, patch |-> NoPatch, got |-> Created]
             expecting == [stage |-> "selectForUpdate", expected |-> seen, patch |-> NoPatch, got |-> Created]
             call == [stage |-> "selectForUpdate", expected |-> seen, patch |-> patch, got |-> Created]
  <2>1. [Idle EXCEPT !.stage = "selectForUpdate"] = staged
    BY IdleFacts
  <2>2. [staged EXCEPT !.expected = seen] = expecting
    OBVIOUS
  <2>3. [expecting EXCEPT !.patch = patch] = call
    OBVIOUS
  <2>4. op' = [op EXCEPT ![c] = call]
    <3> HIDE DEF staged, expecting, call
    <3>1. QED
      BY <1>4, <2>1, <2>2, <2>3 DEF Update
  <2>5. call \in Calls
    BY IdleFacts DEF Calls
  <2> HIDE DEF call
  <2>6. op' \in [Clients -> Calls] /\ op'[c] = call /\ \A d \in Clients : d # c => op'[d] = op[d]
    BY <1>2, <2>4, <2>5
  <2>7. QED
    BY <2>6 DEF call
<1>5. ASSUME Return(c)
      PROVE  op' \in [Clients -> Calls] /\ op'[c] = Idle /\ \A d \in Clients : d # c => op'[d] = op[d]
  BY <1>2, <1>5, IdleFacts DEF Return
<1>6. QED
  BY <1>3, <1>4, <1>5

\* An answer or a query moves a call to its next stage; a SELECT also returns the row.
LEMMA StageFacts ==
  ASSUME TypeOK, NEW c \in Clients,
         NEW stage \in {"idle", "select", "selected", "selectForUpdate", "selectedForUpdate",
                        "write", "written", "conflict", "error"}
  PROVE  /\ op' = [op EXCEPT ![c].stage = stage]
            => /\ op' \in [Clients -> Calls]
               /\ op'[c].stage = stage /\ op'[c].expected = op[c].expected
               /\ op'[c].patch = op[c].patch /\ op'[c].got = op[c].got
               /\ \A d \in Clients : d # c => op'[d] = op[d]
         /\ op' = [op EXCEPT ![c].stage = stage, ![c].got = row]
            => /\ op' \in [Clients -> Calls]
               /\ op'[c].stage = stage /\ op'[c].expected = op[c].expected
               /\ op'[c].patch = op[c].patch /\ op'[c].got = row
               /\ \A d \in Clients : d # c => op'[d] = op[d]
<1> DEFINE q == [stage |-> stage, expected |-> op[c].expected, patch |-> op[c].patch, got |-> op[c].got]
           r == [stage |-> stage, expected |-> op[c].expected, patch |-> op[c].patch, got |-> row]
           mid == [op EXCEPT ![c].stage = stage]
<1>1. op \in [Clients -> Calls] /\ row \in Rows /\ op[c] \in Calls
  BY DEF TypeOK
<1>2. q \in Calls /\ r \in Calls
  BY <1>1 DEF Calls
<1>3. op[c] = [stage |-> op[c].stage, expected |-> op[c].expected, patch |-> op[c].patch, got |-> op[c].got]
  BY <1>1 DEF Calls
<1>4. [op[c] EXCEPT !.stage = stage] = q
  BY <1>3
<1>5. [q EXCEPT !.got = row] = r
  OBVIOUS
<1> HIDE DEF q, r
<1>6. mid \in [Clients -> Calls] /\ mid[c] = q /\ \A d \in Clients : d # c => mid[d] = op[d]
  BY <1>1, <1>2, <1>4
<1>7. ASSUME op' = [op EXCEPT ![c].stage = stage, ![c].got = row]
      PROVE  op' \in [Clients -> Calls] /\ op'[c] = r /\ \A d \in Clients : d # c => op'[d] = op[d]
  <2>1. op' = [mid EXCEPT ![c].got = row]
    BY <1>7
  <2> HIDE DEF mid
  <2>2. QED
    BY <1>2, <1>5, <1>6, <2>1
<1>8. QED
  BY <1>6, <1>7 DEF q, r

\* The database answers a SELECT with the row as it is.
LEMMA DbSelectStep ==
  ASSUME ExecutionInv, NEW c \in Clients, DbSelect(c)
  PROVE  ExecutionInv'
<1> USE DEF ExecutionInv
<1>1. /\ op' \in [Clients -> Calls] /\ \A d \in Clients : d # c => op'[d] = op[d]
      /\ op'[c].got = row /\ op'[c].expected = op[c].expected /\ op'[c].patch = op[c].patch
      /\ \/ op[c].stage = "select" /\ op'[c].stage = "selected"
         \/ op[c].stage = "selectForUpdate" /\ op'[c].stage = "selectedForUpdate"
  <2>1. CASE op[c].stage = "select"
    BY <2>1, StageFacts DEF DbSelect
  <2>2. CASE op[c].stage = "selectForUpdate"
    BY <2>2, StageFacts DEF DbSelect
  <2>3. QED
    BY <2>1, <2>2 DEF DbSelect
<1>2. row.version \in Nat /\ op[c].expected \in Nat
  BY DEF TypeOK, Rows, Calls
<1>3. TypeOK'
  BY <1>1, <1>2, ClientFacts, IdleFacts DEF DbSelect, mainVars, chainVars, TypeOK
<1>4. CallsMatch'
  BY <1>1, <1>2, ClientFacts, IdleFacts DEF DbSelect, mainVars, chainVars, CallsMatch, Updating
<1>5. VersionsAgree'
  BY <1>1, <1>2, ClientFacts, IdleFacts DEF DbSelect, mainVars, chainVars, VersionsAgree, Terminal
<1>6. PatchesCurrent'
  BY <1>1, <1>2, ClientFacts, IdleFacts DEF DbSelect, mainVars, chainVars, PatchesCurrent, Updating, Terminal
<1>7. EvidenceKept'
  BY <1>1, <1>2, ClientFacts, IdleFacts DEF DbSelect, mainVars, chainVars, EvidenceKept, Shows, Terminal
<1>8. StatusFits'
  BY <1>1, <1>2, ClientFacts, IdleFacts DEF DbSelect, mainVars, chainVars, StatusFits, Terminal
<1>9. PassedComplete'
  BY <1>1, <1>2, ClientFacts, IdleFacts DEF DbSelect, mainVars, chainVars, PassedComplete, Shows
<1>10. QED
  BY <1>3, <1>4, <1>5, <1>6, <1>7, <1>8, <1>9

\* The answer of an update's own get() refreshes the cache, and the UPDATE goes out.
LEMMA UpdateReadsStep ==
  ASSUME ExecutionInv, NEW c \in Clients, UpdateReads(c)
  PROVE  ExecutionInv'
<1> USE DEF ExecutionInv
<1>1. /\ op' \in [Clients -> Calls] /\ \A d \in Clients : d # c => op'[d] = op[d]
      /\ op'[c].got = op[c].got /\ op'[c].expected = op[c].expected /\ op'[c].patch = op[c].patch
      /\ op[c].stage = "selectedForUpdate" /\ op'[c].stage = "write"
  BY StageFacts DEF UpdateReads, Answered
<1>2. op[c].got.version \in Nat
  BY DEF TypeOK, Rows, Calls
<1>3. TypeOK'
  BY <1>1, <1>2, ClientFacts, IdleFacts DEF UpdateReads, mainVars, chainVars, TypeOK
<1>4. CallsMatch'
  BY <1>1, <1>2, ClientFacts, IdleFacts DEF UpdateReads, mainVars, chainVars, CallsMatch, Updating
<1>5. VersionsAgree'
  BY <1>1, <1>2, ClientFacts, IdleFacts DEF UpdateReads, mainVars, chainVars, VersionsAgree, Terminal
<1>6. PatchesCurrent'
  BY <1>1, <1>2, ClientFacts, IdleFacts DEF UpdateReads, mainVars, chainVars, PatchesCurrent, Updating, Terminal
<1>7. EvidenceKept'
  BY <1>1, <1>2, ClientFacts, IdleFacts DEF UpdateReads, mainVars, chainVars, EvidenceKept, Shows, Terminal
<1>8. StatusFits'
  BY <1>1, <1>2, ClientFacts, IdleFacts DEF UpdateReads, mainVars, chainVars, StatusFits, Terminal
<1>9. PassedComplete'
  BY <1>1, <1>2, ClientFacts, IdleFacts DEF UpdateReads, mainVars, chainVars, PassedComplete, Shows
<1>10. QED
  BY <1>3, <1>4, <1>5, <1>6, <1>7, <1>8, <1>9

\* A GET request sends its SELECT.
LEMMA PollSendsStep ==
  ASSUME ExecutionInv, NEW p \in Pollers, PollSends(p)
  PROVE  ExecutionInv'
<1> USE DEF ExecutionInv
<1>1. /\ op' \in [Clients -> Calls] /\ \A d \in Clients : d # p => op'[d] = op[d]
      /\ op'[p] = [stage |-> "select", expected |-> 0, patch |-> NoPatch, got |-> Created]
  BY CallFacts, ClientFacts DEF PollSends
<1>2. row.version \in Nat
  BY DEF TypeOK, Rows
<1>3. polls' \in [Pollers -> 0..MaxPolls]
  BY BoundsAssumption DEF PollSends, TypeOK
<1>4. TypeOK'
  BY <1>1, <1>2, <1>3, ClientFacts, IdleFacts DEF PollSends, mainVars, chainVars, TypeOK
<1>5. CallsMatch'
  BY <1>1, <1>2, <1>3, ClientFacts, IdleFacts DEF PollSends, mainVars, chainVars, CallsMatch, Updating
<1>6. VersionsAgree'
  BY <1>1, <1>2, <1>3, ClientFacts, IdleFacts DEF PollSends, mainVars, chainVars, VersionsAgree, Terminal
<1>7. PatchesCurrent'
  BY <1>1, <1>2, <1>3, ClientFacts, IdleFacts DEF PollSends, mainVars, chainVars, PatchesCurrent, Updating, Terminal
<1>8. EvidenceKept'
  BY <1>1, <1>2, <1>3, ClientFacts, IdleFacts DEF PollSends, mainVars, chainVars, EvidenceKept, Shows, Terminal
<1>9. StatusFits'
  BY <1>1, <1>2, <1>3, ClientFacts, IdleFacts DEF PollSends, mainVars, chainVars, StatusFits, Terminal
<1>10. PassedComplete'
  BY <1>1, <1>2, <1>3, ClientFacts, IdleFacts DEF PollSends, mainVars, chainVars, PassedComplete, Shows
<1>11. QED
  BY <1>4, <1>5, <1>6, <1>7, <1>8, <1>9, <1>10

\* A GET request is answered, and leaves the version it read in the cache.
LEMMA PollReturnsStep ==
  ASSUME ExecutionInv, NEW p \in Pollers, PollReturns(p)
  PROVE  ExecutionInv'
<1> USE DEF ExecutionInv
<1>1. /\ op' \in [Clients -> Calls] /\ \A d \in Clients : d # p => op'[d] = op[d]
      /\ op'[p] = Idle
  BY CallFacts, ClientFacts DEF PollReturns
<1>2. row.version \in Nat /\ op[p].got.version \in Nat /\ p \in Clients
  BY ClientFacts DEF TypeOK, Rows, Calls
<1>3. TypeOK'
  BY <1>1, <1>2, ClientFacts, IdleFacts DEF PollReturns, mainVars, chainVars, TypeOK
<1>4. CallsMatch'
  BY <1>1, <1>2, ClientFacts, IdleFacts DEF PollReturns, mainVars, chainVars, CallsMatch, Updating
<1>5. VersionsAgree'
  BY <1>1, <1>2, ClientFacts, IdleFacts DEF PollReturns, mainVars, chainVars, VersionsAgree, Terminal
<1>6. PatchesCurrent'
  BY <1>1, <1>2, ClientFacts, IdleFacts DEF PollReturns, mainVars, chainVars, PatchesCurrent, Updating, Terminal
<1>7. EvidenceKept'
  BY <1>1, <1>2, ClientFacts, IdleFacts DEF PollReturns, mainVars, chainVars, EvidenceKept, Shows, Terminal
<1>8. StatusFits'
  BY <1>1, <1>2, ClientFacts, IdleFacts DEF PollReturns, mainVars, chainVars, StatusFits, Terminal
<1>9. PassedComplete'
  BY <1>1, <1>2, ClientFacts, IdleFacts DEF PollReturns, mainVars, chainVars, PassedComplete, Shows
<1>10. QED
  BY <1>3, <1>4, <1>5, <1>6, <1>7, <1>8, <1>9

\* An UPDATE whose expected version is the row's replaces the row its own SELECT returned.
LEMMA WriterSawRow ==
  ASSUME ExecutionInv, NEW c \in Clients, op[c].stage = "write", row.version = op[c].expected
  PROVE  op[c].got = row /\ c \in {"main", "link"}
<1>1. row.version \in Nat /\ op[c].got.version \in Nat /\ op[c].expected \in Nat
  BY DEF ExecutionInv, TypeOK, Rows, Calls
<1>2. op[c].expected <= op[c].got.version /\ op[c].got.version <= row.version
  BY DEF ExecutionInv, VersionsAgree
<1>3. op[c].got.version = row.version
  BY <1>1, <1>2
<1>4. op[c].got = row
  BY <1>3 DEF ExecutionInv, VersionsAgree
<1>5. c \notin Pollers
  BY DEF ExecutionInv, CallsMatch
<1>6. QED
  BY <1>4, <1>5, ClientFacts

\* What a link writes: the row with the next result appended.
LEMMA LinkWriteFacts ==
  ASSUME ExecutionInv, op["link"].stage = "write", row.version = op["link"].expected, row' = Written("link"),
         UNCHANGED <<emitted, applied>>
  PROVE  /\ row' \in Rows /\ row'.version = row.version + 1 /\ row'.status = row.status
         /\ ~Terminal(row) /\ applied < Len(emitted) /\ brokenAt = 0
         /\ Shows(applied) /\ Shows(applied + 1)'
         /\ row'.summary = Summarize(row'.steps, row'.assertions)
         /\ IsPrefix(row.steps, row'.steps) /\ IsPrefix(row.assertions, row'.assertions)
<1> DEFINE x == emitted[applied + 1]
           e == SubSeq(emitted, 1, applied)
<1> USE DEF ExecutionInv
<1>1. op["link"].got = row /\ "link" \in Clients
  BY WriterSawRow, ClientFacts
<1>2. brokenAt = 0 /\ applied < Len(emitted)
  BY DEF CallsMatch
<1>3. ~Terminal(row) /\ op["link"].patch = LinkPatch(row, x) /\ op["link"].patch \in StepPatches \cup AssertionPatches
  BY DEF PatchesCurrent, Updating
<1>4. applied \in Nat /\ Len(emitted) \in Nat /\ emitted \in Seq(Results) /\ row \in Rows
  BY DEF TypeOK
<1>5. Shows(applied)
  BY <1>2, <1>3 DEF EvidenceKept
<1>6. x \in Results /\ SubSeq(emitted, 1, applied + 1) = Append(e, x) /\ e \in Seq(Results)
  BY <1>2, <1>4
<1>7. /\ Written("link") \in Rows /\ Written("link").version = row.version + 1
      /\ op["link"].patch \in StepPatches =>
            /\ Written("link").status = row.status /\ Written("link").steps = op["link"].patch.steps
            /\ Written("link").assertions = row.assertions /\ Written("link").summary = op["link"].patch.summary
      /\ op["link"].patch \in AssertionPatches =>
            /\ Written("link").status = row.status /\ Written("link").steps = row.steps
            /\ Written("link").assertions = op["link"].patch.assertions
            /\ Written("link").summary = op["link"].patch.summary
  BY <1>1, WrittenFacts
<1> HIDE DEF x, e
<1>8. \A s \in Flagged : IsPrefix(s, s) /\ \A b : IsPrefix(s, Append(s, b))
  BY DEF IsPrefix, Flagged
<1>9. row.steps \in Flagged /\ row.assertions \in Flagged
  BY <1>4 DEF Rows
<1>10. row.steps = Flags(e, "step") /\ row.assertions = Flags(e, "assertion")
  BY <1>5 DEF Shows, e
<1>11. CASE x.kind = "step"
  <2>1. op["link"].patch = [steps |-> Append(row.steps, x.ok),
                            summary |-> Summarize(Append(row.steps, x.ok), row.assertions)]
    BY <1>3, <1>11 DEF LinkPatch
  <2>2. op["link"].patch \in StepPatches
    <3>1. op["link"].patch \notin AssertionPatches
      BY <2>1 DEF AssertionPatches
    <3>2. QED
      BY <1>3, <3>1
  <2>3. /\ op["link"].patch.steps = Append(row.steps, x.ok)
        /\ op["link"].patch.summary = Summarize(Append(row.steps, x.ok), row.assertions)
    BY <2>1
  <2>4. /\ row'.status = row.status /\ row'.steps = Append(row.steps, x.ok) /\ row'.assertions = row.assertions
        /\ row'.summary = Summarize(row'.steps, row'.assertions)
    BY <1>7, <2>2, <2>3
  <2>5. /\ Flags(Append(e, x), "step") = Append(Flags(e, "step"), x.ok)
        /\ Flags(Append(e, x), "assertion") = Flags(e, "assertion")
    BY <1>6, <1>11, FlagsAppend
  <2>6. Shows(applied + 1)'
    BY <1>6, <1>10, <2>4, <2>5 DEF Shows
  <2>7. QED
    BY <1>2, <1>3, <1>5, <1>7, <1>8, <1>9, <2>4, <2>6
<1>12. CASE x.kind = "assertion"
  <2>1. op["link"].patch = [assertions |-> Append(row.assertions, x.ok),
                            summary |-> Summarize(row.steps, Append(row.assertions, x.ok))]
    BY <1>3, <1>12 DEF LinkPatch
  <2>2. op["link"].patch \in AssertionPatches
    <3>1. op["link"].patch \notin StepPatches
      BY <2>1 DEF StepPatches
    <3>2. QED
      BY <1>3, <3>1
  <2>3. /\ op["link"].patch.assertions = Append(row.assertions, x.ok)
        /\ op["link"].patch.summary = Summarize(row.steps, Append(row.assertions, x.ok))
    BY <2>1
  <2>4. /\ row'.status = row.status /\ row'.assertions = Append(row.assertions, x.ok) /\ row'.steps = row.steps
        /\ row'.summary = Summarize(row'.steps, row'.assertions)
    BY <1>7, <2>2, <2>3
  <2>5. /\ Flags(Append(e, x), "assertion") = Append(Flags(e, "assertion"), x.ok)
        /\ Flags(Append(e, x), "step") = Flags(e, "step")
    BY <1>6, <1>12, FlagsAppend
  <2>6. Shows(applied + 1)'
    BY <1>6, <1>10, <2>4, <2>5 DEF Shows
  <2>7. QED
    BY <1>2, <1>3, <1>5, <1>7, <1>8, <1>9, <2>4, <2>6
<1>13. QED
  BY <1>6, <1>11, <1>12 DEF Results

\* What the row holds is a beginning of what was reported.
LEMMA EvidenceIsPrefix ==
  ASSUME ExecutionInv
  PROVE  \E n \in 0..Len(emitted) : /\ Shows(n)
                                    /\ n >= applied \/ Terminal(row)
<1>1. applied \in 0..Len(emitted) /\ Len(emitted) \in Nat
  BY DEF ExecutionInv, TypeOK
<1>2. CASE Terminal(row) /\ \E n \in 0..Len(emitted) : Shows(n)
  BY <1>2
<1>3. CASE Shows(applied)
  BY <1>1, <1>3
<1>4. CASE Shows(applied + 1) /\ applied < Len(emitted)
  BY <1>1, <1>4
<1>5. QED
  BY <1>2, <1>3, <1>4 DEF ExecutionInv, EvidenceKept

\* What execute() writes: a status, or a final report with at least what is stored.
LEMMA MainWriteFacts ==
  ASSUME ExecutionInv, op["main"].stage = "write", row.version = op["main"].expected, row' = Written("main")
  PROVE  /\ row' \in Rows /\ row'.version = row.version + 1
         /\ pc \in {"validating", "starting", "finalising", "reporting"}
         /\ row'.summary = Summarize(row'.steps, row'.assertions)
         /\ pc = "validating" => row'.status = "validating"
         /\ pc = "starting" => row'.status = "running"
         /\ pc \in {"validating", "starting"} => ~Terminal(row)
         /\ pc = "finalising" => /\ ~Terminal(row) /\ row'.status = IF AllPassed(emitted) THEN "passed" ELSE "failed"
                                 /\ row'.steps = Flags(emitted, "step") /\ row'.assertions = Flags(emitted, "assertion")
         /\ pc = "reporting" => /\ row'.status = "failed"
                                /\ Terminal(row) => cause = "STORE" /\ faults > 0
         /\ pc # "finalising" => /\ row'.steps = row.steps /\ row'.assertions = row.assertions
                                 /\ row'.summary = row.summary
<1> DEFINE p == op["main"].patch
           w == Written("main")
<1> USE DEF ExecutionInv
<1>1. op["main"].got = row /\ "main" \in Clients
  BY WriterSawRow, ClientFacts
<1>2. /\ w \in Rows /\ w.version = row.version + 1
      /\ p \in StatusPatches => /\ w.status = p.status /\ w.steps = row.steps
                                /\ w.assertions = row.assertions /\ w.summary = row.summary
      /\ p \in FinalPatches => /\ w.status = p.status /\ w.steps = p.steps
                               /\ w.assertions = p.assertions /\ w.summary = p.summary
  BY <1>1, WrittenFacts
<1>3. pc \in {"validating", "starting", "finalising", "reporting"}
  BY DEF CallsMatch, TypeOK, Updating
<1>4. row.summary = Summarize(row.steps, row.assertions)
  BY DEF EvidenceKept
<1>5. row.steps \in Flagged /\ row.assertions \in Flagged /\ emitted \in Seq(Results)
  BY DEF TypeOK, Rows
<1>6. \A s \in Flagged, t \in Flagged, status \in Statuses :
         /\ FinalPatch(s, t, status) \in FinalPatches
         /\ FinalPatch(s, t, status).status = status /\ FinalPatch(s, t, status).steps = s
         /\ FinalPatch(s, t, status).assertions = t /\ FinalPatch(s, t, status).summary = Summarize(s, t)
  BY SummarizeType DEF FinalPatch, FinalPatches
<1> HIDE DEF w, p
<1>7. CASE pc = "validating"
  <2>1. p = [status |-> "validating"] /\ p \in StatusPatches
    BY <1>7 DEF PatchesCurrent, Updating, p, StatusPatches, Statuses
  <2>2. ~Terminal(row)
    BY <1>7 DEF StatusFits, Terminal
  <2>3. QED
    BY <1>2, <1>4, <1>7, <2>1, <2>2 DEF w
<1>8. CASE pc = "starting"
  <2>1. p = [status |-> "running"] /\ p \in StatusPatches
    BY <1>8 DEF PatchesCurrent, Updating, p, StatusPatches, Statuses
  <2>2. ~Terminal(row)
    BY <1>8 DEF StatusFits
  <2>3. QED
    BY <1>2, <1>4, <1>8, <2>1, <2>2 DEF w
<1>9. CASE pc = "finalising"
  <2> DEFINE status == IF AllPassed(emitted) THEN "passed" ELSE "failed"
  <2>1. p = FinalPatch(Flags(emitted, "step"), Flags(emitted, "assertion"), status)
    BY <1>9 DEF PatchesCurrent, Updating, p
  <2>2. status \in Statuses
    BY DEF Statuses
  <2>3. Flags(emitted, "step") \in Flagged /\ Flags(emitted, "assertion") \in Flagged
    BY <1>5, FlagsFacts
  <2> HIDE DEF status
  <2>4. p \in FinalPatches /\ p.status = status /\ p.steps = Flags(emitted, "step")
        /\ p.assertions = Flags(emitted, "assertion") /\ p.summary = Summarize(p.steps, p.assertions)
    BY <1>6, <2>1, <2>2, <2>3
  <2>5. ~Terminal(row)
    BY <1>9 DEF StatusFits
  <2>6. QED
    BY <1>2, <1>9, <2>4, <2>5 DEF w, status
<1>10. CASE pc = "reporting"
  <2>1. p = FinalPatch(row.steps, row.assertions, "failed")
    BY <1>10 DEF PatchesCurrent, Updating, p
  <2>2. p \in FinalPatches /\ p.status = "failed" /\ p.steps = row.steps
        /\ p.assertions = row.assertions /\ p.summary = Summarize(p.steps, p.assertions)
    BY <1>5, <1>6, <2>1 DEF Statuses
  <2>3. Terminal(row) => cause = "STORE" /\ faults > 0
    BY <1>10 DEF StatusFits
  <2>4. QED
    BY <1>2, <1>4, <1>10, <2>2, <2>3 DEF w
<1>11. QED
  BY <1>3, <1>7, <1>8, <1>9, <1>10

\* The UPDATE commits, and its answer arrives or is lost.
LEMMA WriteStep ==
  ASSUME ExecutionInv, NEW c \in Clients, op[c].stage = "write", row.version = op[c].expected,
         row' = Written(c), lastWriter' = c, NEW stage \in {"written", "error"},
         op' = [op EXCEPT ![c].stage = stage],
         faults' \in 0..MaxFaults, faults <= faults', stage = "error" => faults' > 0,
         UNCHANGED <<cache, polls, mainVars, ledger, chainVars, up>>
  PROVE  ExecutionInv'
<1> USE DEF ExecutionInv
<1>1. /\ op' \in [Clients -> Calls] /\ \A d \in Clients : d # c => op'[d] = op[d]
      /\ op'[c].stage = stage /\ op'[c].expected = op[c].expected
      /\ op'[c].patch = op[c].patch /\ op'[c].got = op[c].got
  BY StageFacts
<1>2. op[c].got = row /\ c \in {"main", "link"}
  BY WriterSawRow
<1>3. /\ row.version \in Nat /\ faults \in Nat
      /\ applied \in Nat /\ Len(emitted) \in Nat /\ emitted \in Seq(Results) /\ applied <= Len(emitted)
  BY DEF TypeOK, Rows
<1>4. c = "link" => /\ row' \in Rows /\ row'.version = row.version + 1 /\ row'.status = row.status
                    /\ ~Terminal(row) /\ applied < Len(emitted) /\ brokenAt = 0
                    /\ Shows(applied + 1)'
                    /\ row'.summary = Summarize(row'.steps, row'.assertions)
  BY LinkWriteFacts DEF chainVars
<1>5. c = "main" =>
         /\ row' \in Rows /\ row'.version = row.version + 1
         /\ pc \in {"validating", "starting", "finalising", "reporting"}
         /\ row'.summary = Summarize(row'.steps, row'.assertions)
         /\ pc = "validating" => row'.status = "validating"
         /\ pc = "starting" => row'.status = "running"
         /\ pc \in {"validating", "starting"} => ~Terminal(row)
         /\ pc = "finalising" => /\ ~Terminal(row) /\ row'.status = IF AllPassed(emitted) THEN "passed" ELSE "failed"
                                 /\ row'.steps = Flags(emitted, "step") /\ row'.assertions = Flags(emitted, "assertion")
         /\ pc = "reporting" => /\ row'.status = "failed"
                                /\ Terminal(row) => cause = "STORE" /\ faults > 0
         /\ pc # "finalising" => /\ row'.steps = row.steps /\ row'.assertions = row.assertions
                                 /\ row'.summary = row.summary
  BY MainWriteFacts
<1>6. row' \in Rows /\ row'.version = row.version + 1
  BY <1>2, <1>4, <1>5
<1>7. Terminal(row) => Terminal(row')
  BY <1>2, <1>4, <1>5 DEF Terminal
<1>8. SubSeq(emitted, 1, Len(emitted)) = emitted
  BY <1>3
<1>9. TypeOK'
  BY <1>1, <1>6 DEF TypeOK, mainVars, chainVars
<1>10. CallsMatch'
  BY <1>1, <1>2, <1>3, <1>4, <1>5, ClientFacts DEF CallsMatch, Updating, mainVars, chainVars
<1>11. VersionsAgree'
  <2>1. cache' <= row'.version
    BY <1>3, <1>6 DEF VersionsAgree, TypeOK
  <2>2. \A d \in Clients : op[d].got.version \in Nat /\ op[d].expected \in Nat
    BY DEF TypeOK, Calls, Rows
  <2>3. \A d \in Clients : op[d].got.version < row'.version
    BY <1>3, <1>6, <2>2 DEF VersionsAgree
  <2>4. \A d \in Clients : op'[d].got = op[d].got /\ op'[d].expected = op[d].expected
    BY <1>1
  <2>5. \A d \in Clients : Terminal(op'[d].got) => Terminal(row')
    BY <1>7, <2>4 DEF VersionsAgree
  <2>6. \A d \in Clients : op'[d].stage = op[d].stage \/ d = c
    BY <1>1
  <2>7. op[c].expected < row'.version
    BY <1>3, <1>6
  <2>8. \A d \in Clients : op'[d].stage = "selectForUpdate" => op'[d].expected <= row'.version
    BY <1>1, <1>3, <1>6, <2>2, <2>4 DEF VersionsAgree
  <2>9. \A d \in Clients : op'[d].stage \in {"selectedForUpdate", "write"} => op'[d].expected <= op'[d].got.version
    BY <1>1, <2>4 DEF VersionsAgree
  <2>10. \A d \in Clients : op'[d].stage = "written" => op'[d].expected < row'.version
    BY <1>1, <1>3, <1>6, <2>2, <2>4, <2>6, <2>7 DEF VersionsAgree
  <2>11. QED
    BY <2>1, <2>2, <2>3, <2>4, <2>5, <2>8, <2>9, <2>10, <1>3, <1>6 DEF VersionsAgree
<1>12. PatchesCurrent'
  <2>1. \A d \in {"main", "link"} : op'[d].stage \in Updating =>
           /\ op'[d].stage = op[d].stage /\ op'[d].patch = op[d].patch /\ op'[d].expected = op[d].expected
           /\ row'.version # op'[d].expected
    <3>1. \A d \in {"main", "link"} : op[d].expected \in Nat /\ op[d].got.version \in Nat
      BY ClientFacts DEF TypeOK, Calls, Rows
    <3>2. \A d \in {"main", "link"} : op[d].stage \in Updating => op[d].expected <= row.version
      BY <1>3, <3>1, ClientFacts DEF VersionsAgree, Updating
    <3>3. QED
      BY <1>1, <1>3, <1>6, <3>1, <3>2, ClientFacts DEF Updating
  <2>2. QED
    BY <2>1 DEF PatchesCurrent, mainVars, chainVars
<1>13. EvidenceKept'
  <2>1. CASE c = "link"
    <3>1. ~Terminal(row')
      BY <1>4, <2>1 DEF Terminal
    <3>2. QED
      BY <1>1, <1>4, <2>1, <3>1, ClientFacts DEF EvidenceKept, chainVars
  <2>2. CASE c = "main" /\ pc = "finalising"
    <3>1. Terminal(row') /\ Shows(Len(emitted))'
      BY <1>5, <1>8, <2>2 DEF Terminal, Shows, chainVars
    <3>2. Len(emitted) \in 0..Len(emitted)'
      BY <1>3 DEF chainVars
    <3>3. \E n \in 0..Len(emitted)' : Shows(n)'
      BY <3>1, <3>2 DEF chainVars, Shows
    <3>4. QED
      BY <1>5, <2>2, <3>1, <3>3 DEF EvidenceKept
  <2>3. CASE c = "main" /\ pc # "finalising"
    <3>1. \A n : Shows(n)' <=> Shows(n)
      BY <1>5, <2>3 DEF Shows, chainVars
    <3>2. op'["link"] = op["link"] /\ applied \in 0..Len(emitted) /\ (applied < Len(emitted) => applied + 1 \in 0..Len(emitted))
      BY <1>1, <1>3, <2>3, ClientFacts
    <3>3. row'.summary = Summarize(row'.steps, row'.assertions)
      BY <1>5, <2>3
    <3>4. \E n \in 0..Len(emitted) : Shows(n)
      BY EvidenceIsPrefix
    <3>5. QED
      BY <1>7, <3>1, <3>2, <3>3, <3>4 DEF EvidenceKept, chainVars
  <2>4. QED
    BY <1>2, <2>1, <2>2, <2>3
<1>14. StatusFits'
  <2>1. CASE c = "link"
    BY <1>1, <1>3, <1>4, <2>1, ClientFacts DEF StatusFits, Terminal, mainVars, chainVars
  <2>2. CASE c = "main"
    <3>1. op'["main"].stage = stage
      BY <1>1, <2>2
    <3>2. QED
      BY <1>3, <1>5, <2>2, <3>1 DEF StatusFits, Terminal, mainVars, chainVars
  <2>3. QED
    BY <1>2, <2>1, <2>2
<1>15. PassedComplete'
  <2>1. outcome = "none" \/ pc = "ended"
    BY DEF CallsMatch
  <2>2. CASE c = "link"
    <3>1. row.status # "passed" /\ row'.status # "passed" /\ outcome # "passed"
      BY <1>4, <2>2 DEF Terminal, PassedComplete
    <3>2. QED
      BY <3>1 DEF PassedComplete, mainVars
  <2>3. CASE c = "main"
    <3>1. outcome # "passed"
      BY <1>5, <2>1, <2>3
    <3>2. row'.status = "passed" => pc = "finalising" /\ AllPassed(emitted)
      BY <1>5, <2>3
    <3>3. pc = "finalising" => ledger = "resolved"
      BY DEF CallsMatch
    <3>4. pc = "finalising" => Shows(Len(emitted))'
      BY <1>5, <1>8, <2>3 DEF Shows, chainVars
    <3>5. QED
      BY <3>1, <3>2, <3>3, <3>4 DEF PassedComplete, Shows, AllPassed, mainVars, chainVars
  <2>4. QED
    BY <1>2, <2>2, <2>3
<1>16. QED
  BY <1>9, <1>10, <1>11, <1>12, <1>13, <1>14, <1>15


\* A query fails or a version does not match, and the row stays as it was.
LEMMA WriteLostStep ==
  ASSUME ExecutionInv, NEW c \in Clients, op[c].stage \in {"select", "selectForUpdate", "write"},
         NEW stage \in {"conflict", "error"}, op' = [op EXCEPT ![c].stage = stage],
         stage = "conflict" => op[c].stage = "write",
         faults' \in 0..MaxFaults, faults <= faults',
         UNCHANGED <<row, lastWriter, cache, polls, mainVars, ledger, chainVars, up>>
  PROVE  ExecutionInv'
<1> USE DEF ExecutionInv
<1>1. /\ op' \in [Clients -> Calls] /\ \A d \in Clients : d # c => op'[d] = op[d]
      /\ op'[c].stage = stage /\ op'[c].expected = op[c].expected
      /\ op'[c].patch = op[c].patch /\ op'[c].got = op[c].got
  BY StageFacts
<1>2. faults \in Nat /\ faults' \in Nat
  BY BoundsAssumption DEF TypeOK
<1>3. op[c].stage = "write" => c \notin Pollers
  BY DEF CallsMatch
<1>4. TypeOK'
  BY <1>1, <1>2, <1>3, ClientFacts, IdleFacts DEF mainVars, chainVars, TypeOK
<1>5. CallsMatch'
  BY <1>1, <1>2, <1>3, ClientFacts, IdleFacts DEF mainVars, chainVars, CallsMatch, Updating
<1>6. VersionsAgree'
  BY <1>1, <1>2, <1>3, ClientFacts, IdleFacts DEF mainVars, chainVars, VersionsAgree, Terminal
<1>7. PatchesCurrent'
  BY <1>1, <1>2, <1>3, ClientFacts, IdleFacts DEF mainVars, chainVars, PatchesCurrent, Updating, Terminal
<1>8. EvidenceKept'
  BY <1>1, <1>2, <1>3, ClientFacts, IdleFacts DEF mainVars, chainVars, EvidenceKept, Shows, Terminal
<1>9. StatusFits'
  BY <1>1, <1>2, <1>3, ClientFacts, IdleFacts DEF mainVars, chainVars, StatusFits, Terminal
<1>10. PassedComplete'
  BY <1>1, <1>2, <1>3, ClientFacts, IdleFacts DEF mainVars, chainVars, PassedComplete, Shows
<1>11. QED
  BY <1>4, <1>5, <1>6, <1>7, <1>8, <1>9, <1>10

\* The database executes an UPDATE, or a query fails.
LEMMA DatabaseStep ==
  ASSUME ExecutionInv, NEW c \in Clients, DbUpdate(c) \/ DbFails(c)
  PROVE  ExecutionInv'
<1>1. faults \in 0..MaxFaults /\ MaxFaults \in Nat
  BY BoundsAssumption DEF ExecutionInv, TypeOK
<1>2. CASE DbUpdate(c)
  <2>1. faults' \in 0..MaxFaults /\ faults <= faults'
    BY <1>1, <1>2 DEF DbUpdate
  <2>2. CASE row.version = op[c].expected
    BY <1>2, <2>1, <2>2, WriteStep DEF DbUpdate
  <2>3. CASE row.version # op[c].expected
    BY <1>2, <2>1, <2>3, WriteLostStep DEF DbUpdate
  <2>4. QED
    BY <2>2, <2>3
<1>3. CASE DbFails(c)
  <2>1. faults' \in 0..MaxFaults /\ faults <= faults' /\ faults' > 0
    BY <1>1, <1>3 DEF DbFails
  <2>2. CASE UNCHANGED <<row, lastWriter>>
    BY <1>3, <2>1, <2>2, WriteLostStep DEF DbFails
  <2>3. CASE op[c].stage = "write" /\ row.version = op[c].expected /\ row' = Written(c) /\ lastWriter' = c
    BY <1>3, <2>1, <2>3, WriteStep DEF DbFails
  <2>4. QED
    BY <1>3, <2>2, <2>3 DEF DbFails
<1>4. QED
  BY <1>2, <1>3

\* The next link of the chain starts with a get().
LEMMA LinkBeginsStep ==
  ASSUME ExecutionInv, LinkBegins
  PROVE  ExecutionInv'
<1> USE DEF ExecutionInv
<1>1. /\ op' \in [Clients -> Calls] /\ \A d \in Clients : d # "link" => op'[d] = op[d]
      /\ op'["link"] = [stage |-> "select", expected |-> 0, patch |-> NoPatch, got |-> Created]
  BY CallFacts, ClientFacts DEF LinkBegins
<1>2. row.version \in Nat /\ applied \in Nat /\ Len(emitted) \in Nat /\ \A c \in Clients : op[c].got.version \in Nat /\ op[c].expected \in Nat
  BY DEF TypeOK, Rows, Calls
<1>3. TypeOK'
  BY <1>1, <1>2, ClientFacts, IdleFacts DEF LinkBegins, mainVars, chainVars, TypeOK
<1>4. CallsMatch'
  BY <1>1, <1>2, ClientFacts, IdleFacts DEF LinkBegins, mainVars, chainVars, CallsMatch, Updating
<1>5. VersionsAgree'
  BY <1>1, <1>2, ClientFacts, IdleFacts DEF LinkBegins, mainVars, chainVars, VersionsAgree, Terminal
<1>6. PatchesCurrent'
  BY <1>1, <1>2, ClientFacts, IdleFacts DEF LinkBegins, mainVars, chainVars, PatchesCurrent, Updating, Terminal
<1>7. EvidenceKept'
  BY <1>1, <1>2, ClientFacts, IdleFacts DEF LinkBegins, mainVars, chainVars, EvidenceKept, Shows, Terminal
<1>8. StatusFits'
  BY <1>1, <1>2, ClientFacts, IdleFacts DEF LinkBegins, mainVars, chainVars, StatusFits, Terminal
<1>9. PassedComplete'
  BY <1>1, <1>2, ClientFacts, IdleFacts DEF LinkBegins, mainVars, chainVars, PassedComplete, Shows
<1>10. QED
  BY <1>3, <1>4, <1>5, <1>6, <1>7, <1>8, <1>9

\* A link whose UPDATE committed has completed.
LEMMA LinkWritesStep ==
  ASSUME ExecutionInv, LinkWrites
  PROVE  ExecutionInv'
<1> USE DEF ExecutionInv
<1>1. /\ op' \in [Clients -> Calls] /\ \A d \in Clients : d # "link" => op'[d] = op[d]
      /\ op'["link"] = Idle
  BY CallFacts, ClientFacts DEF LinkWrites
<1>2. row.version \in Nat /\ applied \in Nat /\ Len(emitted) \in Nat /\ \A c \in Clients : op[c].got.version \in Nat /\ op[c].expected \in Nat
  BY DEF TypeOK, Rows, Calls
<1>3. op["link"].stage = "written" /\ brokenAt = 0 /\ applied < Len(emitted)
  BY DEF LinkWrites, Answered, CallsMatch
<1>4. TypeOK'
  BY <1>1, <1>2, <1>3, ClientFacts, IdleFacts DEF LinkWrites, mainVars, chainVars, TypeOK
<1>5. CallsMatch'
  BY <1>1, <1>2, <1>3, ClientFacts, IdleFacts DEF LinkWrites, mainVars, chainVars, CallsMatch, Updating
<1>6. VersionsAgree'
  BY <1>1, <1>2, <1>3, ClientFacts, IdleFacts DEF LinkWrites, mainVars, chainVars, VersionsAgree, Terminal
<1>7. PatchesCurrent'
  BY <1>1, <1>2, <1>3, ClientFacts, IdleFacts DEF LinkWrites, mainVars, chainVars, PatchesCurrent, Updating, Terminal
<1>8. EvidenceKept'
  BY <1>1, <1>2, <1>3, ClientFacts, IdleFacts DEF LinkWrites, mainVars, chainVars, EvidenceKept, Shows, Terminal
<1>9. StatusFits'
  BY <1>1, <1>2, <1>3, ClientFacts, IdleFacts DEF LinkWrites, mainVars, chainVars, StatusFits, Terminal
<1>10. PassedComplete'
  BY <1>1, <1>2, <1>3, ClientFacts, IdleFacts DEF LinkWrites, mainVars, chainVars, PassedComplete, Shows
<1>11. QED
  BY <1>4, <1>5, <1>6, <1>7, <1>8, <1>9, <1>10

\* A link whose query failed or conflicted breaks the chain.
LEMMA LinkRejectsStep ==
  ASSUME ExecutionInv, LinkRejects
  PROVE  ExecutionInv'
<1> USE DEF ExecutionInv
<1>1. /\ op' \in [Clients -> Calls] /\ \A d \in Clients : d # "link" => op'[d] = op[d]
      /\ op'["link"] = Idle
  BY CallFacts, ClientFacts DEF LinkRejects
<1>2. row.version \in Nat /\ applied \in Nat /\ Len(emitted) \in Nat /\ \A c \in Clients : op[c].got.version \in Nat /\ op[c].expected \in Nat
  BY DEF TypeOK, Rows, Calls
<1>3. op["link"].stage \in {"error", "conflict"} /\ brokenAt = 0 /\ applied < Len(emitted)
  BY DEF LinkRejects, Rejected, CallsMatch
<1>4. up' \in BOOLEAN
  BY DEF LinkRejects
<1>5. TypeOK'
  BY <1>1, <1>2, <1>3, <1>4, ClientFacts, IdleFacts DEF LinkRejects, mainVars, chainVars, TypeOK
<1>6. CallsMatch'
  BY <1>1, <1>2, <1>3, <1>4, ClientFacts, IdleFacts DEF LinkRejects, mainVars, chainVars, CallsMatch, Updating
<1>7. VersionsAgree'
  BY <1>1, <1>2, <1>3, <1>4, ClientFacts, IdleFacts DEF LinkRejects, mainVars, chainVars, VersionsAgree, Terminal
<1>8. PatchesCurrent'
  BY <1>1, <1>2, <1>3, <1>4, ClientFacts, IdleFacts DEF LinkRejects, mainVars, chainVars, PatchesCurrent, Updating, Terminal
<1>9. EvidenceKept'
  BY <1>1, <1>2, <1>3, <1>4, ClientFacts, IdleFacts DEF LinkRejects, mainVars, chainVars, EvidenceKept, Shows, Terminal
<1>10. StatusFits'
  BY <1>1, <1>2, <1>3, <1>4, ClientFacts, IdleFacts DEF LinkRejects, mainVars, chainVars, StatusFits, Terminal
<1>11. PassedComplete'
  BY <1>1, <1>2, <1>3, <1>4, ClientFacts, IdleFacts DEF LinkRejects, mainVars, chainVars, PassedComplete, Shows
<1>12. QED
  BY <1>5, <1>6, <1>7, <1>8, <1>9, <1>10, <1>11

\* A result is reported, on time or late.
LEMMA LedgerReportsStep ==
  ASSUME ExecutionInv, NEW result \in Results, LedgerReports(result)
  PROVE  ExecutionInv'
<1> USE DEF ExecutionInv
<1>1. row.version \in Nat /\ applied \in Nat /\ Len(emitted) \in Nat /\ \A c \in Clients : op[c].got.version \in Nat /\ op[c].expected \in Nat
  BY DEF TypeOK, Rows, Calls
<1>2. /\ emitted' \in Seq(Results) /\ Len(emitted') = Len(emitted) + 1
      /\ \A n \in 0..Len(emitted) : SubSeq(emitted', 1, n) = SubSeq(emitted, 1, n)
      /\ \A n \in 1..Len(emitted) : emitted'[n] = emitted[n]
  BY DEF LedgerReports, TypeOK
<1>3. up' \in BOOLEAN
  BY DEF LedgerReports
<1>4. /\ ledger = "executing" /\ pc \notin {"flushing", "finalising"} /\ row.status # "passed"
  BY DEF LedgerReports, CallsMatch, PassedComplete
<1>5. applied \in 0..Len(emitted) /\ awaiting \in 0..Len(emitted)
  BY DEF TypeOK
<1>6. \A n \in 0..Len(emitted) : n \in 0..Len(emitted') /\ (Shows(n)' <=> Shows(n))
  <2>1. row' = row
    BY DEF LedgerReports, storeVars
  <2>2. ASSUME NEW n \in 0..Len(emitted)
        PROVE  n \in 0..Len(emitted') /\ (Shows(n)' <=> Shows(n))
    <3>1. n \in 0..Len(emitted')
      BY <1>1, <1>2
    <3>2. SubSeq(emitted', 1, n) = SubSeq(emitted, 1, n)
      BY <1>2
    <3>3. QED
      BY <2>1, <3>1, <3>2 DEF Shows
  <2>3. QED
    BY <2>2
<1>7. TypeOK'
  BY <1>1, <1>2, <1>3, <1>4, <1>5, <1>6, ClientFacts, IdleFacts DEF LedgerReports, storeVars, mainVars, chainVars, TypeOK
<1>8. CallsMatch'
  BY <1>1, <1>2, <1>3, <1>4, <1>5, <1>6, ClientFacts, IdleFacts DEF LedgerReports, storeVars, mainVars, chainVars, CallsMatch, Updating
<1>9. VersionsAgree'
  BY <1>1, <1>2, <1>3, <1>4, <1>5, <1>6, ClientFacts, IdleFacts DEF LedgerReports, storeVars, mainVars, chainVars, VersionsAgree, Terminal
<1>10. PatchesCurrent'
  <2>1. UNCHANGED <<row, op, pc, applied>> /\ pc # "finalising"
    BY <1>4 DEF LedgerReports, storeVars, mainVars
  <2>2. op["link"].stage \in Updating => emitted'[applied + 1] = emitted[applied + 1]
    BY <1>1, <1>2 DEF CallsMatch, Updating
  <2>3. QED
    BY <2>1, <2>2 DEF PatchesCurrent, Terminal
<1>11. EvidenceKept'
  BY <1>1, <1>2, <1>3, <1>4, <1>5, <1>6, ClientFacts, IdleFacts DEF LedgerReports, storeVars, mainVars, chainVars, EvidenceKept, Shows, Terminal
<1>12. StatusFits'
  BY <1>1, <1>2, <1>3, <1>4, <1>5, <1>6, ClientFacts, IdleFacts DEF LedgerReports, storeVars, mainVars, chainVars, StatusFits, Terminal
<1>13. PassedComplete'
  BY <1>1, <1>2, <1>3, <1>4, <1>5, <1>6, ClientFacts, IdleFacts DEF LedgerReports, storeVars, mainVars, chainVars, PassedComplete, Shows
<1>14. QED
  BY <1>7, <1>8, <1>9, <1>10, <1>11, <1>12, <1>13

\* The ledger resolves: the run goes on, unless it has timed out.
LEMMA LedgerResolvesStep ==
  ASSUME ExecutionInv, LedgerResolves
  PROVE  ExecutionInv'
<1> USE DEF ExecutionInv
<1>1. row.version \in Nat /\ applied \in Nat /\ Len(emitted) \in Nat /\ \A c \in Clients : op[c].got.version \in Nat /\ op[c].expected \in Nat
  BY DEF TypeOK, Rows, Calls
<1>2. ledger = "executing" /\ row.status # "passed"
  BY DEF LedgerResolves, PassedComplete
<1>3. TypeOK'
  BY <1>1, <1>2, ClientFacts, IdleFacts DEF LedgerResolves, Catch, storeVars, mainVars, chainVars, TypeOK
<1>4. CallsMatch'
  BY <1>1, <1>2, ClientFacts, IdleFacts DEF LedgerResolves, Catch, storeVars, mainVars, chainVars, CallsMatch, Updating
<1>5. VersionsAgree'
  BY <1>1, <1>2, ClientFacts, IdleFacts DEF LedgerResolves, Catch, storeVars, mainVars, chainVars, VersionsAgree, Terminal
<1>6. PatchesCurrent'
  BY <1>1, <1>2, ClientFacts, IdleFacts DEF LedgerResolves, Catch, storeVars, mainVars, chainVars, PatchesCurrent, Updating, Terminal
<1>7. EvidenceKept'
  BY <1>1, <1>2, ClientFacts, IdleFacts DEF LedgerResolves, Catch, storeVars, mainVars, chainVars, EvidenceKept, Shows, Terminal
<1>8. StatusFits'
  BY <1>1, <1>2, ClientFacts, IdleFacts DEF LedgerResolves, Catch, storeVars, mainVars, chainVars, StatusFits, Terminal
<1>9. PassedComplete'
  BY <1>1, <1>2, ClientFacts, IdleFacts DEF LedgerResolves, Catch, storeVars, mainVars, chainVars, PassedComplete, Shows
<1>10. QED
  BY <1>3, <1>4, <1>5, <1>6, <1>7, <1>8, <1>9

\* The ledger rejects: the run goes on to its catch block, unless it has timed out.
LEMMA LedgerRejectsStep ==
  ASSUME ExecutionInv, LedgerRejects
  PROVE  ExecutionInv'
<1> USE DEF ExecutionInv
<1>1. row.version \in Nat /\ applied \in Nat /\ Len(emitted) \in Nat /\ \A c \in Clients : op[c].got.version \in Nat /\ op[c].expected \in Nat
  BY DEF TypeOK, Rows, Calls
<1>2. ledger = "executing" /\ row.status # "passed"
  BY DEF LedgerRejects, PassedComplete
<1>3. TypeOK'
  BY <1>1, <1>2, ClientFacts, IdleFacts DEF LedgerRejects, Catch, storeVars, mainVars, chainVars, TypeOK
<1>4. CallsMatch'
  BY <1>1, <1>2, ClientFacts, IdleFacts DEF LedgerRejects, Catch, storeVars, mainVars, chainVars, CallsMatch, Updating
<1>5. VersionsAgree'
  BY <1>1, <1>2, ClientFacts, IdleFacts DEF LedgerRejects, Catch, storeVars, mainVars, chainVars, VersionsAgree, Terminal
<1>6. PatchesCurrent'
  BY <1>1, <1>2, ClientFacts, IdleFacts DEF LedgerRejects, Catch, storeVars, mainVars, chainVars, PatchesCurrent, Updating, Terminal
<1>7. EvidenceKept'
  BY <1>1, <1>2, ClientFacts, IdleFacts DEF LedgerRejects, Catch, storeVars, mainVars, chainVars, EvidenceKept, Shows, Terminal
<1>8. StatusFits'
  BY <1>1, <1>2, ClientFacts, IdleFacts DEF LedgerRejects, Catch, storeVars, mainVars, chainVars, StatusFits, Terminal
<1>9. PassedComplete'
  BY <1>1, <1>2, ClientFacts, IdleFacts DEF LedgerRejects, Catch, storeVars, mainVars, chainVars, PassedComplete, Shows
<1>10. QED
  BY <1>3, <1>4, <1>5, <1>6, <1>7, <1>8, <1>9

\* The run times out.
LEMMA RunTimesOutStep ==
  ASSUME ExecutionInv, RunTimesOut
  PROVE  ExecutionInv'
<1> USE DEF ExecutionInv
<1>1. row.version \in Nat /\ applied \in Nat /\ Len(emitted) \in Nat /\ \A c \in Clients : op[c].got.version \in Nat /\ op[c].expected \in Nat
  BY DEF TypeOK, Rows, Calls
<1>2. pc = "running"
  BY DEF RunTimesOut
<1>3. TypeOK'
  BY <1>1, <1>2, ClientFacts, IdleFacts DEF RunTimesOut, Catch, storeVars, mainVars, chainVars, TypeOK
<1>4. CallsMatch'
  BY <1>1, <1>2, ClientFacts, IdleFacts DEF RunTimesOut, Catch, storeVars, mainVars, chainVars, CallsMatch, Updating
<1>5. VersionsAgree'
  BY <1>1, <1>2, ClientFacts, IdleFacts DEF RunTimesOut, Catch, storeVars, mainVars, chainVars, VersionsAgree, Terminal
<1>6. PatchesCurrent'
  BY <1>1, <1>2, ClientFacts, IdleFacts DEF RunTimesOut, Catch, storeVars, mainVars, chainVars, PatchesCurrent, Updating, Terminal
<1>7. EvidenceKept'
  BY <1>1, <1>2, ClientFacts, IdleFacts DEF RunTimesOut, Catch, storeVars, mainVars, chainVars, EvidenceKept, Shows, Terminal
<1>8. StatusFits'
  BY <1>1, <1>2, ClientFacts, IdleFacts DEF RunTimesOut, Catch, storeVars, mainVars, chainVars, StatusFits, Terminal
<1>9. PassedComplete'
  BY <1>1, <1>2, ClientFacts, IdleFacts DEF RunTimesOut, Catch, storeVars, mainVars, chainVars, PassedComplete, Shows
<1>10. QED
  BY <1>3, <1>4, <1>5, <1>6, <1>7, <1>8, <1>9

\* execute() starts: the status becomes validating.
LEMMA ValidateStep ==
  ASSUME ExecutionInv, Validate
  PROVE  ExecutionInv'
<1> USE DEF ExecutionInv
<1>1. [status |-> "validating"] \in Patches /\ cache \in Nat /\ cache <= row.version
  BY DEF TypeOK, VersionsAgree, Patches, StatusPatches, Statuses
<1>2. /\ op' \in [Clients -> Calls] /\ \A d \in Clients : d # "main" => op'[d] = op[d]
      /\ op'["main"] = [stage |-> "selectForUpdate", expected |-> cache, patch |-> [status |-> "validating"], got |-> Created]
  BY <1>1, CallFacts, ClientFacts DEF Validate
<1>3. row.version \in Nat /\ applied \in Nat /\ Len(emitted) \in Nat /\ \A c \in Clients : op[c].got.version \in Nat /\ op[c].expected \in Nat
  BY DEF TypeOK, Rows, Calls
<1>4. TypeOK'
  BY <1>1, <1>2, <1>3, ClientFacts, IdleFacts DEF Validate, mainVars, chainVars, TypeOK
<1>5. CallsMatch'
  BY <1>1, <1>2, <1>3, ClientFacts, IdleFacts DEF Validate, mainVars, chainVars, CallsMatch, Updating
<1>6. VersionsAgree'
  BY <1>1, <1>2, <1>3, ClientFacts, IdleFacts DEF Validate, mainVars, chainVars, VersionsAgree, Terminal
<1>7. PatchesCurrent'
  BY <1>1, <1>2, <1>3, ClientFacts, IdleFacts DEF Validate, mainVars, chainVars, PatchesCurrent, Updating, Terminal
<1>8. EvidenceKept'
  BY <1>1, <1>2, <1>3, ClientFacts, IdleFacts DEF Validate, mainVars, chainVars, EvidenceKept, Shows, Terminal
<1>9. StatusFits'
  BY <1>1, <1>2, <1>3, ClientFacts, IdleFacts DEF Validate, mainVars, chainVars, StatusFits, Terminal
<1>10. PassedComplete'
  BY <1>1, <1>2, <1>3, ClientFacts, IdleFacts DEF Validate, mainVars, chainVars, PassedComplete, Shows
<1>11. QED
  BY <1>4, <1>5, <1>6, <1>7, <1>8, <1>9, <1>10

\* The status was set to validating: it becomes running.
LEMMA StartStep ==
  ASSUME ExecutionInv, Start
  PROVE  ExecutionInv'
<1> USE DEF ExecutionInv
<1>1. row.version \in Nat /\ applied \in Nat /\ Len(emitted) \in Nat /\ \A c \in Clients : op[c].got.version \in Nat /\ op[c].expected \in Nat
  BY DEF TypeOK, Rows, Calls
<1>2. op["main"].stage = "written" /\ op["main"].expected < row.version
  BY ClientFacts DEF Start, Answered, VersionsAgree
<1>3. [status |-> "running"] \in Patches /\ cache' \in Nat /\ cache' <= row.version
  BY <1>1, <1>2, ClientFacts DEF Start, Patches, StatusPatches, Statuses
<1>4. /\ op' \in [Clients -> Calls] /\ \A d \in Clients : d # "main" => op'[d] = op[d]
      /\ op'["main"] = [stage |-> "selectForUpdate", expected |-> cache', patch |-> [status |-> "running"], got |-> Created]
  BY <1>3, CallFacts, ClientFacts DEF Start
<1>5. TypeOK'
  BY <1>1, <1>2, <1>3, <1>4, ClientFacts, IdleFacts DEF Start, mainVars, chainVars, TypeOK
<1>6. CallsMatch'
  BY <1>1, <1>2, <1>3, <1>4, ClientFacts, IdleFacts DEF Start, mainVars, chainVars, CallsMatch, Updating
<1>7. VersionsAgree'
  BY <1>1, <1>2, <1>3, <1>4, ClientFacts, IdleFacts DEF Start, mainVars, chainVars, VersionsAgree, Terminal
<1>8. PatchesCurrent'
  BY <1>1, <1>2, <1>3, <1>4, ClientFacts, IdleFacts DEF Start, mainVars, chainVars, PatchesCurrent, Updating, Terminal
<1>9. EvidenceKept'
  BY <1>1, <1>2, <1>3, <1>4, ClientFacts, IdleFacts DEF Start, mainVars, chainVars, EvidenceKept, Shows, Terminal
<1>10. StatusFits'
  BY <1>1, <1>2, <1>3, <1>4, ClientFacts, IdleFacts DEF Start, mainVars, chainVars, StatusFits, Terminal
<1>11. PassedComplete'
  BY <1>1, <1>2, <1>3, <1>4, ClientFacts, IdleFacts DEF Start, mainVars, chainVars, PassedComplete, Shows
<1>12. QED
  BY <1>5, <1>6, <1>7, <1>8, <1>9, <1>10, <1>11

\* The status was set to running: the ledger is called.
LEMMA LaunchStep ==
  ASSUME ExecutionInv, Launch
  PROVE  ExecutionInv'
<1> USE DEF ExecutionInv
<1>1. row.version \in Nat /\ applied \in Nat /\ Len(emitted) \in Nat /\ \A c \in Clients : op[c].got.version \in Nat /\ op[c].expected \in Nat
  BY DEF TypeOK, Rows, Calls
<1>2. op["main"].stage = "written" /\ op["main"].expected < row.version /\ row.status # "passed"
  BY ClientFacts DEF Launch, Answered, VersionsAgree, StatusFits, Terminal
<1>3. /\ op' \in [Clients -> Calls] /\ \A d \in Clients : d # "main" => op'[d] = op[d]
      /\ op'["main"] = Idle
  BY CallFacts, ClientFacts DEF Launch
<1>4. TypeOK'
  BY <1>1, <1>2, <1>3, ClientFacts, IdleFacts DEF Launch, mainVars, chainVars, TypeOK
<1>5. CallsMatch'
  BY <1>1, <1>2, <1>3, ClientFacts, IdleFacts DEF Launch, mainVars, chainVars, CallsMatch, Updating
<1>6. VersionsAgree'
  BY <1>1, <1>2, <1>3, ClientFacts, IdleFacts DEF Launch, mainVars, chainVars, VersionsAgree, Terminal
<1>7. PatchesCurrent'
  BY <1>1, <1>2, <1>3, ClientFacts, IdleFacts DEF Launch, mainVars, chainVars, PatchesCurrent, Updating, Terminal
<1>8. EvidenceKept'
  BY <1>1, <1>2, <1>3, ClientFacts, IdleFacts DEF Launch, mainVars, chainVars, EvidenceKept, Shows, Terminal
<1>9. StatusFits'
  BY <1>1, <1>2, <1>3, ClientFacts, IdleFacts DEF Launch, mainVars, chainVars, StatusFits, Terminal
<1>10. PassedComplete'
  BY <1>1, <1>2, <1>3, ClientFacts, IdleFacts DEF Launch, mainVars, chainVars, PassedComplete, Shows
<1>11. QED
  BY <1>4, <1>5, <1>6, <1>7, <1>8, <1>9, <1>10

\* Every result is stored: the final report goes out.
LEMMA FinaliseStep ==
  ASSUME ExecutionInv, Finalise
  PROVE  ExecutionInv'
<1> USE DEF ExecutionInv
<1>1. cache \in Nat /\ cache <= row.version
  BY DEF TypeOK, VersionsAgree
<1>2. FinalPatch(Flags(emitted, "step"), Flags(emitted, "assertion"), IF AllPassed(emitted) THEN "passed" ELSE "failed")
      \in Patches
  <2>1. Flags(emitted, "step") \in Flagged /\ Flags(emitted, "assertion") \in Flagged
    BY FlagsFacts DEF TypeOK
  <2>2. QED
    BY <2>1, SummarizeType DEF FinalPatch, Patches, FinalPatches, Statuses
<1>3. /\ op' \in [Clients -> Calls] /\ \A d \in Clients : d # "main" => op'[d] = op[d]
      /\ op'["main"] = [stage |-> "selectForUpdate", expected |-> cache,
                       patch |-> FinalPatch(Flags(emitted, "step"), Flags(emitted, "assertion"),
                                            IF AllPassed(emitted) THEN "passed" ELSE "failed"),
                       got |-> Created]
  BY <1>1, <1>2, CallFacts, ClientFacts DEF Finalise
<1>4. row.version \in Nat /\ applied \in Nat /\ Len(emitted) \in Nat /\ \A c \in Clients : op[c].got.version \in Nat /\ op[c].expected \in Nat
  BY DEF TypeOK, Rows, Calls
<1>5. TypeOK'
  BY <1>1, <1>2, <1>3, <1>4, ClientFacts, IdleFacts DEF Finalise, mainVars, chainVars, TypeOK
<1>6. CallsMatch'
  BY <1>1, <1>2, <1>3, <1>4, ClientFacts, IdleFacts DEF Finalise, mainVars, chainVars, CallsMatch, Updating
<1>7. VersionsAgree'
  BY <1>1, <1>2, <1>3, <1>4, ClientFacts, IdleFacts DEF Finalise, mainVars, chainVars, VersionsAgree, Terminal
<1>8. PatchesCurrent'
  BY <1>1, <1>2, <1>3, <1>4, ClientFacts, IdleFacts DEF Finalise, mainVars, chainVars, PatchesCurrent, Updating, Terminal
<1>9. EvidenceKept'
  BY <1>1, <1>2, <1>3, <1>4, ClientFacts, IdleFacts DEF Finalise, mainVars, chainVars, EvidenceKept, Shows, Terminal
<1>10. StatusFits'
  BY <1>1, <1>2, <1>3, <1>4, ClientFacts, IdleFacts DEF Finalise, mainVars, chainVars, StatusFits, Terminal
<1>11. PassedComplete'
  BY <1>1, <1>2, <1>3, <1>4, ClientFacts, IdleFacts DEF Finalise, mainVars, chainVars, PassedComplete, Shows
<1>12. QED
  BY <1>5, <1>6, <1>7, <1>8, <1>9, <1>10, <1>11

\* The final report is stored, and execute() ends.
LEMMA SucceedStep ==
  ASSUME ExecutionInv, Succeed
  PROVE  ExecutionInv'
<1> USE DEF ExecutionInv
<1>1. row.version \in Nat /\ applied \in Nat /\ Len(emitted) \in Nat /\ \A c \in Clients : op[c].got.version \in Nat /\ op[c].expected \in Nat
  BY DEF TypeOK, Rows, Calls
<1>2. op["main"].stage = "written" /\ op["main"].expected < row.version /\ pc = "finalising"
  BY ClientFacts DEF Succeed, Answered, VersionsAgree
<1>3. row.status = IF AllPassed(emitted) THEN "passed" ELSE "failed"
  BY <1>2 DEF StatusFits
<1>4. /\ op' \in [Clients -> Calls] /\ \A d \in Clients : d # "main" => op'[d] = op[d]
      /\ op'["main"] = Idle
  BY CallFacts, ClientFacts DEF Succeed
<1>5. TypeOK'
  BY <1>1, <1>2, <1>3, <1>4, ClientFacts, IdleFacts DEF Succeed, Finally, mainVars, chainVars, TypeOK
<1>6. CallsMatch'
  BY <1>1, <1>2, <1>3, <1>4, ClientFacts, IdleFacts DEF Succeed, Finally, mainVars, chainVars, CallsMatch, Updating
<1>7. VersionsAgree'
  BY <1>1, <1>2, <1>3, <1>4, ClientFacts, IdleFacts DEF Succeed, Finally, mainVars, chainVars, VersionsAgree, Terminal
<1>8. PatchesCurrent'
  BY <1>1, <1>2, <1>3, <1>4, ClientFacts, IdleFacts DEF Succeed, Finally, mainVars, chainVars, PatchesCurrent, Updating, Terminal
<1>9. EvidenceKept'
  BY <1>1, <1>2, <1>3, <1>4, ClientFacts, IdleFacts DEF Succeed, Finally, mainVars, chainVars, EvidenceKept, Shows, Terminal
<1>10. StatusFits'
  BY <1>1, <1>2, <1>3, <1>4, ClientFacts, IdleFacts DEF Succeed, Finally, mainVars, chainVars, StatusFits, Terminal
<1>11. PassedComplete'
  BY <1>1, <1>2, <1>3, <1>4, ClientFacts, IdleFacts DEF Succeed, Finally, mainVars, chainVars, PassedComplete, Shows
<1>12. QED
  BY <1>5, <1>6, <1>7, <1>8, <1>9, <1>10, <1>11

\* A store call of the try block threw, or the awaited chain did.
LEMMA TryFailsStep ==
  ASSUME ExecutionInv, TryFails
  PROVE  ExecutionInv'
<1> USE DEF ExecutionInv
<1>1. row.version \in Nat /\ applied \in Nat /\ Len(emitted) \in Nat /\ \A c \in Clients : op[c].got.version \in Nat /\ op[c].expected \in Nat
  BY DEF TypeOK, Rows, Calls
<1>2. Terminal(row) => faults > 0
  BY DEF TryFails, Rejected, StatusFits
<1>3. pc \in {"validating", "starting", "finalising", "flushing"}
  BY DEF TryFails
<1>4. /\ op' \in [Clients -> Calls] /\ \A d \in Clients : d # "main" => op'[d] = op[d]
      /\ op'["main"] = Idle
  BY CallFacts, ClientFacts DEF TryFails
<1>5. TypeOK'
  BY <1>1, <1>2, <1>3, <1>4, ClientFacts, IdleFacts DEF TryFails, Catch, mainVars, chainVars, TypeOK
<1>6. CallsMatch'
  BY <1>1, <1>2, <1>3, <1>4, ClientFacts, IdleFacts DEF TryFails, Catch, mainVars, chainVars, CallsMatch, Updating
<1>7. VersionsAgree'
  BY <1>1, <1>2, <1>3, <1>4, ClientFacts, IdleFacts DEF TryFails, Catch, mainVars, chainVars, VersionsAgree, Terminal
<1>8. PatchesCurrent'
  BY <1>1, <1>2, <1>3, <1>4, ClientFacts, IdleFacts DEF TryFails, Catch, mainVars, chainVars, PatchesCurrent, Updating, Terminal
<1>9. EvidenceKept'
  BY <1>1, <1>2, <1>3, <1>4, ClientFacts, IdleFacts DEF TryFails, Catch, mainVars, chainVars, EvidenceKept, Shows, Terminal
<1>10. StatusFits'
  BY <1>1, <1>2, <1>3, <1>4, ClientFacts, IdleFacts DEF TryFails, Catch, mainVars, chainVars, StatusFits, Terminal
<1>11. PassedComplete'
  BY <1>1, <1>2, <1>3, <1>4, ClientFacts, IdleFacts DEF TryFails, Catch, mainVars, chainVars, PassedComplete, Shows
<1>12. QED
  BY <1>5, <1>6, <1>7, <1>8, <1>9, <1>10, <1>11

\* The catch block reads the report.
LEMMA RereadStep ==
  ASSUME ExecutionInv, Reread
  PROVE  ExecutionInv'
<1> USE DEF ExecutionInv
<1>1. row.version \in Nat /\ applied \in Nat /\ Len(emitted) \in Nat /\ \A c \in Clients : op[c].got.version \in Nat /\ op[c].expected \in Nat
  BY DEF TypeOK, Rows, Calls
<1>2. /\ op' \in [Clients -> Calls] /\ \A d \in Clients : d # "main" => op'[d] = op[d]
      /\ op'["main"] = [stage |-> "select", expected |-> 0, patch |-> NoPatch, got |-> Created]
  BY CallFacts, ClientFacts DEF Reread
<1>3. TypeOK'
  BY <1>1, <1>2, ClientFacts, IdleFacts DEF Reread, mainVars, chainVars, TypeOK
<1>4. CallsMatch'
  BY <1>1, <1>2, ClientFacts, IdleFacts DEF Reread, mainVars, chainVars, CallsMatch, Updating
<1>5. VersionsAgree'
  BY <1>1, <1>2, ClientFacts, IdleFacts DEF Reread, mainVars, chainVars, VersionsAgree, Terminal
<1>6. PatchesCurrent'
  BY <1>1, <1>2, ClientFacts, IdleFacts DEF Reread, mainVars, chainVars, PatchesCurrent, Updating, Terminal
<1>7. EvidenceKept'
  BY <1>1, <1>2, ClientFacts, IdleFacts DEF Reread, mainVars, chainVars, EvidenceKept, Shows, Terminal
<1>8. StatusFits'
  BY <1>1, <1>2, ClientFacts, IdleFacts DEF Reread, mainVars, chainVars, StatusFits, Terminal
<1>9. PassedComplete'
  BY <1>1, <1>2, ClientFacts, IdleFacts DEF Reread, mainVars, chainVars, PassedComplete, Shows
<1>10. QED
  BY <1>3, <1>4, <1>5, <1>6, <1>7, <1>8, <1>9

\* The catch block marks as failed what it read.
LEMMA ReportStep ==
  ASSUME ExecutionInv, Report
  PROVE  ExecutionInv'
<1> USE DEF ExecutionInv
<1>1. row.version \in Nat /\ applied \in Nat /\ Len(emitted) \in Nat /\ \A c \in Clients : op[c].got.version \in Nat /\ op[c].expected \in Nat
  BY DEF TypeOK, Rows, Calls
<1>2. /\ op["main"].stage = "selected" /\ op["main"].got \in Rows /\ pc = "rereading"
      /\ cache' = op["main"].got.version /\ cache' <= row.version /\ cache' \in Nat
      /\ row.version = cache' => op["main"].got = row
  BY <1>1, ClientFacts DEF Report, Answered, VersionsAgree, TypeOK, Calls
<1>3. FinalPatch(op["main"].got.steps, op["main"].got.assertions, "failed") \in FinalPatches
  BY <1>2, SummarizeType DEF FinalPatch, FinalPatches, Rows, Statuses
<1>4. FinalPatch(op["main"].got.steps, op["main"].got.assertions, "failed").status = "failed"
  BY DEF FinalPatch
<1>5. /\ op' \in [Clients -> Calls] /\ \A d \in Clients : d # "main" => op'[d] = op[d]
      /\ op'["main"] = [stage |-> "selectForUpdate", expected |-> cache',
                       patch |-> FinalPatch(op["main"].got.steps, op["main"].got.assertions, "failed"),
                       got |-> Created]
  BY <1>2, <1>3, CallFacts, ClientFacts DEF Report, Patches
<1>6. TypeOK'
  BY <1>1, <1>2, <1>3, <1>4, <1>5, ClientFacts, IdleFacts DEF Report, mainVars, chainVars, TypeOK
<1>7. CallsMatch'
  BY <1>1, <1>2, <1>3, <1>4, <1>5, ClientFacts, IdleFacts DEF Report, mainVars, chainVars, CallsMatch, Updating
<1>8. VersionsAgree'
  BY <1>1, <1>2, <1>3, <1>4, <1>5, ClientFacts, IdleFacts DEF Report, mainVars, chainVars, VersionsAgree, Terminal
<1>9. PatchesCurrent'
  BY <1>1, <1>2, <1>3, <1>4, <1>5, ClientFacts, IdleFacts DEF Report, mainVars, chainVars, PatchesCurrent, Updating, Terminal
<1>10. EvidenceKept'
  BY <1>1, <1>2, <1>3, <1>4, <1>5, ClientFacts, IdleFacts DEF Report, mainVars, chainVars, EvidenceKept, Shows, Terminal
<1>11. StatusFits'
  BY <1>1, <1>2, <1>3, <1>4, <1>5, ClientFacts, IdleFacts DEF Report, mainVars, chainVars, StatusFits, Terminal
<1>12. PassedComplete'
  BY <1>1, <1>2, <1>3, <1>4, <1>5, ClientFacts, IdleFacts DEF Report, mainVars, chainVars, PassedComplete, Shows
<1>13. QED
  BY <1>6, <1>7, <1>8, <1>9, <1>10, <1>11, <1>12

\* The failure is stored, and execute() ends.
LEMMA ReportedStep ==
  ASSUME ExecutionInv, Reported
  PROVE  ExecutionInv'
<1> USE DEF ExecutionInv
<1>1. row.version \in Nat /\ applied \in Nat /\ Len(emitted) \in Nat /\ \A c \in Clients : op[c].got.version \in Nat /\ op[c].expected \in Nat
  BY DEF TypeOK, Rows, Calls
<1>2. op["main"].stage = "written" /\ op["main"].expected < row.version /\ pc = "reporting"
  BY ClientFacts DEF Reported, Answered, VersionsAgree
<1>3. /\ op' \in [Clients -> Calls] /\ \A d \in Clients : d # "main" => op'[d] = op[d]
      /\ op'["main"] = Idle
  BY CallFacts, ClientFacts DEF Reported
<1>4. TypeOK'
  BY <1>1, <1>2, <1>3, ClientFacts, IdleFacts DEF Reported, Finally, mainVars, chainVars, TypeOK
<1>5. CallsMatch'
  BY <1>1, <1>2, <1>3, ClientFacts, IdleFacts DEF Reported, Finally, mainVars, chainVars, CallsMatch, Updating
<1>6. VersionsAgree'
  BY <1>1, <1>2, <1>3, ClientFacts, IdleFacts DEF Reported, Finally, mainVars, chainVars, VersionsAgree, Terminal
<1>7. PatchesCurrent'
  BY <1>1, <1>2, <1>3, ClientFacts, IdleFacts DEF Reported, Finally, mainVars, chainVars, PatchesCurrent, Updating, Terminal
<1>8. EvidenceKept'
  BY <1>1, <1>2, <1>3, ClientFacts, IdleFacts DEF Reported, Finally, mainVars, chainVars, EvidenceKept, Shows, Terminal
<1>9. StatusFits'
  BY <1>1, <1>2, <1>3, ClientFacts, IdleFacts DEF Reported, Finally, mainVars, chainVars, StatusFits, Terminal
<1>10. PassedComplete'
  BY <1>1, <1>2, <1>3, ClientFacts, IdleFacts DEF Reported, Finally, mainVars, chainVars, PassedComplete, Shows
<1>11. QED
  BY <1>4, <1>5, <1>6, <1>7, <1>8, <1>9, <1>10

\* The catch block threw: execute() ends.
LEMMA CatchFailsStep ==
  ASSUME ExecutionInv, CatchFails
  PROVE  ExecutionInv'
<1> USE DEF ExecutionInv
<1>1. row.version \in Nat /\ applied \in Nat /\ Len(emitted) \in Nat /\ \A c \in Clients : op[c].got.version \in Nat /\ op[c].expected \in Nat
  BY DEF TypeOK, Rows, Calls
<1>2. pc \in {"recovering", "rereading", "reporting"}
  BY DEF CatchFails
<1>3. /\ op' \in [Clients -> Calls] /\ \A d \in Clients : d # "main" => op'[d] = op[d]
      /\ op'["main"] = Idle
  BY CallFacts, ClientFacts DEF CatchFails
<1>4. TypeOK'
  BY <1>1, <1>2, <1>3, ClientFacts, IdleFacts DEF CatchFails, Finally, mainVars, chainVars, TypeOK
<1>5. CallsMatch'
  BY <1>1, <1>2, <1>3, ClientFacts, IdleFacts DEF CatchFails, Finally, mainVars, chainVars, CallsMatch, Updating
<1>6. VersionsAgree'
  BY <1>1, <1>2, <1>3, ClientFacts, IdleFacts DEF CatchFails, Finally, mainVars, chainVars, VersionsAgree, Terminal
<1>7. PatchesCurrent'
  BY <1>1, <1>2, <1>3, ClientFacts, IdleFacts DEF CatchFails, Finally, mainVars, chainVars, PatchesCurrent, Updating, Terminal
<1>8. EvidenceKept'
  BY <1>1, <1>2, <1>3, ClientFacts, IdleFacts DEF CatchFails, Finally, mainVars, chainVars, EvidenceKept, Shows, Terminal
<1>9. StatusFits'
  BY <1>1, <1>2, <1>3, ClientFacts, IdleFacts DEF CatchFails, Finally, mainVars, chainVars, StatusFits, Terminal
<1>10. PassedComplete'
  BY <1>1, <1>2, <1>3, ClientFacts, IdleFacts DEF CatchFails, Finally, mainVars, chainVars, PassedComplete, Shows
<1>11. QED
  BY <1>4, <1>5, <1>6, <1>7, <1>8, <1>9, <1>10

LEMMA LinkPatchType ==
  ASSUME NEW current \in Rows, NEW result \in Results
  PROVE  LinkPatch(current, result) \in StepPatches \cup AssertionPatches
<1>1. /\ current.steps \in Flagged /\ current.assertions \in Flagged
      /\ result.ok \in BOOLEAN /\ result.kind \in {"step", "assertion"}
  BY DEF Rows, Results
<1>2. \A s \in Flagged, b \in BOOLEAN : Append(s, b) \in Flagged
  BY DEF Flagged
<1>3. CASE result.kind = "step"
  <2>1. LinkPatch(current, result)
        = [steps |-> Append(current.steps, result.ok),
           summary |-> Summarize(Append(current.steps, result.ok), current.assertions)]
    BY <1>3 DEF LinkPatch
  <2>2. Append(current.steps, result.ok) \in Flagged
    BY <1>1, <1>2
  <2>3. Summarize(Append(current.steps, result.ok), current.assertions) \in Summaries
    BY <1>1, <2>2, SummarizeType
  <2>4. QED
    BY <2>1, <2>2, <2>3 DEF StepPatches
<1>4. CASE result.kind = "assertion"
  <2>1. LinkPatch(current, result)
        = [assertions |-> Append(current.assertions, result.ok),
           summary |-> Summarize(current.steps, Append(current.assertions, result.ok))]
    BY <1>4 DEF LinkPatch
  <2>2. Append(current.assertions, result.ok) \in Flagged
    BY <1>1, <1>2
  <2>3. Summarize(current.steps, Append(current.assertions, result.ok)) \in Summaries
    BY <1>1, <2>2, SummarizeType
  <2>4. QED
    BY <2>1, <2>2, <2>3 DEF AssertionPatches
<1>5. QED
  BY <1>1, <1>3, <1>4

\* A link that finds the report terminal has completed; any other computes its patch.
LEMMA LinkReadsStep ==
  ASSUME ExecutionInv, LinkReads
  PROVE  ExecutionInv'
<1> DEFINE current == op["link"].got
<1> USE DEF ExecutionInv
<1>1. row.version \in Nat /\ applied \in Nat /\ Len(emitted) \in Nat /\ \A c \in Clients : op[c].got.version \in Nat /\ op[c].expected \in Nat
  BY DEF TypeOK, Rows, Calls
<1>2. op["link"].stage = "selected" /\ brokenAt = 0 /\ applied < Len(emitted)
  BY DEF LinkReads, Answered, CallsMatch
<1>3. /\ current \in Rows /\ cache' = current.version /\ cache' <= row.version /\ cache' \in Nat
      /\ row.version = cache' => current = row
      /\ Terminal(current) => Terminal(row)
  BY <1>1, <1>2, ClientFacts DEF LinkReads, VersionsAgree, TypeOK, Calls
<1>4. emitted \in Seq(Results) /\ emitted[applied + 1] \in Results
  BY <1>1, <1>2 DEF TypeOK
<1>5. UNCHANGED <<row, lastWriter, faults, polls, mainVars, ledger, emitted, brokenAt, up>>
  BY DEF LinkReads
<1>6. CASE Terminal(current)
  <2>1. /\ op' \in [Clients -> Calls] /\ \A d \in Clients : d # "link" => op'[d] = op[d]
        /\ op'["link"] = Idle
    BY <1>6, CallFacts, ClientFacts DEF LinkReads
  <2>2. applied' = applied + 1 /\ Terminal(row)
    BY <1>3, <1>6 DEF LinkReads
  <2>3. TypeOK'
    BY <1>1, <1>2, <1>3, <1>5, <2>1, <2>2, ClientFacts, IdleFacts DEF mainVars, chainVars, TypeOK
  <2>4. CallsMatch'
    BY <1>1, <1>2, <1>3, <1>5, <2>1, <2>2, ClientFacts, IdleFacts DEF mainVars, chainVars, CallsMatch, Updating
  <2>5. VersionsAgree'
    BY <1>1, <1>2, <1>3, <1>5, <2>1, <2>2, ClientFacts, IdleFacts DEF mainVars, chainVars, VersionsAgree, Terminal
  <2>6. PatchesCurrent'
    BY <1>1, <1>2, <1>3, <1>5, <2>1, <2>2, ClientFacts, IdleFacts DEF mainVars, chainVars, PatchesCurrent, Updating, Terminal
  <2>7. EvidenceKept'
    BY <1>1, <1>2, <1>3, <1>5, <2>1, <2>2, ClientFacts, IdleFacts DEF mainVars, chainVars, EvidenceKept, Shows, Terminal
  <2>8. StatusFits'
    BY <1>1, <1>2, <1>3, <1>5, <2>1, <2>2, ClientFacts, IdleFacts DEF mainVars, chainVars, StatusFits, Terminal
  <2>9. PassedComplete'
    BY <1>1, <1>2, <1>3, <1>5, <2>1, <2>2, ClientFacts, IdleFacts DEF mainVars, chainVars, PassedComplete, Shows
  <2>10. QED
    BY <2>3, <2>4, <2>5, <2>6, <2>7, <2>8, <2>9
<1>7. CASE ~Terminal(current)
  <2> DEFINE p == LinkPatch(current, emitted[applied + 1])
  <2>1. p \in StepPatches \cup AssertionPatches
    BY <1>3, <1>4, LinkPatchType
  <2> HIDE DEF p
  <2>2. Update("link", p, cache') /\ applied' = applied
    BY <1>7 DEF LinkReads, p
  <2>3. p \in Patches
    BY <2>1 DEF Patches
  <2>4. /\ op' \in [Clients -> Calls] /\ \A d \in Clients : d # "link" => op'[d] = op[d]
        /\ op'["link"] = [stage |-> "selectForUpdate", expected |-> cache', patch |-> p, got |-> Created]
    BY <1>3, <2>2, <2>3, CallFacts, ClientFacts
  <2>5. row.version = cache' => ~Terminal(row) /\ p = LinkPatch(row, emitted[applied + 1])
    BY <1>3, <1>7 DEF p
  <2>6. TypeOK'
    BY <1>1, <1>2, <1>3, <1>5, <2>1, <2>2, <2>4, <2>5, ClientFacts, IdleFacts DEF mainVars, chainVars, TypeOK
  <2>7. CallsMatch'
    BY <1>1, <1>2, <1>3, <1>5, <2>1, <2>2, <2>4, <2>5, ClientFacts, IdleFacts DEF mainVars, chainVars, CallsMatch, Updating
  <2>8. VersionsAgree'
    BY <1>1, <1>2, <1>3, <1>5, <2>1, <2>2, <2>4, <2>5, ClientFacts, IdleFacts DEF mainVars, chainVars, VersionsAgree, Terminal
  <2>9. PatchesCurrent'
    BY <1>1, <1>2, <1>3, <1>5, <2>1, <2>2, <2>4, <2>5, ClientFacts, IdleFacts DEF mainVars, chainVars, PatchesCurrent, Updating, Terminal
  <2>10. EvidenceKept'
    BY <1>1, <1>2, <1>3, <1>5, <2>1, <2>2, <2>4, <2>5, ClientFacts, IdleFacts DEF mainVars, chainVars, EvidenceKept, Shows, Terminal
  <2>11. StatusFits'
    BY <1>1, <1>2, <1>3, <1>5, <2>1, <2>2, <2>4, <2>5, ClientFacts, IdleFacts DEF mainVars, chainVars, StatusFits, Terminal
  <2>12. PassedComplete'
    BY <1>1, <1>2, <1>3, <1>5, <2>1, <2>2, <2>4, <2>5, ClientFacts, IdleFacts DEF mainVars, chainVars, PassedComplete, Shows
  <2>13. QED
    BY <2>6, <2>7, <2>8, <2>9, <2>10, <2>11, <2>12
<1>8. QED
  BY <1>6, <1>7

LEMMA ExecutionStutters ==
  ASSUME ExecutionInv, UNCHANGED vars
  PROVE  ExecutionInv'
<1> USE DEF vars, storeVars, mainVars, chainVars
<1>1. TypeOK' /\ CallsMatch' /\ VersionsAgree'
  BY DEF ExecutionInv, TypeOK, CallsMatch, VersionsAgree, Terminal
<1>2. PatchesCurrent' /\ EvidenceKept' /\ StatusFits' /\ PassedComplete'
  BY DEF ExecutionInv, PatchesCurrent, EvidenceKept, StatusFits, PassedComplete, Shows, Terminal
<1>3. QED
  BY <1>1, <1>2 DEF ExecutionInv

LEMMA ExecutionNext == ExecutionInv /\ [Next]_vars => ExecutionInv'
<1> SUFFICES ASSUME ExecutionInv, [Next]_vars PROVE ExecutionInv'
  OBVIOUS
<1>1. CASE Database \/ \E c \in Clients : DbFails(c)
  BY <1>1, DbSelectStep, DatabaseStep DEF Database
<1>2. CASE \E c \in Clients : UpdateReads(c)
  BY <1>2, UpdateReadsStep
<1>3. CASE \E p \in Pollers : PollSends(p) \/ PollReturns(p)
  BY <1>3, PollSendsStep, PollReturnsStep
<1>4. CASE Link
  BY <1>4, LinkBeginsStep, LinkReadsStep, LinkWritesStep, LinkRejectsStep DEF Link
<1>5. CASE Main
  BY <1>5, ValidateStep, StartStep, LaunchStep, FinaliseStep, SucceedStep, TryFailsStep, RereadStep,
     ReportStep, ReportedStep, CatchFailsStep DEF Main
<1>6. CASE Ledger
  BY <1>6, LedgerReportsStep, LedgerResolvesStep, LedgerRejectsStep DEF Ledger
<1>7. CASE RunTimesOut
  BY <1>7, RunTimesOutStep
<1>8. CASE UNCHANGED vars
  BY <1>8, ExecutionStutters
<1>9. QED
  BY <1>1, <1>2, <1>3, <1>4, <1>5, <1>6, <1>7, <1>8 DEF Next

-----------------------------------------------------------------------------
(* The theorems.                                                           *)

\* Whatever a run does, its row, its store calls and its chain of progress links stay
\* in step.
THEOREM ExecutionAlwaysOK == Spec => []ExecutionInv
<1>1. Init => ExecutionInv
  BY ExecutionInit
<1>2. ExecutionInv /\ [Next]_vars => ExecutionInv'
  BY ExecutionNext
<1>3. QED
  BY <1>1, <1>2, PTL DEF Spec

\* No progress link, final update, catch block or poll loses or reorders a result.
THEOREM NoEvidenceLostAlways == Spec => []NoEvidenceLost
<1>1. ExecutionInv => NoEvidenceLost
  <2>1. SUFFICES ASSUME ExecutionInv PROVE NoEvidenceLost
    OBVIOUS
  <2>2. row.summary = Summarize(row.steps, row.assertions)
    BY <2>1 DEF ExecutionInv, EvidenceKept
  <2>3. PICK n \in 0..Len(emitted) : Shows(n) /\ (n >= applied \/ Terminal(row))
    BY <2>1, EvidenceIsPrefix
  <2>4. QED
    BY <2>2, <2>3 DEF NoEvidenceLost, Shows
<1>2. QED
  BY <1>1, ExecutionAlwaysOK, PTL

\* A report stored as passed holds every result, none of which failed, and a run counted
\* as passed is stored as passed.
THEOREM PassedIsEarnedAlways == Spec => []PassedIsEarned
<1>1. ExecutionInv => PassedIsEarned
  <2>1. SUFFICES ASSUME ExecutionInv PROVE PassedIsEarned
    OBVIOUS
  <2>2. emitted \in Seq(Results) /\ SubSeq(emitted, 1, Len(emitted)) = emitted
    BY <2>1 DEF ExecutionInv, TypeOK
  <2>3. Len(Flags(emitted, "step")) + Len(Flags(emitted, "assertion")) = Len(emitted)
    BY <2>2, FlagsCount
  <2>4. row.status = "passed" =>
           /\ ledger = "resolved" /\ AllPassed(emitted)
           /\ row.steps = Flags(emitted, "step") /\ row.assertions = Flags(emitted, "assertion")
    BY <2>1, <2>2 DEF ExecutionInv, PassedComplete, Shows
  <2>5. outcome = "passed" => row.status = "passed"
    BY <2>1 DEF ExecutionInv, PassedComplete
  <2>6. QED
    BY <2>3, <2>4, <2>5 DEF PassedIsEarned
<1>2. QED
  BY <1>1, ExecutionAlwaysOK, PTL

\* Only the UPDATE of a client whose own SELECT returned the row as it is changes the row.
LEMMA RowWriters ==
  ASSUME ExecutionInv, [Next]_vars, row' # row
  PROVE  \E c \in {"main", "link"} :
            /\ op[c].stage = "write" /\ op[c].got = row /\ row.version = op[c].expected
            /\ row' = Written(c) /\ row'.version = row.version + 1
            /\ UNCHANGED <<emitted, applied>>
<1>1. PICK c \in Clients : /\ op[c].stage = "write" /\ row.version = op[c].expected /\ row' = Written(c)
                           /\ UNCHANGED <<emitted, applied>>
  BY DEF Next, Database, DbSelect, DbUpdate, DbFails, UpdateReads, PollSends, PollReturns,
         Link, LinkBegins, LinkReads, LinkWrites, LinkRejects, Main, Validate, Start, Launch, Finalise,
         Succeed, TryFails, Reread, Report, Reported, CatchFails, Ledger, LedgerReports, LedgerResolves,
         LedgerRejects, RunTimesOut, vars, storeVars, chainVars
<1>2. op[c].got = row /\ c \in {"main", "link"}
  BY <1>1, WriterSawRow
<1>3. row'.version = row.version + 1
  BY <1>1, WrittenFacts DEF ExecutionInv
<1>4. QED
  BY <1>1, <1>2, <1>3

Replaces ==
    row' # row => \E c \in Clients :
        /\ op[c].stage = "write"
        /\ op[c].got = row
        /\ row'.version = row.version + 1

\* Every UPDATE that commits replaces exactly the version its own SELECT returned.
THEOREM WritesReplaceWhatTheyReadAlways == Spec => WritesReplaceWhatTheyRead
<1>1. ExecutionInv /\ [Next]_vars => [Replaces]_vars
  BY RowWriters, ClientFacts DEF Replaces
<1>2. Spec => [][Replaces]_vars
  BY <1>1, ExecutionAlwaysOK, PTL DEF Spec
<1>3. QED
  BY <1>2 DEF WritesReplaceWhatTheyRead, Replaces

\* What a reader sees of a run only grows, and a terminal report changes only when the
\* catch block marks it as failed after a query failed.
Grows ==
    /\ IsPrefix(row.steps, row'.steps)
    /\ IsPrefix(row.assertions, row'.assertions)
    /\ Rank(row.status) <= Rank(row'.status)
    /\ Terminal(row) /\ row' # row =>
          /\ pc = "reporting" /\ cause = "STORE" /\ faults > 0
          /\ row' = [row EXCEPT !.status = "failed", !.version = @ + 1]

LEMMA RowGrows ==
  ASSUME ExecutionInv, [Next]_vars
  PROVE  Grows
<1> USE DEF ExecutionInv
<1>1. row \in Rows /\ emitted \in Seq(Results) /\ applied \in 0..Len(emitted)
  BY DEF TypeOK
<1>2. row.steps \in Flagged /\ row.assertions \in Flagged /\ row.status \in Statuses /\ row.version \in Nat
  BY <1>1 DEF Rows
<1>3. \A s \in Flagged : IsPrefix(s, s)
  BY DEF IsPrefix, Flagged
<1>4. \A s \in Statuses, t \in Statuses :
         /\ Rank(s) <= Rank(s)
         /\ s \in {"requested", "validating"} /\ t # "requested" => Rank(s) <= Rank(t)
         /\ s \in {"requested", "validating", "running"} /\ t \in {"running", "passed", "failed"} => Rank(s) <= Rank(t)
         /\ t = "failed" => Rank(s) <= Rank(t)
  BY DEF Rank, Statuses
<1>5. CASE row' = row
  BY <1>2, <1>3, <1>4, <1>5 DEF Grows
<1>6. CASE row' # row
  <2>1. PICK c \in {"main", "link"} :
           /\ op[c].stage = "write" /\ row.version = op[c].expected
           /\ row' = Written(c) /\ UNCHANGED <<emitted, applied>>
    BY <1>6, RowWriters
  <2>2. CASE c = "link"
    BY <1>2, <1>4, <2>1, <2>2, LinkWriteFacts DEF Grows
  <2>3. CASE c = "main"
    <3>1. /\ row' \in Rows /\ row'.version = row.version + 1
          /\ pc \in {"validating", "starting", "finalising", "reporting"}
          /\ pc = "validating" => row'.status = "validating"
          /\ pc = "starting" => row'.status = "running"
          /\ pc \in {"validating", "starting"} => ~Terminal(row)
          /\ pc = "finalising" => /\ ~Terminal(row) /\ row'.status \in {"passed", "failed"}
                                  /\ row'.steps = Flags(emitted, "step")
                                  /\ row'.assertions = Flags(emitted, "assertion")
          /\ pc = "reporting" => /\ row'.status = "failed"
                                 /\ Terminal(row) => cause = "STORE" /\ faults > 0
          /\ pc # "finalising" => /\ row'.steps = row.steps /\ row'.assertions = row.assertions
                                  /\ row'.summary = row.summary
      BY <2>1, <2>3, MainWriteFacts
    <3>2. Rank(row.status) <= Rank(row'.status)
      <4>1. row'.status \in Statuses
        BY <3>1 DEF Rows
      <4>2. pc = "validating" => row.status \in {"requested", "validating"}
        BY DEF StatusFits
      <4>3. ~Terminal(row) => row.status \in {"requested", "validating", "running"}
        BY <1>2 DEF Terminal, Statuses
      <4>4. QED
        BY <1>2, <1>4, <3>1, <4>1, <4>2, <4>3
    <3>3. IsPrefix(row.steps, row'.steps) /\ IsPrefix(row.assertions, row'.assertions)
      <4>1. CASE pc = "finalising"
        <5>1. PICK n \in 0..Len(emitted) : Shows(n)
          BY EvidenceIsPrefix
        <5>2. /\ IsPrefix(Flags(SubSeq(emitted, 1, n), "step"), Flags(emitted, "step"))
              /\ IsPrefix(Flags(SubSeq(emitted, 1, n), "assertion"), Flags(emitted, "assertion"))
          BY <1>1, FlagsPrefix
        <5>3. QED
          BY <3>1, <4>1, <5>1, <5>2 DEF Shows
      <4>2. CASE pc # "finalising"
        BY <1>2, <1>3, <3>1, <4>2
      <4>3. QED
        BY <4>1, <4>2
    <3>4. ASSUME Terminal(row)
          PROVE  /\ pc = "reporting" /\ cause = "STORE" /\ faults > 0
                 /\ row' = [row EXCEPT !.status = "failed", !.version = @ + 1]
      <4>1. pc = "reporting" /\ cause = "STORE" /\ faults > 0
        BY <3>1, <3>4
      <4>2. /\ row'.status = "failed" /\ row'.steps = row.steps /\ row'.assertions = row.assertions
            /\ row'.summary = row.summary /\ row'.version = row.version + 1
        BY <3>1, <4>1
      <4>3. row' = [status |-> "failed", steps |-> row.steps, assertions |-> row.assertions,
                    summary |-> row.summary, version |-> row.version + 1]
        BY <3>1, <4>2 DEF Rows
      <4>4. row = [status |-> row.status, steps |-> row.steps, assertions |-> row.assertions,
                   summary |-> row.summary, version |-> row.version]
        BY <1>1 DEF Rows
      <4> DEFINE failed == [status |-> "failed", steps |-> row.steps, assertions |-> row.assertions,
                            summary |-> row.summary, version |-> row.version]
      <4>5. [row EXCEPT !.status = "failed"] = failed
        BY <4>4
      <4>6. failed.version = row.version
        OBVIOUS
      <4>7. row' = [failed EXCEPT !.version = failed.version + 1]
        BY <4>3, <4>6
      <4> HIDE DEF failed
      <4>8. row' = [row EXCEPT !.status = "failed", !.version = @ + 1]
        BY <4>5, <4>7
      <4>9. QED
        BY <4>1, <4>8
    <3>5. QED
      BY <3>2, <3>3, <3>4 DEF Grows
  <2>4. QED
    BY <2>2, <2>3
<1>7. QED
  BY <1>5, <1>6

THEOREM ReportsOnlyGrowAlways == Spec => ReportsOnlyGrow
<1>1. ExecutionInv /\ [Next]_vars => [Grows]_vars
  BY RowGrows
<1>2. QED
  BY <1>1, ExecutionAlwaysOK, PTL DEF Spec, ReportsOnlyGrow, Grows
=============================================================================
