--------------------------- MODULE DeploymentProofs ---------------------------
(***************************************************************************)
(* Proofs, for any number of deployments, releases, slugs and failing      *)
(* statements, that the locks of db:migrate and db:reconcile are enough:   *)
(* nothing conflicts, the history of versions only grows, and what is      *)
(* published can be read back and executed.                                *)
(***************************************************************************)
EXTENDS Deployment, FiniteSetTheorems, SequenceTheorems, WellFoundedInduction, TLAPS

-----------------------------------------------------------------------------
(* Validation.                                                             *)

\* No two reported steps share their id if the ids of the scenario are unique and none is
\* the runner's own.
LEMMA ReportedInjective ==
  ASSUME NEW s, s.steps \in Seq(ToSet(s.steps)), UniqueIds(s.steps),
         \A i \in DOMAIN s.steps : s.steps[i].id # ReservedStep
  PROVE  IsInjective(Reported(s))
<1> DEFINE ids == [i \in DOMAIN s.steps |-> s.steps[i].id]
           S == {ReservedStep} \cup {s.steps[i].id : i \in DOMAIN s.steps}
<1>1. Len(s.steps) \in Nat /\ DOMAIN s.steps = 1..Len(s.steps)
  BY LenProperties
<1>2. ids \in Seq(S) /\ Len(ids) = Len(s.steps)
  BY <1>1
<1>3. <<ReservedStep>> \in Seq(S) /\ Len(<<ReservedStep>>) = 1
  OBVIOUS
<1>4. /\ Reported(s) \in Seq(S) /\ Len(Reported(s)) = 1 + Len(s.steps)
      /\ \A i \in 1..(1 + Len(s.steps)) :
            Reported(s)[i] = IF i <= 1 THEN ReservedStep ELSE s.steps[i - 1].id
  <2> HIDE DEF S
  <2>1. Reported(s) = <<ReservedStep>> \o ids
    BY DEF Reported
  <2>2. /\ <<ReservedStep>> \o ids \in Seq(S)
        /\ Len(<<ReservedStep>> \o ids) = 1 + Len(s.steps)
        /\ \A i \in 1..(1 + Len(s.steps)) :
              (<<ReservedStep>> \o ids)[i] = IF i <= 1 THEN <<ReservedStep>>[i] ELSE ids[i - 1]
    <3> HIDE DEF ids
    <3>1. QED
      BY <1>2, <1>3, ConcatProperties
  <2>3. QED
    BY <1>1, <2>1, <2>2
<1>5. DOMAIN Reported(s) = 1..(1 + Len(s.steps))
  BY <1>4, LenProperties
<1>6. ASSUME NEW i \in DOMAIN Reported(s), NEW j \in DOMAIN Reported(s), Reported(s)[i] = Reported(s)[j]
      PROVE  i = j
  <2>1. i \in 1..(1 + Len(s.steps)) /\ j \in 1..(1 + Len(s.steps))
    BY <1>5, <1>6
  <2>2. CASE i > 1 /\ j > 1
    <3>1. i - 1 \in DOMAIN s.steps /\ j - 1 \in DOMAIN s.steps
      BY <1>1, <2>1, <2>2
    <3>2. Reported(s)[i] = s.steps[i - 1].id /\ Reported(s)[j] = s.steps[j - 1].id
      BY <1>1, <1>4, <2>1, <2>2
    <3>3. i - 1 = j - 1
      BY <1>6, <3>1, <3>2 DEF UniqueIds
    <3>4. QED
      BY <1>1, <2>1, <3>3
  <2>3. CASE i <= 1 /\ j > 1
    <3>1. j - 1 \in DOMAIN s.steps /\ Reported(s)[j] = s.steps[j - 1].id /\ Reported(s)[i] = ReservedStep
      BY <1>1, <1>4, <2>1, <2>3
    <3>2. QED
      BY <1>6, <3>1
  <2>4. CASE j <= 1 /\ i > 1
    <3>1. i - 1 \in DOMAIN s.steps /\ Reported(s)[i] = s.steps[i - 1].id /\ Reported(s)[j] = ReservedStep
      BY <1>1, <1>4, <2>1, <2>4
    <3>2. QED
      BY <1>6, <3>1
  <2>5. CASE i <= 1 /\ j <= 1
    BY <1>1, <2>1, <2>5
  <2>6. QED
    BY <1>1, <2>1, <2>2, <2>3, <2>4, <2>5
<1>7. QED
  BY <1>6 DEF IsInjective

\* Whatever validates can be executed: no account, asset or step the gateway looks up is
\* missing.
THEOREM ValidIsExecutable ==
  ASSUME NEW s, s.steps \in Seq(ToSet(s.steps)), Validates(s)
  PROVE  Executable(s)
<1>1. AccountsRequired(s) \subseteq Ids(s.accounts)
  <2>1. \A x \in ToSet(s.assets) : x.type = "issued" => x.issuer \in Ids(s.accounts)
    BY DEF Validates, ValidAssets, ToSet
  <2>2. \A t \in ToSet(s.steps) : t.account \in Ids(s.accounts) /\ (HasTo(t) => t.to \in Ids(s.accounts))
    BY DEF Validates, ValidStep, ToSet
  <2>3. \A a \in ToSet(s.assertions) : HasAccount(a) => a.account \in Ids(s.accounts)
    BY DEF Validates, ValidAssertion, ToSet
  <2>4. QED
    BY <2>1, <2>2, <2>3 DEF AccountsRequired
<1>2. AssetsRequired(s) \subseteq Ids(s.assets)
  <2>1. \A t \in ToSet(s.steps) :
           /\ t.asset \in Ids(s.assets)
           /\ HasOther(t) => t.other \in Ids(s.assets)
           /\ t.type \in PathTypes => ToSet(t.path) \subseteq Ids(s.assets)
    <3> TAKE t \in ToSet(s.steps)
    <3>1. ValidStep(s, t)
      BY DEF Validates, ToSet
    <3>2. QED
      BY <3>1 DEF ValidStep
  <2>2. \A a \in ToSet(s.assertions) : HasAsset(a) => a.asset \in Ids(s.assets)
    BY DEF Validates, ValidAssertion, ToSet
  <2>3. QED
    BY <2>1, <2>2 DEF AssetsRequired
<1>3. StepsRequired(s) \subseteq Ids(s.steps)
  <2>1. \A a \in ToSet(s.assertions) : HasStep(a) => a.step \in Ids(s.steps)
    BY DEF Validates, ValidAssertion, ToSet
  <2>2. QED
    BY <2>1 DEF StepsRequired
<1>4. \A i \in DOMAIN s.steps : s.steps[i].id # ReservedStep
  BY DEF Validates, ValidStep
<1>5. IsInjective(Reported(s))
  BY <1>4, ReportedInjective DEF Validates
<1>6. QED
  BY <1>1, <1>2, <1>3, <1>5 DEF Executable

-----------------------------------------------------------------------------
(* The catalogue: the locks of scenario rows.                              *)

\* The fixture a deployment is at is one of its release's.
LEMMA AtFixture ==
  ASSUME TypeOK, NEW d \in Deployments
  PROVE  /\ Len(Slugs) \in Nat /\ DOMAIN Slugs = 1..Len(Slugs)
         /\ at[d] \in 1..Len(Slugs) /\ Slug(d) \in SlugSet
         /\ Fixture(d).scenario \in Scenarios
         /\ versions[Slug(d)] \in Seq(Row)
<1>1. Len(Slugs) \in Nat /\ DOMAIN Slugs = 1..Len(Slugs)
  BY ConstantsAssumption, LenProperties
<1>2. at[d] \in 1..Len(Slugs) /\ Slug(d) \in SlugSet
  BY <1>1 DEF TypeOK, Slug, SlugSet, ToSet
<1>3. Fixture(d).scenario \in Scenarios
  BY <1>2 DEF TypeOK, Fixture, Scenarios
<1>4. QED
  BY <1>1, <1>2, <1>3 DEF TypeOK

\* The next version of a slug and what it does to its history.
LEMMA CandidateAppended ==
  ASSUME TypeOK, NEW d \in Deployments, existing[d] = Len(versions[Slug(d)])
  PROVE  LET v == versions[Slug(d)]
             w == Append(v, Candidate(d))
         IN  /\ Len(v) \in Nat /\ DOMAIN v = 1..Len(v)
             /\ w \in Seq(Row) /\ Len(w) = Len(v) + 1 /\ DOMAIN w = 1..(Len(v) + 1)
             /\ \A i \in DOMAIN v : w[i] = v[i]
             /\ w[Len(v) + 1] = Candidate(d)
             /\ Front(w) = v /\ Last(w) = Candidate(d)
<1> DEFINE v == versions[Slug(d)]
           w == Append(v, Candidate(d))
<1>1. v \in Seq(Row) /\ Len(v) \in Nat /\ DOMAIN v = 1..Len(v)
  BY AtFixture, LenProperties
<1>2. Candidate(d) \in Row
  BY <1>1, AtFixture DEF Candidate, Version, Row
<1> HIDE DEF v
<1>3. /\ w \in Seq(Row) /\ Len(w) = Len(v) + 1
      /\ \A i \in 1..Len(v) : w[i] = v[i]
      /\ w[Len(v) + 1] = Candidate(d)
  BY <1>1, <1>2, AppendProperties
<1>4. DOMAIN w = 1..(Len(v) + 1)
  BY <1>3, LenProperties
<1>5. Front(w) = v
  <2> HIDE DEF w
  <2>1. \A i \in 1..Len(v) : w[i] \in Row
    BY <1>1, <1>3, ElementOfSeq
  <2>2. Front(w) = SubSeq(w, 1, Len(v))
    BY <1>1, <1>3 DEF Front
  <2>3. /\ Front(w) \in Seq(Row) /\ Len(Front(w)) = Len(v)
        /\ \A i \in 1..Len(v) : Front(w)[i] = w[i]
    BY <1>1, <2>1, <2>2, SubSeqProperties
  <2>4. QED
    BY <1>1, <1>3, <2>3, SeqEqual
<1>6. Last(w) = Candidate(d)
  BY <1>3 DEF Last
<1>7. QED
  BY <1>1, <1>3, <1>4, <1>5, <1>6 DEF v

\* The dry run writes nothing, and leaves a deployment ready at its first fixture.
LEMMA PreviewKeeps ==
  ASSUME CatalogueInv, NEW d \in Deployments, Preview(d)
  PROVE  CatalogueInv'
<1> USE DEF CatalogueInv
<1>1. /\ UNCHANGED <<release, origin, versions, lock, existing, current, faults>>
      /\ stage[d] \in {"previewing", "previewFound"}
  BY DEF Preview, PreviewMissing, PreviewFound, PreviewLatest, tables
<1>2. \E n \in {"previewing", "previewFound", "ready"}, i \in DOMAIN Slugs :
         /\ stage' = [stage EXCEPT ![d] = n] /\ at' = [at EXCEPT ![d] = i]
         /\ n = "ready" => i = 1
  <2>1. Len(Slugs) \in Nat /\ DOMAIN Slugs = 1..Len(Slugs) /\ at[d] \in 1..Len(Slugs)
    BY AtFixture
  <2>2. CASE NextPreview(d) /\ at[d] < Len(Slugs)
    <3>1. at[d] + 1 \in DOMAIN Slugs
      BY <2>1, <2>2
    <3>2. QED
      BY <2>2, <3>1 DEF NextPreview, Goto
  <2>3. CASE NextPreview(d) /\ ~(at[d] < Len(Slugs))
    <3>1. 1 \in DOMAIN Slugs
      BY <2>1
    <3>2. QED
      BY <2>3, <3>1 DEF NextPreview, Goto
  <2>4. CASE PreviewFound(d)
    <3>1. at' = [at EXCEPT ![d] = at[d]]
      BY <2>4 DEF PreviewFound, TypeOK
    <3>2. QED
      BY <2>1, <2>4, <3>1 DEF PreviewFound, Goto
  <2>5. QED
    BY <2>2, <2>3, <2>4 DEF Preview, PreviewMissing, PreviewLatest
<1>3. PICK n \in {"previewing", "previewFound", "ready"}, i \in DOMAIN Slugs :
         /\ stage' = [stage EXCEPT ![d] = n] /\ at' = [at EXCEPT ![d] = i]
         /\ n = "ready" => i = 1
  BY <1>2
<1>4. TypeOK'
  BY <1>1, <1>3 DEF TypeOK
<1>5. \A e \in Deployments : e # d => stage'[e] = stage[e] /\ at'[e] = at[e]
  BY <1>3 DEF TypeOK
<1>6. stage'[d] = n /\ at'[d] = i
  BY <1>3 DEF TypeOK
<1>7. RowLocked'
  BY <1>1, <1>5, <1>6 DEF RowLocked, Slug
<1>8. PassedPublished'
  BY <1>1, <1>3, <1>5, <1>6 DEF PassedPublished, Published
<1>9. DoneMeansPublished'
  BY <1>1, <1>5, <1>6 DEF DoneMeansPublished, Published
<1>10. RowsVerified'
  BY <1>1 DEF RowsVerified, Verified
<1>11. QED
  BY <1>4, <1>7, <1>8, <1>9, <1>10

\* The statements before the commit: the row is locked, and then read.
LEMMA UpsertKeeps ==
  ASSUME CatalogueInv, NEW d \in Deployments, Upsert(d)
  PROVE  CatalogueInv'
<1> USE DEF CatalogueInv
<1>1. /\ UNCHANGED <<release, origin, versions, at, existing, current, faults>>
      /\ stage[d] = "ready" /\ lock[Slug(d)] = "free" /\ origin[Slug(d)] # "operator"
      /\ lock' = [lock EXCEPT ![Slug(d)] = d]
      /\ stage' = [stage EXCEPT ![d] = "locked"]
  BY DEF Upsert, Goto
<1>2. Slug(d) \in SlugSet
  BY AtFixture
<1>3. TypeOK'
  BY <1>1 DEF TypeOK
<1>4. RowLocked'
  <2> SUFFICES ASSUME NEW e \in Deployments, stage'[e] \in {"locked", "read"}
               PROVE  /\ lock'[Slug(e)'] = e
                      /\ origin'[Slug(e)'] # "operator"
                      /\ stage'[e] = "read" =>
                            LET v == versions'[Slug(e)'] IN
                            /\ existing'[e] = Len(v)
                            /\ current'[e] = IF v = <<>> THEN None ELSE <<Last(v).scenario>>
    BY DEF RowLocked
  <2>1. Slug(e)' = Slug(e) /\ Slug(e) \in SlugSet
    BY <1>1, AtFixture DEF Slug
  <2>2. CASE e = d
    BY <1>1, <1>2, <2>1, <2>2 DEF TypeOK
  <2>3. CASE e # d
    <3>1. stage'[e] = stage[e] /\ lock[Slug(e)] = e
      BY <1>1, <2>3 DEF TypeOK, RowLocked
    <3>2. Slug(e) # Slug(d) /\ lock'[Slug(e)] = e
      BY <1>1, <2>1, <3>1, ConstantsAssumption DEF TypeOK
    <3>3. QED
      BY <1>1, <2>1, <3>1, <3>2 DEF RowLocked
  <2>4. QED
    BY <2>2, <2>3
<1>5. PassedPublished'
  BY <1>1 DEF PassedPublished, Published, TypeOK
<1>6. DoneMeansPublished'
  BY <1>1 DEF DoneMeansPublished, Published, TypeOK
<1>7. RowsVerified'
  BY <1>1 DEF RowsVerified, Verified
<1>8. QED
  BY <1>3, <1>4, <1>5, <1>6, <1>7

LEMMA ReadKeeps ==
  ASSUME CatalogueInv, NEW d \in Deployments, ReadLatest(d)
  PROVE  CatalogueInv'
<1> USE DEF CatalogueInv
<1> DEFINE v == versions[Slug(d)]
           now == IF v = <<>> THEN None ELSE <<Last(v).scenario>>
<1>1. /\ UNCHANGED <<release, origin, versions, lock, at, faults>>
      /\ stage[d] = "locked" /\ stage' = [stage EXCEPT ![d] = "read"]
      /\ existing' = [existing EXCEPT ![d] = Len(v)]
      /\ current' = [current EXCEPT ![d] = now]
  BY DEF ReadLatest, Goto, tables
<1>2. Len(v) \in Nat /\ now \in Seq(Scenarios)
  <2>1. v \in Seq(Row)
    BY AtFixture
  <2> HIDE DEF v
  <2>2. Len(v) \in Nat /\ (v # <<>> => Len(v) \in 1..Len(v))
    BY <2>1, LenProperties, EmptySeq
  <2>3. v # <<>> => Last(v).scenario \in Scenarios
    <3>1. v # <<>> => v[Len(v)] \in Row
      BY <2>1, <2>2, ElementOfSeq
    <3>2. QED
      BY <3>1 DEF Last, Row
  <2>4. None \in Seq(Scenarios)
    BY EmptySeq DEF None
  <2>5. QED
    BY <2>2, <2>3, <2>4
<1>3. TypeOK'
  <2> HIDE DEF now, v
  <2>1. QED
    BY <1>1, <1>2 DEF TypeOK
<1>4. RowLocked'
  <2> SUFFICES ASSUME NEW e \in Deployments, stage'[e] \in {"locked", "read"}
               PROVE  /\ lock'[Slug(e)'] = e
                      /\ origin'[Slug(e)'] # "operator"
                      /\ stage'[e] = "read" =>
                            /\ existing'[e] = Len(versions'[Slug(e)'])
                            /\ current'[e] = IF versions'[Slug(e)'] = <<>> THEN None
                                             ELSE <<Last(versions'[Slug(e)']).scenario>>
    BY DEF RowLocked
  <2>1. Slug(e)' = Slug(e) /\ versions' = versions
    BY <1>1 DEF Slug
  <2>2. CASE e = d
    BY <1>1, <2>1, <2>2 DEF TypeOK, RowLocked
  <2>3. CASE e # d
    BY <1>1, <2>1, <2>3 DEF TypeOK, RowLocked
  <2>4. QED
    BY <2>2, <2>3
<1>5. PassedPublished'
  BY <1>1 DEF PassedPublished, Published, TypeOK
<1>6. DoneMeansPublished'
  BY <1>1 DEF DoneMeansPublished, Published, TypeOK
<1>7. RowsVerified'
  BY <1>1 DEF RowsVerified, Verified
<1>8. QED
  BY <1>3, <1>4, <1>5, <1>6, <1>7

\* A deployment that gives up leaves the rows and what the others read as they are.
LEMMA GiveUpKeeps ==
  ASSUME CatalogueInv, NEW d \in Deployments, UpsertRefused(d) \/ Rollback(d)
  PROVE  CatalogueInv'
<1> USE DEF CatalogueInv
<1>1. /\ UNCHANGED <<release, origin, versions, at, existing, current>>
      /\ stage'[d] \in {"refused", "failed"}
      /\ \A e \in Deployments : e # d => stage'[e] = stage[e]
      /\ lock' = lock \/ (stage[d] \in {"locked", "read"} /\ lock' = [lock EXCEPT ![Slug(d)] = "free"])
  BY DEF UpsertRefused, Rollback, Goto, tables, TypeOK
<1>2. Slug(d) \in SlugSet
  BY AtFixture
<1>3. TypeOK'
  <2>1. stage' = [stage EXCEPT ![d] = "refused"] \/ stage' = [stage EXCEPT ![d] = "failed"]
    BY DEF UpsertRefused, Rollback, Goto
  <2>2. faults' \in 0..MaxFaults
    BY ConstantsAssumption DEF UpsertRefused, Rollback, TypeOK
  <2>3. lock' \in [SlugSet -> Deployments \cup {"free"}]
    BY <1>1, <1>2 DEF TypeOK
  <2>4. QED
    BY <1>1, <2>1, <2>2, <2>3 DEF TypeOK
<1>4. RowLocked'
  <2> SUFFICES ASSUME NEW e \in Deployments, stage'[e] \in {"locked", "read"}
               PROVE  /\ lock'[Slug(e)'] = e
                      /\ origin'[Slug(e)'] # "operator"
                      /\ stage'[e] = "read" =>
                            /\ existing'[e] = Len(versions'[Slug(e)'])
                            /\ current'[e] = IF versions'[Slug(e)'] = <<>> THEN None
                                             ELSE <<Last(versions'[Slug(e)']).scenario>>
    BY DEF RowLocked
  <2>1. e # d /\ stage'[e] = stage[e] /\ Slug(e)' = Slug(e) /\ Slug(e) \in SlugSet
    BY <1>1, AtFixture DEF Slug
  <2>2. lock'[Slug(e)] = e
    BY <1>1, <1>2, <2>1 DEF RowLocked, TypeOK
  <2>3. QED
    BY <1>1, <2>1, <2>2 DEF RowLocked
<1>5. PassedPublished'
  BY <1>1 DEF PassedPublished, Published
<1>6. DoneMeansPublished'
  BY <1>1 DEF DoneMeansPublished, Published
<1>7. RowsVerified'
  BY <1>1 DEF RowsVerified, Verified
<1>8. QED
  BY <1>3, <1>4, <1>5, <1>6, <1>7

\* What a commit does: nothing, or one more version, which says something else than the
\* last one; and the slug then has a version with the deployment's scenario.
LEMMA CommitEffect ==
  ASSUME CatalogueInv, NEW d \in Deployments, Commit(d)
  PROVE  /\ origin[Slug(d)] # "operator" /\ lock[Slug(d)] = d
         /\ \A s \in SlugSet \ {Slug(d)} : versions'[s] = versions[s] /\ origin'[s] = origin[s]
         /\ origin'[Slug(d)] = "bundled"
         /\ versions' \in [SlugSet -> Seq(Row)]
         /\ \/ versions'[Slug(d)] = versions[Slug(d)]
            \/ /\ versions'[Slug(d)] = Append(versions[Slug(d)], Candidate(d))
               /\ existing[d] = Len(versions[Slug(d)])
               /\ versions[Slug(d)] # <<>> => Last(versions[Slug(d)]).scenario # Fixture(d).scenario
         /\ \E i \in DOMAIN versions'[Slug(d)] : versions'[Slug(d)][i].scenario = Fixture(d).scenario
         /\ \A s \in SlugSet, e \in Deployments : Published(e, s) => Published(e, s)'
<1> USE DEF CatalogueInv
<1> DEFINE v == versions[Slug(d)]
<1>1. stage[d] = "read" /\ release' = release /\ origin' = [origin EXCEPT ![Slug(d)] = "bundled"]
  BY DEF Commit
<1>2. /\ lock[Slug(d)] = d /\ origin[Slug(d)] # "operator"
      /\ existing[d] = Len(v)
      /\ current[d] = IF v = <<>> THEN None ELSE <<Last(v).scenario>>
  BY <1>1 DEF RowLocked
<1>3. Slug(d) \in SlugSet /\ v \in Seq(Row)
  BY AtFixture
<1>4. ~Preceded(d)
  <2>1. Len(v) \in Nat
    BY <1>3, LenProperties
  <2>2. QED
    BY <1>2, <2>1 DEF Preceded
<1> DEFINE w == Append(v, Candidate(d))
<1>5. /\ w \in Seq(Row) /\ Len(v) \in Nat /\ DOMAIN v = 1..Len(v) /\ DOMAIN w = 1..(Len(v) + 1)
      /\ \A i \in DOMAIN v : w[i] = v[i]
      /\ w[Len(v) + 1] = Candidate(d)
  BY <1>2, CandidateAppended
<1>6. versions' = IF Inserts(d) THEN [versions EXCEPT ![Slug(d)] = w] ELSE versions
  BY <1>4 DEF Commit
<1>7. versions' \in [SlugSet -> Seq(Row)]
  <2> HIDE DEF w
  <2>1. QED
    BY <1>3, <1>5, <1>6 DEF TypeOK
<1>8. \A s \in SlugSet \ {Slug(d)} : versions'[s] = versions[s] /\ origin'[s] = origin[s]
  BY <1>1, <1>6 DEF TypeOK
<1>9. origin'[Slug(d)] = "bundled"
  BY <1>1, <1>3 DEF TypeOK
<1>10. versions'[Slug(d)] = IF Inserts(d) THEN w ELSE v
  <2> HIDE DEF w
  <2>1. QED
    BY <1>3, <1>6 DEF TypeOK
<1>11. Inserts(d) => (v # <<>> => Last(v).scenario # Fixture(d).scenario)
  BY <1>2 DEF Inserts
<1>12. \E i \in DOMAIN versions'[Slug(d)] : versions'[Slug(d)][i].scenario = Fixture(d).scenario
  <2>1. CASE Inserts(d)
    BY <1>5, <1>10, <2>1 DEF Candidate, Version
  <2>2. CASE ~Inserts(d)
    <3>1. v # <<>> /\ Last(v).scenario = Fixture(d).scenario
      BY <1>2, <2>2 DEF Inserts, None
    <3>2. Len(v) \in DOMAIN v
      BY <1>3, <1>5, <3>1, EmptySeq
    <3>3. QED
      BY <1>10, <2>2, <3>1, <3>2 DEF Last
  <2>3. QED
    BY <2>1, <2>2
<1>13. ASSUME NEW s \in SlugSet, NEW e \in Deployments, Published(e, s)
       PROVE  Published(e, s)'
  <2>1. PICK i \in DOMAIN versions[s] : versions[s][i].scenario = release[e].fixtures[s].scenario
    BY <1>13 DEF Published
  <2>2. i \in DOMAIN versions'[s] /\ versions'[s][i] = versions[s][i]
    <3> HIDE DEF w
    <3>1. CASE s # Slug(d)
      BY <1>8, <2>1, <3>1
    <3>2. CASE s = Slug(d)
      BY <1>5, <1>10, <2>1, <3>2
    <3>3. QED
      BY <3>1, <3>2
  <2>3. QED
    BY <1>1, <2>1, <2>2 DEF Published
<1>14. QED
  BY <1>2, <1>7, <1>8, <1>9, <1>10, <1>11, <1>12, <1>13

LEMMA CommitKeeps ==
  ASSUME CatalogueInv, NEW d \in Deployments, Commit(d), Loads(d)
  PROVE  CatalogueInv'
<1> USE DEF CatalogueInv
<1>1. /\ UNCHANGED <<release, existing, current, faults>> /\ stage[d] = "read"
      /\ lock' = [lock EXCEPT ![Slug(d)] = "free"]
      /\ \A e \in Deployments : e # d => stage'[e] = stage[e] /\ at'[e] = at[e]
  BY DEF Commit, Goto, TypeOK
<1>2. \/ at[d] < Len(Slugs) /\ at'[d] = at[d] + 1 /\ stage'[d] = "ready"
      \/ ~(at[d] < Len(Slugs)) /\ at' = at /\ stage'[d] = "done"
  BY DEF Commit, Goto, TypeOK
<1>3. /\ Len(Slugs) \in Nat /\ DOMAIN Slugs = 1..Len(Slugs) /\ at[d] \in 1..Len(Slugs)
      /\ Slug(d) \in SlugSet /\ Slug(d) = Slugs[at[d]] /\ Fixture(d) = release[d].fixtures[Slug(d)]
  BY AtFixture DEF Slug, Fixture
<1>4. \A s \in SlugSet, e \in Deployments : Published(e, s) => Published(e, s)'
  BY CommitEffect
<1>5. ASSUME NEW s, s = Slug(d)
      PROVE  Published(d, s)'
  BY <1>1, <1>3, <1>5, CommitEffect DEF Published
<1>6. TypeOK'
  <2>1. at' \in [Deployments -> DOMAIN Slugs]
    <3>1. at[d] < Len(Slugs) => at[d] + 1 \in DOMAIN Slugs
      BY <1>3
    <3>2. QED
      BY <3>1 DEF Commit, TypeOK
  <2>2. stage' \in [Deployments -> {"previewing", "previewFound", "ready", "locked", "read",
                                    "refused", "failed", "done"}]
    BY DEF Commit, Goto, TypeOK
  <2>3. /\ lock' \in [SlugSet -> Deployments \cup {"free"}]
        /\ origin' \in [SlugSet -> {"none", "bundled", "operator"}]
    BY DEF Commit, TypeOK
  <2>4. versions' \in [SlugSet -> Seq(Row)]
    BY CommitEffect
  <2>5. QED
    BY <1>1, <2>1, <2>2, <2>3, <2>4 DEF TypeOK
<1>7. RowLocked'
  <2> SUFFICES ASSUME NEW e \in Deployments, stage'[e] \in {"locked", "read"}
               PROVE  /\ lock'[Slug(e)'] = e
                      /\ origin'[Slug(e)'] # "operator"
                      /\ stage'[e] = "read" =>
                            /\ existing'[e] = Len(versions'[Slug(e)'])
                            /\ current'[e] = IF versions'[Slug(e)'] = <<>> THEN None
                                             ELSE <<Last(versions'[Slug(e)']).scenario>>
    BY DEF RowLocked
  <2>1. e # d /\ stage'[e] = stage[e] /\ Slug(e)' = Slug(e) /\ Slug(e) \in SlugSet
    BY <1>1, <1>2, AtFixture DEF Slug
  <2>2. lock[Slug(e)] = e /\ lock[Slug(d)] = d
    BY <1>1, <2>1 DEF RowLocked
  <2>3. lock'[Slug(e)] = e /\ versions'[Slug(e)] = versions[Slug(e)] /\ origin'[Slug(e)] = origin[Slug(e)]
    BY <1>1, <2>1, <2>2, CommitEffect DEF TypeOK
  <2>4. QED
    BY <1>1, <2>1, <2>3 DEF RowLocked
<1>8. PassedPublished'
  <2> SUFFICES ASSUME NEW e \in Deployments, stage'[e] \in {"ready", "locked", "read"},
                      NEW i \in 1..(at'[e] - 1)
               PROVE  Published(e, Slugs[i])'
    BY DEF PassedPublished
  <2>1. CASE e # d
    <3>1. Published(e, Slugs[i]) /\ Slugs[i] \in SlugSet
      <4>1. at[e] \in 1..Len(Slugs)
        BY AtFixture
      <4>2. i \in 1..(at[e] - 1) /\ i \in DOMAIN Slugs
        BY <1>1, <1>3, <2>1, <4>1
      <4>3. QED
        BY <1>1, <2>1, <4>2 DEF PassedPublished, SlugSet, ToSet
    <3>2. QED
      BY <1>4, <3>1
  <2>2. CASE e = d /\ i # at[d]
    <3>1. i \in 1..(at[d] - 1) /\ i \in DOMAIN Slugs
      BY <1>2, <1>3, <2>2
    <3>2. Published(e, Slugs[i]) /\ Slugs[i] \in SlugSet
      BY <1>1, <2>2, <3>1 DEF PassedPublished, SlugSet, ToSet
    <3>3. QED
      BY <1>4, <3>2
  <2>3. CASE e = d /\ i = at[d]
    BY <1>3, <1>5, <2>3
  <2>4. QED
    BY <2>1, <2>2, <2>3
<1>9. DoneMeansPublished'
  <2> SUFFICES ASSUME NEW e \in Deployments, stage'[e] = "done", NEW s \in SlugSet
               PROVE  Published(e, s)'
    BY DEF DoneMeansPublished
  <2>1. CASE e # d
    BY <1>1, <1>4, <2>1 DEF DoneMeansPublished
  <2>2. CASE e = d
    <3>1. PICK i \in DOMAIN Slugs : s = Slugs[i]
      BY DEF SlugSet, ToSet
    <3>2. at[d] = Len(Slugs) /\ (i = at[d] \/ i \in 1..(at[d] - 1))
      BY <1>2, <1>3, <2>2, <3>1
    <3>3. CASE i = at[d]
      BY <1>3, <1>5, <2>2, <3>1, <3>3
    <3>4. CASE i \in 1..(at[d] - 1)
      BY <1>1, <1>4, <2>2, <3>1, <3>4 DEF PassedPublished
    <3>5. QED
      BY <3>2, <3>3, <3>4
  <2>3. QED
    BY <2>1, <2>2
<1>10. RowsVerified'
  <2> SUFFICES ASSUME NEW s \in SlugSet
               PROVE  /\ origin'[s] = "none" => versions'[s] = <<>>
                      /\ origin'[s] = "bundled" => \A i \in DOMAIN versions'[s] : Verified(versions'[s][i], i)
    BY DEF RowsVerified, Verified
  <2>1. CASE s # Slug(d)
    BY <2>1, CommitEffect DEF RowsVerified
  <2>2. CASE s = Slug(d)
    <3>1. origin'[s] = "bundled"
      BY <2>2, CommitEffect
    <3>2. \A i \in DOMAIN versions[s] : Verified(versions[s][i], i)
      <4>1. origin[s] \in {"none", "bundled"}
        BY <2>2, CommitEffect DEF TypeOK
      <4>2. origin[s] = "none" => DOMAIN versions[s] = {}
        BY DEF RowsVerified
      <4>3. QED
        BY <4>1, <4>2 DEF RowsVerified
    <3>3. CASE versions'[s] = versions[s]
      BY <3>1, <3>2, <3>3
    <3>4. CASE versions'[s] = Append(versions[s], Candidate(d)) /\ existing[d] = Len(versions[s])
      <4> DEFINE v == versions[s]
                 w == versions'[s]
      <4>1. /\ Len(v) \in Nat /\ DOMAIN v = 1..Len(v) /\ DOMAIN w = 1..(Len(v) + 1)
            /\ \A i \in DOMAIN v : w[i] = v[i]
            /\ w[Len(v) + 1] = Candidate(d)
        BY <2>2, <3>4, CandidateAppended
      <4>2. Verified(Candidate(d), Len(v) + 1)
        BY <1>3, <3>4 DEF Verified, Candidate, Version, Loads
      <4>3. QED
        BY <3>1, <3>2, <4>1, <4>2
    <3>5. QED
      BY <2>2, <3>3, <3>4, CommitEffect
  <2>3. QED
    BY <2>1, <2>2
<1>11. QED
  BY <1>6, <1>7, <1>8, <1>9, <1>10

\* A statement that fails beside it, or a step of db:migrate, leaves the catalogue alone.
LEMMA CatalogueSame ==
  ASSUME CatalogueInv, UNCHANGED <<release, tables, at, stage, existing, current>>,
         faults' \in 0..MaxFaults
  PROVE  CatalogueInv'
<1>1. TypeOK'
  BY DEF CatalogueInv, TypeOK, tables
<1>2. RowLocked' /\ PassedPublished' /\ DoneMeansPublished' /\ RowsVerified'
  BY DEF CatalogueInv, RowLocked, PassedPublished, DoneMeansPublished, RowsVerified, Published,
     Slug, Verified, tables
<1>3. QED
  BY <1>1, <1>2 DEF CatalogueInv

-----------------------------------------------------------------------------
(* The migrations: the advisory lock.                                      *)

\* The first of the files that are left is one of them.
LEMMA LowestLeft ==
  ASSUME DeploymentInv, NEW d \in Deployments, phase[d] = "migrating", todo[d] # {}
  PROVE  Lowest(todo[d]) \in todo[d]
<1> DEFINE S == todo[d]
           Before(v) == {w \in S : w < v}
           Segments == {Before(v) : v \in S}
           R == StrictSubsetOrdering(S)
<1>1. IsFiniteSet(S) /\ S \subseteq Nat
  <2>1. S \subseteq DOMAIN Files(d) /\ release \in Releases
    BY DEF DeploymentInv, MigrationLocked, CatalogueInv, TypeOK
  <2>2. IsFiniteSet(DOMAIN Files(d)) /\ DOMAIN Files(d) \subseteq Nat
    BY <2>1, DeploymentAssumption DEF Files
  <2>3. QED
    BY <2>1, <2>2, FS_Subset
<1>2. Segments \subseteq FiniteSubsetsOf(S) /\ Segments # {}
  <2>1. FiniteSubsetsOf(S) = SUBSET S
    BY <1>1, FS_FiniteSubsetsOfFinite
  <2>2. Segments \subseteq SUBSET S /\ Segments # {}
    OBVIOUS
  <2>3. QED
    BY <2>1, <2>2
<1>3. IsWellFoundedOn(R, FiniteSubsetsOf(S))
  BY FS_StrictSubsetOrderingWellFounded
<1> HIDE DEF R
<1>4. PICK D \in Segments : \A E \in Segments : <<E, D>> \notin R
  <2> HIDE DEF Segments
  <2>1. QED
    BY <1>2, <1>3, WFMin
<1>5. PICK v \in S : D = Before(v)
  BY <1>4
<1>6. ASSUME NEW w \in S, w < v
      PROVE  FALSE
  <2>1. w \in Before(v) /\ w \notin Before(w) /\ Before(w) \subseteq Before(v)
    BY <1>1, <1>6
  <2>2. <<Before(w), Before(v)>> \in R
    BY <2>1 DEF R, StrictSubsetOrdering
  <2>3. QED
    BY <1>4, <1>5, <2>2
<1>7. \A w \in S : v <= w
  BY <1>1, <1>6
<1>8. QED
  BY <1>5, <1>7 DEF Lowest

LEMMA DeploymentInitial == DeploymentInit => DeploymentInv
<1> SUFFICES ASSUME DeploymentInit PROVE DeploymentInv
  OBVIOUS
<1> USE DEF DeploymentInit, Init
<1>1. Existing \in Scenarios /\ Version(Existing, 1) \in Row
  BY DEF Scenarios, Version, Row
<1>2. versions \in [SlugSet -> Seq(Row)]
  <2>1. <<Version(Existing, 1)>> \in Seq(Row) /\ <<>> \in Seq(Row)
    BY <1>1, EmptySeq
  <2>2. QED
    BY <2>1
<1>3. 1 \in DOMAIN Slugs
  BY ConstantsAssumption, LenProperties, EmptySeq
<1>4. TypeOK
  <2>1. None \in Seq(Scenarios)
    BY EmptySeq DEF None
  <2>2. QED
    BY <1>2, <1>3, <2>1, ConstantsAssumption DEF TypeOK
<1>5. RowLocked /\ PassedPublished /\ DoneMeansPublished
  BY DEF RowLocked, PassedPublished, DoneMeansPublished
<1>6. RowsVerified
  BY DEF RowsVerified
<1>7. DeploymentTypeOK /\ LocksPreventConflicts
  BY DEF DeploymentTypeOK, LocksPreventConflicts
<1>8. MigratedFilesApplied /\ MigrationLocked /\ ReconcilesValid
  BY DEF MigratedFilesApplied, Confirmed, MigrationLocked, ReconcilesValid
<1>9. QED
  BY <1>4, <1>5, <1>6, <1>7, <1>8 DEF DeploymentInv, CatalogueInv

\* A command that goes on, or stops, outside of a transaction.
LEMMA PhaseStep ==
  ASSUME DeploymentInv, NEW d \in Deployments, phase[d] # "migrating",
         UNCHANGED <<migration, server, release, tables, at, stage, existing, current>>,
         faults' \in 0..MaxFaults, faults' >= faults,
         phase' = [phase EXCEPT ![d] = phase'[d]],
         phase'[d] \in {"broken", "unmigrated", "previewing", "reconciling", "stopped", "aborted"},
         phase'[d] \in {"previewing", "reconciling"} => Loads(d) /\ MigrationsCurrent(d),
         phase'[d] \in {"broken", "unmigrated"} => phase[d] \in {"deploying", "unmigrated"},
         stage[d] \notin {"locked", "read"}
  PROVE  DeploymentInv'
<1> USE DEF DeploymentInv
<1> DEFINE n == phase'[d]
<1>1. CatalogueInv'
  BY CatalogueSame
<1>2. DeploymentTypeOK'
  BY DEF DeploymentTypeOK, migration
<1>3. phase'[d] = n /\ \A e \in Deployments : e # d => phase'[e] = phase[e]
  BY DEF DeploymentTypeOK
<1>4. LocksPreventConflicts'
  <2>1. faults \in 0..MaxFaults
    BY DEF CatalogueInv, TypeOK
  <2>2. QED
    BY <1>3, <2>1, ConstantsAssumption DEF LocksPreventConflicts
<1>5. MigratedFilesApplied'
  <2>1. \A e \in Deployments : Files(e)' = Files(e) /\ \A v : Recorded(e, v)' = Recorded(e, v)
    BY DEF Files, Recorded, migration
  <2>2. ASSUME NEW e \in Deployments, Confirmed(e)', NEW v \in DOMAIN Files(e)
        PROVE  Recorded(e, v)
    <3>1. CASE Confirmed(e)
      BY <2>2, <3>1 DEF MigratedFilesApplied
    <3>2. CASE ~Confirmed(e)
      <4>1. e = d /\ n \in {"previewing", "reconciling"}
        BY <1>3, <2>2, <3>2 DEF Confirmed
      <4>2. QED
        BY <2>2, <4>1 DEF MigrationsCurrent, Recorded
    <3>3. QED
      BY <3>1, <3>2
  <2>3. ASSUME NEW v \in DOMAIN schema \ DOMAIN Applied
        PROVE  \E e \in Deployments :
                  /\ phase'[e] \notin {"deploying", "unmigrated", "migrating", "mismatched", "broken"}
                  /\ v \in DOMAIN Files(e) /\ Recorded(e, v)
    BY <1>3, <2>3 DEF MigratedFilesApplied
  <2>4. schema' = schema
    BY DEF migration
  <2>5. QED
    BY <2>1, <2>2, <2>3, <2>4 DEF MigratedFilesApplied
<1>6. MigrationLocked'
  BY <1>3 DEF MigrationLocked, Files, Recorded, migration
<1>7. ReconcilesValid'
  BY <1>3 DEF ReconcilesValid, Loads
<1>8. QED
  BY <1>1, <1>2, <1>4, <1>5, <1>6, <1>7

\* A backend becomes ready only after its own assertion.
LEMMA ServerStep ==
  ASSUME DeploymentInv, NEW d \in Deployments, NEW state \in {"ready", "unavailable", "exited"},
         Become(d, state),
         state \in {"ready", "unavailable"} =>
            server[d] \in {"ready", "unavailable"} \/ MigrationsCurrent(d)
  PROVE  DeploymentInv'
<1> USE DEF DeploymentInv
<1>1. /\ UNCHANGED <<vars, migration, phase>>
      /\ server'[d] = state /\ \A e \in Deployments : e # d => server'[e] = server[e]
      /\ server' \in [Deployments -> {"down", "ready", "unavailable", "exited"}]
  BY DEF Become, DeploymentTypeOK
<1>2. CatalogueInv'
  BY <1>1, CatalogueSame DEF vars, CatalogueInv, TypeOK
<1>3. DeploymentTypeOK' /\ LocksPreventConflicts' /\ MigrationLocked' /\ ReconcilesValid'
  BY <1>1 DEF DeploymentTypeOK, LocksPreventConflicts, MigrationLocked, ReconcilesValid,
     Files, Recorded, Loads, migration, vars
<1>4. MigratedFilesApplied'
  <2>1. /\ schema' = schema /\ phase' = phase
        /\ \A e \in Deployments : Files(e)' = Files(e) /\ \A v : Recorded(e, v)' = Recorded(e, v)
    BY <1>1 DEF Files, Recorded, migration, vars
  <2>2. ASSUME NEW e \in Deployments, Confirmed(e)', NEW v \in DOMAIN Files(e)
        PROVE  Recorded(e, v)
    <3>1. Confirmed(e) \/ MigrationsCurrent(e)
      BY <1>1, <2>1, <2>2 DEF Confirmed
    <3>2. QED
      BY <2>2, <3>1 DEF MigratedFilesApplied, MigrationsCurrent, Recorded
  <2>3. QED
    BY <2>1, <2>2 DEF MigratedFilesApplied
<1>5. QED
  BY <1>2, <1>3, <1>4

\* A step of the dry run or of the reconciliation.
LEMMA CatalogueStep ==
  ASSUME DeploymentInv, NEW d \in Deployments, PreviewStep(d) \/ ReconcileStep(d)
  PROVE  DeploymentInv'
<1> USE DEF DeploymentInv
<1>1. /\ UNCHANGED <<migration, phase, server, release>>
      /\ \A e \in Deployments : e # d => stage'[e] = stage[e]
  BY DEF PreviewStep, Preview, PreviewMissing, PreviewFound, PreviewLatest, NextPreview,
     ReconcileStep, Reconcile, Upsert, UpsertRefused, ReadLatest, Commit, Rollback, Goto,
     CatalogueInv, TypeOK
<1>2. stage[d] = "read" => ~NumberTaken(d)
  <2>1. stage[d] = "read" => existing[d] = Len(versions[Slug(d)])
    BY DEF CatalogueInv, RowLocked
  <2>2. Len(versions[Slug(d)]) \in Nat
    BY AtFixture, LenProperties DEF CatalogueInv
  <2>3. QED
    BY <2>1, <2>2 DEF NumberTaken, Preceded
<1>3. /\ faults' \in 0..MaxFaults /\ faults' >= faults
      /\ stage'[d] = "failed" => faults' > 0
      /\ stage'[d] \in {"locked", "read"} => phase[d] = "reconciling"
  <2>0. faults \in 0..MaxFaults /\ MaxFaults \in Nat /\ DOMAIN stage = Deployments
    BY ConstantsAssumption DEF CatalogueInv, TypeOK
  <2>1. CASE PreviewStep(d)
    BY <2>0, <2>1 DEF PreviewStep, Preview, PreviewMissing, PreviewFound, PreviewLatest, NextPreview, Goto
  <2>2. CASE ReconcileStep(d) /\ ~Rollback(d)
    BY <2>0, <2>2 DEF ReconcileStep, Reconcile, Upsert, UpsertRefused, ReadLatest, Commit, Goto
  <2>3. CASE ReconcileStep(d) /\ Rollback(d)
    BY <2>0, <2>3, <1>2 DEF ReconcileStep, Rollback, Goto
  <2>4. QED
    BY <2>1, <2>2, <2>3
<1>4. CatalogueInv'
  <2>1. CASE PreviewStep(d)
    BY <2>1, PreviewKeeps DEF PreviewStep
  <2>2. CASE ReconcileStep(d)
    <3>1. Loads(d)
      BY <2>2 DEF ReconcileStep, ReconcilesValid
    <3>2. QED
      BY <2>2, <3>1, UpsertKeeps, ReadKeeps, CommitKeeps, GiveUpKeeps DEF ReconcileStep, Reconcile
  <2>3. QED
    BY <2>1, <2>2
<1>5. DeploymentTypeOK'
  BY <1>1 DEF DeploymentTypeOK, migration
<1>6. LocksPreventConflicts'
  <2>1. faults \in 0..MaxFaults
    BY DEF CatalogueInv, TypeOK
  <2>2. QED
    BY <1>1, <1>3, <2>1, ConstantsAssumption DEF LocksPreventConflicts
<1>7. MigratedFilesApplied' /\ MigrationLocked'
  BY <1>1 DEF MigratedFilesApplied, MigrationLocked, Confirmed, Files, Recorded, migration
<1>8. ReconcilesValid'
  BY <1>1, <1>3 DEF ReconcilesValid, Loads
<1>9. QED
  BY <1>4, <1>5, <1>6, <1>7, <1>8

\* A step of runMigrations leaves the catalogue alone.
LEMMA MigrationFrame ==
  ASSUME DeploymentInv, NEW d \in Deployments,
         Migrate(d) \/ ApplyFile(d) \/ CommitMigrations(d) \/ RollbackMigrations(d)
  PROVE  /\ UNCHANGED <<release, tables, at, stage, existing, current, preview, server>>
         /\ faults' \in 0..MaxFaults /\ faults' >= faults
         /\ CatalogueInv'
         /\ \A e \in Deployments : e # d =>
               phase'[e] = phase[e] /\ todo'[e] = todo[e] /\ written'[e] = written[e]
         /\ \A e \in Deployments : Files(e)' = Files(e) /\ Loads(e)' = Loads(e)
         /\ stage[d] \notin {"locked", "read"}
<1> USE DEF DeploymentInv
<1>1. /\ UNCHANGED <<release, tables, at, stage, existing, current, preview, server>>
      /\ faults' = faults \/ (faults < MaxFaults /\ faults' = faults + 1)
      /\ phase[d] \in {"deploying", "migrating"}
  BY DEF Migrate, ApplyFile, CommitMigrations, RollbackMigrations, vars
<1>2. faults' \in 0..MaxFaults /\ faults' >= faults
  BY <1>1, ConstantsAssumption DEF CatalogueInv, TypeOK
<1>3. CatalogueInv'
  BY <1>1, <1>2, CatalogueSame
<1>4. \A e \in Deployments : e # d =>
         phase'[e] = phase[e] /\ todo'[e] = todo[e] /\ written'[e] = written[e]
  BY DEF Migrate, ApplyFile, CommitMigrations, RollbackMigrations, Enter, DeploymentTypeOK
<1>5. \A e \in Deployments : Files(e)' = Files(e) /\ Loads(e)' = Loads(e)
  BY <1>1 DEF Files, Loads
<1>6. stage[d] \notin {"locked", "read"}
  BY <1>1 DEF ReconcilesValid
<1>7. QED
  BY <1>1, <1>2, <1>3, <1>4, <1>5, <1>6

\* While one deployment holds the advisory lock no other one migrates.
LEMMA OneMigrates ==
  ASSUME DeploymentInv, NEW d \in Deployments, holder = d \/ holder = "free",
         NEW e \in Deployments, e # d
  PROVE  phase[e] # "migrating"
BY ConstantsAssumption DEF DeploymentInv, MigrationLocked

LEMMA MigrateStep ==
  ASSUME DeploymentInv, NEW d \in Deployments, Migrate(d)
  PROVE  DeploymentInv'
<1> USE DEF DeploymentInv
<1>1. /\ phase[d] = "deploying" /\ phase'[d] = "migrating" /\ schema' = schema
      /\ holder = "free" /\ holder' = d /\ faults' = faults
      /\ todo'[d] = DOMAIN Files(d) /\ written' = written /\ written[d] = {}
  BY DEF Migrate, Enter, DeploymentTypeOK, MigrationLocked, vars
<1>2. DeploymentTypeOK'
  <2>1. DOMAIN Files(d) \in SUBSET Nat
    BY DeploymentAssumption DEF Files, CatalogueInv, TypeOK
  <2>2. QED
    BY <2>1 DEF DeploymentTypeOK, Migrate, Enter
<1>3. LocksPreventConflicts'
  BY <1>1, MigrationFrame DEF LocksPreventConflicts
<1>4. \A e \in Deployments : \A v : Recorded(e, v)' = Recorded(e, v)
  BY <1>1, MigrationFrame DEF Recorded
<1>5. MigratedFilesApplied'
  <2>1. \A e \in Deployments : Confirmed(e)' => Confirmed(e)
    BY <1>1, MigrationFrame DEF Confirmed
  <2>2. \A e \in Deployments : phase[e] \notin {"deploying", "unmigrated", "migrating", "mismatched", "broken"}
                               => phase'[e] = phase[e]
    BY <1>1, MigrationFrame
  <2>3. QED
    BY <1>1, <1>4, <2>1, <2>2, MigrationFrame DEF MigratedFilesApplied
<1>6. MigrationLocked'
  <2> SUFFICES ASSUME NEW e \in Deployments
               PROVE  /\ phase'[e] = "migrating" =>
                            /\ holder' = e
                            /\ todo'[e] \subseteq DOMAIN Files(e)
                            /\ written'[e] \subseteq DOMAIN Files(e) \ DOMAIN schema'
                            /\ \A v \in DOMAIN Files(e) \ todo'[e] : v \in written'[e] \/ Recorded(e, v)
                      /\ phase'[e] # "migrating" => written'[e] = {}
    BY <1>4, MigrationFrame DEF MigrationLocked
  <2>1. CASE e = d
    BY <1>1, <2>1
  <2>2. CASE e # d
    BY <1>1, <2>2, OneMigrates, MigrationFrame DEF MigrationLocked
  <2>3. QED
    BY <2>1, <2>2
<1>7. ReconcilesValid'
  BY <1>1, MigrationFrame DEF ReconcilesValid
<1>8. QED
  BY <1>2, <1>3, <1>5, <1>6, <1>7, MigrationFrame

LEMMA ApplyStep ==
  ASSUME DeploymentInv, NEW d \in Deployments, ApplyFile(d)
  PROVE  DeploymentInv'
<1> USE DEF DeploymentInv
<1> DEFINE v == Lowest(todo[d])
<1>1. /\ phase[d] = "migrating" /\ phase' = phase /\ schema' = schema /\ holder' = holder
      /\ holder = d /\ faults' = faults
      /\ ~Mismatch(d, v) /\ v \in todo[d]
      /\ todo' = [todo EXCEPT ![d] = todo[d] \ {v}]
      /\ written' = IF v \in DOMAIN schema THEN written ELSE [written EXCEPT ![d] = written[d] \cup {v}]
  BY LowestLeft DEF ApplyFile, MigrationLocked, vars
<1> HIDE DEF v
<1>2. DeploymentTypeOK'
  <2>1. v \in Nat /\ todo[d] \in SUBSET Nat
    BY <1>1 DEF DeploymentTypeOK
  <2>2. todo' \in [Deployments -> SUBSET Nat] /\ written' \in [Deployments -> SUBSET Nat]
    BY <1>1, <2>1 DEF DeploymentTypeOK
  <2>3. QED
    BY <1>1, <2>2, MigrationFrame DEF DeploymentTypeOK
<1>3. LocksPreventConflicts'
  BY <1>1, MigrationFrame DEF LocksPreventConflicts
<1>4. \A e \in Deployments : \A w : Recorded(e, w)' = Recorded(e, w)
  BY <1>1, MigrationFrame DEF Recorded
<1>5. MigratedFilesApplied'
  BY <1>1, <1>4, MigrationFrame DEF MigratedFilesApplied, Confirmed
<1>6. MigrationLocked'
  <2> SUFFICES ASSUME NEW e \in Deployments
               PROVE  /\ phase'[e] = "migrating" =>
                            /\ holder' = e
                            /\ todo'[e] \subseteq DOMAIN Files(e)
                            /\ written'[e] \subseteq DOMAIN Files(e) \ DOMAIN schema'
                            /\ \A w \in DOMAIN Files(e) \ todo'[e] : w \in written'[e] \/ Recorded(e, w)
                      /\ phase'[e] # "migrating" => written'[e] = {}
    BY <1>4, MigrationFrame DEF MigrationLocked
  <2>1. CASE e = d
    <3>1. v \in DOMAIN Files(d) /\ (v \in DOMAIN schema => Recorded(d, v))
      BY <1>1 DEF MigrationLocked, Mismatch, Recorded
    <3>2. /\ todo'[d] = todo[d] \ {v}
          /\ written'[d] = IF v \in DOMAIN schema THEN written[d] ELSE written[d] \cup {v}
      BY <1>1 DEF DeploymentTypeOK
    <3>3. QED
      BY <1>1, <2>1, <3>1, <3>2 DEF MigrationLocked
  <2>2. CASE e # d
    BY <1>1, <2>2, OneMigrates, MigrationFrame DEF MigrationLocked
  <2>3. QED
    BY <2>1, <2>2
<1>7. ReconcilesValid'
  BY <1>1, MigrationFrame DEF ReconcilesValid
<1>8. QED
  BY <1>2, <1>3, <1>5, <1>6, <1>7, MigrationFrame

LEMMA CommitMigrationsStep ==
  ASSUME DeploymentInv, NEW d \in Deployments, CommitMigrations(d)
  PROVE  DeploymentInv'
<1> USE DEF DeploymentInv
<1>1. /\ phase[d] = "migrating" /\ todo[d] = {} /\ phase'[d] = "migrated"
      /\ holder = d /\ holder' = "free" /\ faults' = faults /\ todo' = todo
      /\ written' = [written EXCEPT ![d] = {}]
      /\ schema' = [v \in DOMAIN schema \cup written[d] |->
                       IF v \in DOMAIN schema THEN schema[v] ELSE Files(d)[v]]
  BY DEF CommitMigrations, Enter, MigrationLocked, DeploymentTypeOK, vars
<1>2. DeploymentTypeOK'
  BY DEF DeploymentTypeOK, CommitMigrations, Enter
<1>3. LocksPreventConflicts'
  BY <1>1, MigrationFrame DEF LocksPreventConflicts
<1>4. /\ DOMAIN schema' = DOMAIN schema \cup written[d]
      /\ \A v \in DOMAIN schema : schema'[v] = schema[v]
      /\ \A v \in written[d] : v \in DOMAIN Files(d) /\ schema'[v] = Files(d)[v]
  BY <1>1 DEF MigrationLocked
<1>5. \A e \in Deployments, v \in DOMAIN schema : Recorded(e, v) => Recorded(e, v)'
  BY <1>4, MigrationFrame DEF Recorded
<1>6. \A v \in DOMAIN Files(d) : Recorded(d, v)'
  <2> TAKE v \in DOMAIN Files(d)
  <2>1. v \in written[d] \/ Recorded(d, v)
    BY <1>1 DEF MigrationLocked
  <2>2. CASE v \in written[d]
    BY <1>4, <2>2, MigrationFrame DEF Recorded
  <2>3. CASE Recorded(d, v)
    BY <1>5, <2>3 DEF Recorded
  <2>4. QED
    BY <2>1, <2>2, <2>3
<1>7. MigratedFilesApplied'
  <2>1. ASSUME NEW e \in Deployments, Confirmed(e)', NEW v \in DOMAIN Files(e)
        PROVE  Recorded(e, v)'
    <3>1. CASE e = d
      BY <1>6, <2>1, <3>1
    <3>2. CASE e # d
      <4>1. Recorded(e, v) /\ v \in DOMAIN schema
        BY <2>1, <3>2, MigrationFrame DEF Confirmed, MigratedFilesApplied, Recorded
      <4>2. QED
        BY <1>5, <4>1
    <3>3. QED
      BY <3>1, <3>2
  <2>2. ASSUME NEW v \in DOMAIN schema' \ DOMAIN Applied
        PROVE  \E e \in Deployments :
                  /\ phase'[e] \notin {"deploying", "unmigrated", "migrating", "mismatched", "broken"}
                  /\ v \in DOMAIN Files(e) /\ Recorded(e, v)'
    <3>1. CASE v \in written[d]
      BY <1>1, <1>4, <1>6, <3>1
    <3>2. CASE v \in DOMAIN schema
      <4>1. PICK e \in Deployments :
               /\ phase[e] \notin {"deploying", "unmigrated", "migrating", "mismatched", "broken"}
               /\ v \in DOMAIN Files(e) /\ Recorded(e, v)
        BY <2>2, <3>2 DEF MigratedFilesApplied
      <4>2. phase'[e] = phase[e]
        BY <1>1, <4>1, MigrationFrame
      <4>3. QED
        BY <1>5, <3>2, <4>1, <4>2
    <3>3. QED
      BY <1>4, <2>2, <3>1, <3>2
  <2>3. QED
    BY <2>1, <2>2, MigrationFrame DEF MigratedFilesApplied
<1>8. MigrationLocked'
  <2> SUFFICES ASSUME NEW e \in Deployments
               PROVE  phase'[e] # "migrating" /\ written'[e] = {}
    BY DEF MigrationLocked
  <2>1. CASE e = d
    BY <1>1, <2>1 DEF DeploymentTypeOK
  <2>2. CASE e # d
    BY <1>1, <2>2, OneMigrates, MigrationFrame DEF MigrationLocked
  <2>3. QED
    BY <2>1, <2>2
<1>9. ReconcilesValid'
  BY <1>1, MigrationFrame DEF ReconcilesValid
<1>10. QED
  BY <1>2, <1>3, <1>7, <1>8, <1>9, MigrationFrame

LEMMA RollbackMigrationsStep ==
  ASSUME DeploymentInv, NEW d \in Deployments, RollbackMigrations(d)
  PROVE  DeploymentInv'
<1> USE DEF DeploymentInv
<1>1. /\ phase[d] = "migrating" /\ holder = d /\ holder' = "free"
      /\ schema' = schema /\ todo' = todo /\ written' = [written EXCEPT ![d] = {}]
  BY DEF RollbackMigrations, MigrationLocked
<1>2. ~Duplicate(d)
  BY <1>1 DEF Duplicate, MigrationLocked
<1>3. phase'[d] \in {"mismatched", "broken"}
  BY <1>2 DEF RollbackMigrations, Enter, DeploymentTypeOK
<1>4. DeploymentTypeOK'
  BY DEF DeploymentTypeOK, RollbackMigrations, Enter
<1>5. LocksPreventConflicts'
  <2>1. faults \in 0..MaxFaults
    BY DEF CatalogueInv, TypeOK
  <2>2. QED
    BY <1>3, <2>1, MigrationFrame, ConstantsAssumption DEF LocksPreventConflicts
<1>6. \A e \in Deployments : \A v : Recorded(e, v)' = Recorded(e, v)
  BY <1>1, MigrationFrame DEF Recorded
<1>7. MigratedFilesApplied'
  <2>1. \A e \in Deployments : Confirmed(e)' => Confirmed(e)
    BY <1>3, MigrationFrame DEF Confirmed
  <2>2. \A e \in Deployments : phase[e] \notin {"deploying", "unmigrated", "migrating", "mismatched", "broken"}
                               => phase'[e] = phase[e]
    BY <1>1, MigrationFrame
  <2>3. QED
    BY <1>1, <1>6, <2>1, <2>2, MigrationFrame DEF MigratedFilesApplied
<1>8. MigrationLocked'
  <2> SUFFICES ASSUME NEW e \in Deployments
               PROVE  phase'[e] # "migrating" /\ written'[e] = {}
    BY DEF MigrationLocked
  <2>1. CASE e = d
    BY <1>1, <1>3, <2>1 DEF DeploymentTypeOK
  <2>2. CASE e # d
    BY <1>1, <2>2, OneMigrates, MigrationFrame DEF MigrationLocked
  <2>3. QED
    BY <2>1, <2>2
<1>9. ReconcilesValid'
  BY <1>3, MigrationFrame DEF ReconcilesValid
<1>10. QED
  BY <1>4, <1>5, <1>7, <1>8, <1>9, MigrationFrame

-----------------------------------------------------------------------------
(* All steps, and what follows.                                            *)

LEMMA DeploymentStep == DeploymentInv /\ [DeploymentNext]_deployment => DeploymentInv'
<1> SUFFICES ASSUME DeploymentInv, [DeploymentNext]_deployment
             PROVE  DeploymentInv'
  OBVIOUS
<1>0. faults \in 0..MaxFaults /\ MaxFaults \in Nat
  BY ConstantsAssumption DEF DeploymentInv, CatalogueInv, TypeOK
<1>1. ASSUME NEW d \in Deployments, Migrate(d) \/ ApplyFile(d) \/ CommitMigrations(d) \/ RollbackMigrations(d)
      PROVE  DeploymentInv'
  BY <1>1, MigrateStep, ApplyStep, CommitMigrationsStep, RollbackMigrationsStep
<1>2. ASSUME NEW d \in Deployments, StartReconcile(d)
      PROVE  DeploymentInv'
  <2>1. /\ phase[d] \in {"unmigrated", "migrated", "previewing"} /\ Loads(d) /\ MigrationsCurrent(d)
        /\ UNCHANGED <<migration, server, release, tables, at, stage, existing, current>> /\ faults' = faults
    BY <1>2 DEF StartReconcile, Starts, Enter, vars
  <2>2. stage[d] \notin {"locked", "read"}
    BY <2>1 DEF DeploymentInv, ReconcilesValid
  <2>3. CASE phase[d] = "previewing"
    <3>1. phase' = [phase EXCEPT ![d] = phase'[d]] /\ phase'[d] = "reconciling"
      BY <1>2, <2>3 DEF StartReconcile, Enter, DeploymentInv, DeploymentTypeOK
    <3>2. QED
      BY <1>0, <2>1, <2>2, <2>3, <3>1, PhaseStep
  <2>4. CASE phase[d] # "previewing"
    <3>1. phase' = [phase EXCEPT ![d] = phase'[d]] /\ phase'[d] = "previewing"
      BY <1>2, <2>4 DEF StartReconcile, Enter, DeploymentInv, DeploymentTypeOK
    <3>2. QED
      BY <1>0, <2>1, <2>2, <2>4, <3>1, PhaseStep
  <2>5. QED
    BY <2>3, <2>4
<1>3. ASSUME NEW d \in Deployments, StartRefused(d)
      PROVE  DeploymentInv'
  <2>1. /\ phase[d] \in {"unmigrated", "migrated", "previewing"}
        /\ UNCHANGED <<migration, server, release, tables, at, stage, existing, current>> /\ faults' = faults
        /\ phase' = [phase EXCEPT ![d] = phase'[d]] /\ phase'[d] = "stopped"
    BY <1>3 DEF StartRefused, Starts, Enter, vars, DeploymentInv, DeploymentTypeOK
  <2>2. stage[d] \notin {"locked", "read"}
    BY <2>1 DEF DeploymentInv, ReconcilesValid
  <2>3. QED
    BY <1>0, <2>1, <2>2, PhaseStep
<1>4. ASSUME NEW d \in Deployments, PreviewStep(d) \/ ReconcileStep(d)
      PROVE  DeploymentInv'
  BY <1>4, CatalogueStep
<1>5. ASSUME NEW d \in Deployments, LeaveOutMigrate(d)
      PROVE  DeploymentInv'
  <2>1. /\ phase[d] = "deploying"
        /\ UNCHANGED <<migration, server, release, tables, at, stage, existing, current>> /\ faults' = faults
        /\ phase' = [phase EXCEPT ![d] = phase'[d]] /\ phase'[d] = "unmigrated"
    BY <1>5 DEF LeaveOutMigrate, Enter, vars, DeploymentInv, DeploymentTypeOK
  <2>2. stage[d] \notin {"locked", "read"}
    BY <2>1 DEF DeploymentInv, ReconcilesValid
  <2>3. QED
    BY <1>0, <2>1, <2>2, PhaseStep
<1>6. ASSUME NEW d \in Deployments, StatementFails(d)
      PROVE  DeploymentInv'
  <2>1. /\ phase[d] # "migrating" /\ stage[d] \notin {"locked", "read"}
        /\ UNCHANGED <<migration, server, release, tables, at, stage, existing, current>>
        /\ faults < MaxFaults /\ faults' = faults + 1
    BY <1>6 DEF StatementFails, DeploymentInv, ReconcilesValid
  <2>2. CASE phase[d] \in {"deploying", "unmigrated"}
    <3>1. phase' = [phase EXCEPT ![d] = phase'[d]] /\ phase'[d] = "broken"
      BY <1>6, <2>2 DEF StatementFails, Enter, DeploymentInv, DeploymentTypeOK
    <3>2. QED
      BY <1>0, <2>1, <2>2, <3>1, PhaseStep
  <2>3. CASE phase[d] \notin {"deploying", "unmigrated"}
    <3>1. phase' = [phase EXCEPT ![d] = phase'[d]] /\ phase'[d] = "aborted"
      BY <1>6, <2>3 DEF StatementFails, Enter, DeploymentInv, DeploymentTypeOK
    <3>2. QED
      BY <1>0, <2>1, <2>3, <3>1, PhaseStep
  <2>4. QED
    BY <2>2, <2>3
<1>7. ASSUME NEW d \in Deployments, Initialize(d)
      PROVE  DeploymentInv'
  BY <1>7, ServerStep DEF Initialize
<1>8. ASSUME NEW d \in Deployments, Check(d)
      PROVE  DeploymentInv'
  BY <1>8, ServerStep DEF Check
<1>9. ASSUME UNCHANGED deployment
      PROVE  DeploymentInv'
  <2>1. CatalogueInv'
    BY <1>0, <1>9, CatalogueSame DEF deployment, vars, DeploymentInv
  <2>2. QED
    BY <1>9, <2>1 DEF deployment, vars, migration, DeploymentInv, DeploymentTypeOK,
       LocksPreventConflicts, MigratedFilesApplied, MigrationLocked, ReconcilesValid,
       Confirmed, Recorded, Files, Loads
<1>10. QED
  BY <1>1, <1>2, <1>3, <1>4, <1>5, <1>6, <1>7, <1>8, <1>9 DEF DeploymentNext, Command

\* The inductive invariant holds in every reachable state.
THEOREM DeploymentInvariant == DeploymentSpec => []DeploymentInv
<1>1. QED
  BY DeploymentInitial, DeploymentStep, PTL DEF DeploymentSpec

\* However many releases are deployed at once, no command fails because of another one: the
\* primary key of schema_migrations and the unique constraints are never violated.
THEOREM LocksSuffice == DeploymentSpec => []LocksPreventConflicts
<1>1. DeploymentInv => LocksPreventConflicts
  BY DEF DeploymentInv
<1>2. QED
  BY <1>1, DeploymentInvariant, PTL

\* What a release was confirmed to find in the schema stays there, whatever other releases
\* migrate, and a refused release leaves nothing behind.
THEOREM FilesStayApplied == DeploymentSpec => []MigratedFilesApplied
<1>1. DeploymentInv => MigratedFilesApplied
  BY DEF DeploymentInv
<1>2. QED
  BY <1>1, DeploymentInvariant, PTL

\* A reconciliation that ends has published each of its fixtures.
THEOREM ReconciledIsPublished == DeploymentSpec => []DoneMeansPublished
<1>1. DeploymentInv => DoneMeansPublished
  BY DEF DeploymentInv, CatalogueInv
<1>2. QED
  BY <1>1, DeploymentInvariant, PTL

\* Every version of a bundled slug passes the integrity check of its reader, and every
\* lookup the gateway makes to execute it succeeds.
THEOREM PublishedExecutable == DeploymentSpec => []PublishedIsExecutable
<1>1. DeploymentInv => PublishedIsExecutable
  <2> SUFFICES ASSUME DeploymentInv, NEW s \in SlugSet, origin[s] = "bundled", NEW i \in DOMAIN versions[s]
               PROVE  Verified(versions[s][i], i) /\ Executable(versions[s][i].scenario)
    BY DEF PublishedIsExecutable
  <2> DEFINE x == versions[s][i].scenario
  <2>1. Verified(versions[s][i], i)
    BY DEF DeploymentInv, CatalogueInv, RowsVerified
  <2>2. versions[s] \in Seq(Row)
    BY DEF DeploymentInv, CatalogueInv, TypeOK
  <2>3. versions[s][i] \in Row
    BY <2>2, LenProperties, ElementOfSeq
  <2>4. x \in Scenarios /\ Validates(x)
    BY <2>1, <2>3 DEF Verified, Row
  <2>5. x.steps \in Seq(ToSet(x.steps))
    <3>1. Existing.steps \in Seq(ToSet(Existing.steps))
      BY ConstantsAssumption
    <3>2. \A r \in Releases, d \in Deployments, t \in SlugSet :
             r[d].fixtures[t].scenario.steps \in Seq(ToSet(r[d].fixtures[t].scenario.steps))
      BY ConstantsAssumption DEF SlugSet
    <3>3. CASE x = Existing
      BY <3>1, <3>3
    <3>4. CASE x # Existing
      <4>1. PICK r \in Releases, d \in Deployments, t \in SlugSet : x = r[d].fixtures[t].scenario
        BY <2>4, <3>4 DEF Scenarios
      <4>2. QED
        BY <3>2, <4>1
    <3>5. QED
      BY <3>3, <3>4
  <2>6. QED
    BY <2>1, <2>4, <2>5, ValidIsExecutable
<1>2. QED
  BY <1>1, DeploymentInvariant, PTL

\* The versions of a slug are appended one at a time, a new one differs from the one before,
\* and a slug of another origin is never touched, by however many deployments at once.
THEOREM HistoryGrows == DeploymentSpec => HistoryOnlyGrows
<1>1. ASSUME DeploymentInv, [DeploymentNext]_deployment,
             NEW s \in SlugSet, versions'[s] # versions[s]
      PROVE  /\ Front(versions'[s]) = versions[s]
             /\ versions[s] # <<>> => Last(versions'[s]).scenario # Last(versions[s]).scenario
             /\ origin[s] # "operator"
  <2>1. PICK d \in Deployments : Commit(d)
    BY <1>1 DEF DeploymentNext, deployment, Command, Migrate, ApplyFile, CommitMigrations,
       RollbackMigrations, StartReconcile, StartRefused, PreviewStep, Preview, PreviewMissing,
       PreviewFound, PreviewLatest, ReconcileStep, Reconcile, Upsert, UpsertRefused, ReadLatest,
       Rollback, LeaveOutMigrate, StatementFails, Initialize, Check, Become, vars, tables
  <2>2. CatalogueInv /\ TypeOK
    BY <1>1 DEF DeploymentInv, CatalogueInv
  <2>3. /\ s = Slug(d) /\ origin[s] # "operator"
        /\ versions'[s] = Append(versions[s], Candidate(d))
        /\ existing[d] = Len(versions[s])
        /\ versions[s] # <<>> => Last(versions[s]).scenario # Fixture(d).scenario
    BY <1>1, <2>1, <2>2, CommitEffect
  <2>4. Front(versions'[s]) = versions[s] /\ Last(versions'[s]) = Candidate(d)
    BY <2>2, <2>3, CandidateAppended
  <2>5. QED
    BY <2>3, <2>4 DEF Candidate, Version
<1>2. DeploymentInv /\ [DeploymentNext]_deployment =>
         [\A s \in SlugSet : versions'[s] # versions[s] =>
             /\ Front(versions'[s]) = versions[s]
             /\ versions[s] # <<>> => Last(versions'[s]).scenario # Last(versions[s]).scenario
             /\ origin[s] # "operator"]_vars
  BY <1>1
<1>3. QED
  BY <1>2, DeploymentInvariant, PTL DEF DeploymentSpec, HistoryOnlyGrows

-----------------------------------------------------------------------------
(* The dry run.                                                            *)

\* What the dry run says of scenario x on the grounds of history v.
Prediction(v, x) ==
    [status |-> IF v = <<>> THEN "new" ELSE IF Last(v).scenario = x THEN "unchanged" ELSE "changed",
     proposed |-> IF v # <<>> /\ Last(v).scenario = x THEN Len(v) ELSE Len(v) + 1,
     grounds |-> v]
Predictions == [status : {"unknown", "new", "unchanged", "changed"}, proposed : Nat, grounds : Seq(Row)]

\* Which fixtures deployment d has previewed.
Previewed(d, i) == stage[d] \in {"previewing", "previewFound"} => i < at[d]

\* What was predicted of a slug follows from its history as the dry run saw it; another
\* origin's keeps its owner, so that what was predicted of it never comes to a commit.
PredictionsFollow ==
    /\ preview \in [Deployments -> [SlugSet -> Predictions]]
    /\ \A d \in Deployments : \A i \in DOMAIN Slugs :
          LET s == Slugs[i]
              p == preview[d][s]
          IN  Previewed(d, i) =>
                 \/ origin[s] = "operator"
                 \/ p = Prediction(p.grounds, release[d].fixtures[s].scenario)

\* A prediction is well formed.
LEMMA PredictionTyped ==
  ASSUME NEW v \in Seq(Row), NEW x
  PROVE  Prediction(v, x) \in Predictions
<1>1. Len(v) \in Nat
  BY LenProperties
<1>2. QED
  BY <1>1 DEF Prediction, Predictions

\* A step that previews nothing keeps the predictions.
LEMMA PredictionsFrame ==
  ASSUME PredictionsFollow, UNCHANGED <<release, preview>>,
         \A s \in SlugSet : origin[s] = "operator" => origin'[s] = "operator",
         \A d \in Deployments :
            \/ stage[d] \notin {"previewing", "previewFound"}
            \/ stage'[d] \in {"previewing", "previewFound"} /\ at'[d] = at[d]
  PROVE  PredictionsFollow'
<1>1. preview' \in [Deployments -> [SlugSet -> Predictions]]
  BY DEF PredictionsFollow
<1>2. ASSUME NEW d \in Deployments, NEW i \in DOMAIN Slugs, Previewed(d, i)'
      PROVE  \/ origin'[Slugs[i]] = "operator"
             \/ preview[d][Slugs[i]] =
                   Prediction(preview[d][Slugs[i]].grounds, release[d].fixtures[Slugs[i]].scenario)
  <2>1. Previewed(d, i)
    BY <1>2 DEF Previewed
  <2>2. Slugs[i] \in SlugSet
    BY ConstantsAssumption, LenProperties DEF SlugSet, ToSet
  <2>3. QED
    BY <2>1, <2>2 DEF PredictionsFollow
<1>3. QED
  BY <1>1, <1>2 DEF PredictionsFollow, Prediction

\* The dry run predicts from the history it reads.
LEMMA PredictsFromHistory ==
  ASSUME CatalogueInv, NEW d \in Deployments, PreviewMissing(d) \/ PreviewLatest(d)
  PROVE  \E p \in Predictions :
            /\ preview' = [preview EXCEPT ![d][Slug(d)] = p]
            /\ \/ origin[Slug(d)] = "operator"
               \/ p = Prediction(p.grounds, Fixture(d).scenario)
<1> DEFINE v == versions[Slug(d)]
           x == Fixture(d).scenario
<1>1. v \in Seq(Row) /\ Slug(d) \in SlugSet /\ Len(v) \in Nat /\ Len(<<>>) = 0
  BY AtFixture, LenProperties DEF CatalogueInv
<1>2. CASE PreviewMissing(d)
  <2> DEFINE p == [status |-> "new", proposed |-> 1, grounds |-> v]
  <2>1. preview' = [preview EXCEPT ![d][Slug(d)] = p] /\ p \in Predictions
    BY <1>1, <1>2 DEF PreviewMissing, Predict, Predictions
  <2>2. origin[Slug(d)] # "operator" => v = <<>>
    BY <1>1, <1>2 DEF PreviewMissing, CatalogueInv, TypeOK, RowsVerified
  <2>3. origin[Slug(d)] # "operator" => p = Prediction(p.grounds, x)
    BY <1>1, <2>2 DEF Prediction
  <2>4. QED
    BY <2>1, <2>3
<1>3. CASE PreviewLatest(d)
  <2> DEFINE p == Prediction(v, x)
  <2>1. p \in Predictions /\ p.grounds = v
    BY <1>1, PredictionTyped DEF Prediction
  <2>2. \/ v = <<>> /\ Predict(d, "new", 1)
        \/ v # <<>> /\ Last(v).scenario = x /\ Predict(d, "unchanged", Len(v))
        \/ v # <<>> /\ Last(v).scenario # x /\ Predict(d, "changed", Len(v) + 1)
    BY <1>3, Zenon DEF PreviewLatest
  <2>3. preview' = [preview EXCEPT ![d][Slug(d)] = p]
    <3>1. CASE v = <<>>
      BY <1>1, <2>2, <3>1 DEF Predict, Prediction
    <3>2. CASE v # <<>> /\ Last(v).scenario = x
      BY <2>2, <3>2 DEF Predict, Prediction
    <3>3. CASE v # <<>> /\ Last(v).scenario # x
      BY <2>2, <3>3 DEF Predict, Prediction
    <3>4. QED
      BY <3>1, <3>2, <3>3
  <2>4. QED
    BY <2>1, <2>3
<1>4. QED
  BY <1>2, <1>3

LEMMA PreviewPredicts ==
  ASSUME CatalogueInv, PredictionsFollow, NEW d \in Deployments,
         PreviewMissing(d) \/ PreviewLatest(d)
  PROVE  PredictionsFollow'
<1>1. PICK p \in Predictions :
         /\ preview' = [preview EXCEPT ![d][Slug(d)] = p]
         /\ \/ origin[Slug(d)] = "operator"
            \/ p = Prediction(p.grounds, Fixture(d).scenario)
  BY PredictsFromHistory
<1>2. /\ UNCHANGED <<release, origin>> /\ stage[d] \in {"previewing", "previewFound"}
      /\ Slug(d) \in SlugSet /\ at[d] \in 1..Len(Slugs) /\ Len(Slugs) \in Nat
      /\ DOMAIN Slugs = 1..Len(Slugs)
  BY AtFixture DEF CatalogueInv, PreviewMissing, PreviewLatest, tables
<1>3. preview' \in [Deployments -> [SlugSet -> Predictions]]
  BY <1>1, <1>2 DEF PredictionsFollow
<1>4. \A e \in Deployments : e # d => stage'[e] = stage[e] /\ at'[e] = at[e]
  BY DEF CatalogueInv, TypeOK, PreviewMissing, PreviewLatest, NextPreview, Goto
<1>5. ASSUME NEW e \in Deployments, NEW i \in DOMAIN Slugs, Previewed(e, i)'
      PROVE  \/ origin'[Slugs[i]] = "operator"
             \/ preview'[e][Slugs[i]] =
                   Prediction(preview'[e][Slugs[i]].grounds, release'[e].fixtures[Slugs[i]].scenario)
  <2>1. Slugs[i] \in SlugSet
    BY <1>2 DEF SlugSet, ToSet
  <2>2. CASE e = d /\ Slugs[i] = Slug(d)
    <3>1. preview'[e][Slugs[i]] = p
      BY <1>1, <1>2, <2>2 DEF PredictionsFollow
    <3>2. QED
      BY <1>1, <1>2, <2>2, <3>1 DEF Fixture
  <2>3. CASE e = d /\ Slugs[i] # Slug(d)
    <3>1. i # at[d]
      BY <2>3 DEF Slug
    <3>2. i <= at[d]
      <4>1. CASE at[d] < Len(Slugs)
        <5>1. stage'[d] = "previewing" /\ at'[d] = at[d] + 1
          BY <4>1 DEF PreviewMissing, PreviewLatest, NextPreview, Goto, CatalogueInv, TypeOK
        <5>2. i < at[d] + 1
          BY <1>5, <2>3, <5>1 DEF Previewed
        <5>3. QED
          BY <1>2, <5>2
      <4>2. CASE ~(at[d] < Len(Slugs))
        BY <1>2, <4>2
      <4>3. QED
        BY <4>1, <4>2
    <3>3. Previewed(d, i)
      BY <1>2, <3>1, <3>2 DEF Previewed
    <3>4. preview'[d][Slugs[i]] = preview[d][Slugs[i]]
      BY <1>1, <1>2, <2>1, <2>3 DEF PredictionsFollow
    <3>5. QED
      BY <1>2, <2>3, <3>3, <3>4 DEF PredictionsFollow
  <2>4. CASE e # d
    <3>1. Previewed(e, i)
      BY <1>4, <1>5, <2>4 DEF Previewed
    <3>2. preview'[e] = preview[e]
      BY <1>1, <2>4 DEF PredictionsFollow
    <3>3. QED
      BY <1>2, <3>1, <3>2 DEF PredictionsFollow
  <2>5. QED
    BY <2>2, <2>3, <2>4
<1>6. QED
  BY <1>3, <1>5 DEF PredictionsFollow

LEMMA PredictionsInitial == DeploymentInit => PredictionsFollow
<1> SUFFICES ASSUME DeploymentInit PROVE PredictionsFollow
  OBVIOUS
<1>1. Unknown \in Predictions
  BY EmptySeq DEF Unknown, Predictions
<1>2. preview \in [Deployments -> [SlugSet -> Predictions]]
  BY <1>1 DEF DeploymentInit, Init
<1>3. \A d \in Deployments, i \in DOMAIN Slugs : ~Previewed(d, i)
  <2>1. DOMAIN Slugs = 1..Len(Slugs) /\ Len(Slugs) \in Nat
    BY ConstantsAssumption, LenProperties
  <2>2. QED
    BY <2>1 DEF DeploymentInit, Init, Previewed
<1>4. QED
  BY <1>2, <1>3 DEF PredictionsFollow

LEMMA PredictionsStep ==
  DeploymentInv /\ PredictionsFollow /\ [DeploymentNext]_deployment => PredictionsFollow'
<1> SUFFICES ASSUME DeploymentInv, PredictionsFollow, [DeploymentNext]_deployment
             PROVE  PredictionsFollow'
  OBVIOUS
<1> USE DEF DeploymentInv
<1>1. ASSUME NEW d \in Deployments, PreviewStep(d)
      PROVE  PredictionsFollow'
  <2>1. CASE PreviewMissing(d) \/ PreviewLatest(d)
    BY <2>1, PreviewPredicts
  <2>2. CASE PreviewFound(d)
    <3>1. /\ UNCHANGED <<release, preview, origin, at>>
          /\ \A e \in Deployments : stage'[e] = stage[e] \/ stage'[e] = "previewFound"
      BY <2>2 DEF PreviewFound, tables, Goto, CatalogueInv, TypeOK
    <3>2. QED
      BY <3>1, PredictionsFrame
  <2>3. QED
    BY <1>1, <2>1, <2>2 DEF PreviewStep, Preview
<1>2. ASSUME NEW d \in Deployments, ReconcileStep(d)
      PROVE  PredictionsFollow'
  <2>1. UNCHANGED <<release, preview>> /\ stage[d] \notin {"previewing", "previewFound"}
    BY <1>2 DEF ReconcileStep, Reconcile, Upsert, UpsertRefused, ReadLatest, Commit, Rollback
  <2>2. \A e \in Deployments : e # d => stage'[e] = stage[e] /\ at'[e] = at[e]
    BY <1>2 DEF ReconcileStep, Reconcile, Upsert, UpsertRefused, ReadLatest, Commit, Rollback,
       Goto, CatalogueInv, TypeOK
  <2>3. \A s \in SlugSet : origin[s] = "operator" => origin'[s] = "operator"
    <3>1. CASE Commit(d)
      BY <3>1, CommitEffect
    <3>2. CASE ~Commit(d)
      BY <1>2, <3>2 DEF ReconcileStep, Reconcile, Upsert, UpsertRefused, ReadLatest, Rollback, tables
    <3>3. QED
      BY <3>1, <3>2
  <2>4. QED
    BY <2>1, <2>2, <2>3, PredictionsFrame
<1>3. ASSUME UNCHANGED <<release, preview, origin, stage, at>>
      PROVE  PredictionsFollow'
  BY <1>3, PredictionsFrame
<1>4. ASSUME NEW d \in Deployments,
             \/ Migrate(d) \/ ApplyFile(d) \/ CommitMigrations(d) \/ RollbackMigrations(d)
             \/ StartReconcile(d) \/ StartRefused(d) \/ LeaveOutMigrate(d) \/ StatementFails(d)
             \/ Initialize(d) \/ Check(d)
      PROVE  PredictionsFollow'
  <2>1. UNCHANGED <<release, preview, origin, stage, at>>
    BY <1>4 DEF Migrate, ApplyFile, CommitMigrations, RollbackMigrations, StartReconcile, StartRefused,
       LeaveOutMigrate, StatementFails, Initialize, Check, Become, vars, tables
  <2>2. QED
    BY <1>3, <2>1
<1>5. ASSUME UNCHANGED deployment
      PROVE  PredictionsFollow'
  BY <1>3, <1>5 DEF deployment, vars, tables
<1>6. QED
  BY <1>1, <1>2, <1>4, <1>5 DEF DeploymentNext, Command

\* What a dry run said of a slug comes true exactly, however many deployments preview and
\* reconcile beside it, if nobody has changed that slug since.
THEOREM PreviewIsExact == DeploymentSpec => PreviewExact
<1>1. DeploymentSpec => []PredictionsFollow
  BY PredictionsInitial, PredictionsStep, DeploymentInvariant, PTL DEF DeploymentSpec
<1>2. ASSUME DeploymentInv, PredictionsFollow, [DeploymentNext]_deployment, NEW d \in Deployments,
             stage[d] = "read", stage'[d] \in {"ready", "done"},
             versions[Slug(d)] = preview[d][Slug(d)].grounds
      PROVE  /\ Len(versions'[Slug(d)]) = preview[d][Slug(d)].proposed
             /\ preview[d][Slug(d)].status = "unchanged" <=> versions' = versions
  <2> DEFINE v == versions[Slug(d)]
             x == Fixture(d).scenario
             w == Append(v, Candidate(d))
  <2>1. CatalogueInv /\ TypeOK
    BY <1>2 DEF DeploymentInv, CatalogueInv
  <2>2. Commit(d)
    <3>1. PICK e \in Deployments : PreviewStep(e) \/ ReconcileStep(e)
      BY <1>2, <2>1 DEF DeploymentNext, deployment, Command, Migrate, ApplyFile, CommitMigrations,
         RollbackMigrations, StartReconcile, StartRefused, LeaveOutMigrate, StatementFails,
         Initialize, Check, Become, vars
    <3>2. e = d
      BY <1>2, <2>1, <3>1 DEF PreviewStep, ReconcileStep, Preview, Reconcile, PreviewMissing,
         PreviewFound, PreviewLatest, NextPreview, Upsert, UpsertRefused, ReadLatest, Commit,
         Rollback, Goto, TypeOK
    <3>3. Reconcile(d)
      BY <1>2, <3>1, <3>2 DEF PreviewStep, ReconcileStep, Preview, PreviewMissing, PreviewFound, PreviewLatest
    <3>4. ~Upsert(d) /\ ~UpsertRefused(d) /\ ~ReadLatest(d)
      BY <1>2 DEF Upsert, UpsertRefused, ReadLatest
    <3>5. ~Rollback(d)
      BY <1>2, <2>1 DEF Rollback, Goto, TypeOK
    <3>6. QED
      BY <3>3, <3>4, <3>5 DEF Reconcile
  <2>3. /\ Slug(d) \in SlugSet /\ v \in Seq(Row) /\ Len(v) \in Nat
        /\ at[d] \in DOMAIN Slugs
    BY <2>1, AtFixture, LenProperties
  <2>4. /\ origin[Slug(d)] # "operator" /\ existing[d] = Len(v)
        /\ current[d] = IF v = <<>> THEN None ELSE <<Last(v).scenario>>
    BY <1>2, <2>1 DEF CatalogueInv, RowLocked
  <2>5. preview[d][Slug(d)] = Prediction(v, x)
    <3>1. Previewed(d, at[d])
      BY <1>2 DEF Previewed
    <3>2. QED
      BY <1>2, <2>3, <2>4, <3>1 DEF PredictionsFollow, Slug, Fixture
  <2>6. w \in Seq(Row) /\ Len(w) = Len(v) + 1
    BY <2>1, <2>4, CandidateAppended
  <2>7. versions' = IF Inserts(d) THEN [versions EXCEPT ![Slug(d)] = w] ELSE versions
    <3>1. ~Preceded(d)
      BY <2>3, <2>4 DEF Preceded
    <3>2. QED
      BY <2>2, <3>1 DEF Commit
  <2>8. versions'[Slug(d)] = IF Inserts(d) THEN w ELSE v
    <3> HIDE DEF w
    <3>1. QED
      BY <2>1, <2>3, <2>7 DEF TypeOK
  <2>9. Inserts(d) <=> (v = <<>> \/ Last(v).scenario # x)
    BY <2>4 DEF Inserts, None
  <2>10. Inserts(d) <=> versions' # versions
    <3>1. CASE Inserts(d)
      <4>1. Len(versions'[Slug(d)]) = Len(v) + 1
        BY <2>6, <2>8, <3>1
      <4>2. Len(versions'[Slug(d)]) # Len(versions[Slug(d)])
        BY <2>3, <4>1
      <4>3. QED
        BY <3>1, <4>2
    <3>2. CASE ~Inserts(d)
      BY <2>7, <3>2
    <3>3. QED
      BY <3>1, <3>2
  <2>11. /\ Prediction(v, x).proposed = IF Inserts(d) THEN Len(v) + 1 ELSE Len(v)
         /\ Prediction(v, x).status = "unchanged" <=> ~Inserts(d)
    BY <2>9 DEF Prediction
  <2> HIDE DEF v, w, x
  <2>12. Len(versions'[Slug(d)]) = Prediction(v, x).proposed
    BY <2>6, <2>8, <2>11
  <2>13. Prediction(v, x).status = "unchanged" <=> versions' = versions
    BY <2>10, <2>11
  <2>14. QED
    BY <2>5, <2>12, <2>13
<1>3. DeploymentInv /\ PredictionsFollow /\ [DeploymentNext]_deployment =>
         [\A d \in Deployments : LET p == preview[d][Slug(d)] IN
             stage[d] = "read" /\ stage'[d] \in {"ready", "done"} /\ versions[Slug(d)] = p.grounds
             => /\ Len(versions'[Slug(d)]) = p.proposed
                /\ p.status = "unchanged" <=> versions' = versions]_vars
  BY <1>2
<1>4. QED
  BY <1>1, <1>3, DeploymentInvariant, PTL DEF DeploymentSpec, PreviewExact

=============================================================================
