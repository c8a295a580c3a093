------------------------------ MODULE Catalogue ------------------------------
(***************************************************************************)
(* The published scenario catalogue: PublishedScenarioRepository.reconcile *)
(* run by several deployments at once with different bundled fixtures, the *)
(* dry run an operator makes first, and the requests that read versions    *)
(* meanwhile. One transaction per fixture, statement by statement.         *)
(*                                                                         *)
(* A fixture is a scenario, which is what comparable() leaves of it, and   *)
(* the version number written in its file.                                 *)
(***************************************************************************)
EXTENDS Naturals, FiniteSets, ScenarioValidation

CONSTANTS
    Deployments,    \* processes that run db:reconcile
    Slugs,          \* the public slugs, in the order of registry.list()
    Releases,       \* what the deployments may bring: [fixtures |-> ..., ...] for each
    Foreign,        \* slugs an operator's scenario may occupy already
    Existing,       \* what such a scenario says
    MaxFaults       \* bound: statements that fail

ASSUME ConstantsAssumption ==
    /\ Slugs \in Seq(ToSet(Slugs)) \ {<<>>} /\ IsInjective(Slugs)
    /\ Foreign \subseteq ToSet(Slugs)
    /\ MaxFaults \in Nat
    /\ "free" \notin Deployments
    /\ Existing.steps \in Seq(ToSet(Existing.steps))
    /\ \A r \in Releases, d \in Deployments, s \in ToSet(Slugs) :
          r[d].fixtures[s].scenario.steps \in Seq(ToSet(r[d].fixtures[s].scenario.steps))

VARIABLES
    release,    \* what each deployment brings, its bundled fixtures among it
    origin,     \* scenarios.origin of each slug, "none" if there is no row
    versions,   \* scenario_versions of each slug, by version number, as committed
    lock,       \* the transaction that holds the scenario row
    at,         \* the fixture each deployment is at
    stage,      \* where it is with it
    existing,   \* the latest version its transaction read, 0 if none
    current,    \* and the scenario of that version
    preview,    \* what the dry run predicted for each fixture, and on what grounds
    faults      \* statements that failed

tables == <<origin, versions, lock>>
vars == <<release, tables, at, stage, existing, current, preview, faults>>

SlugSet == ToSet(Slugs)
Slug(d) == Slugs[at[d]]
Fixture(d) == release[d].fixtures[Slug(d)]
None == <<>>
Unknown == [status |-> "unknown", proposed |-> 0, grounds |-> <<>>]

\* A row of scenario_versions: prepareScenario validates the scenario under its new number
\* and hashes both.
Version(x, n) == [scenario |-> x, version |-> n, hash |-> <<x, n>>]

Init ==
    /\ release \in Releases
    /\ \E taken \in SUBSET Foreign :
          /\ origin = [s \in SlugSet |-> IF s \in taken THEN "operator" ELSE "none"]
          /\ versions = [s \in SlugSet |-> IF s \in taken THEN <<Version(Existing, 1)>> ELSE <<>>]
    /\ lock = [s \in SlugSet |-> "free"]
    /\ at = [d \in Deployments |-> 1]
    /\ stage = [d \in Deployments |-> "previewing"]
    /\ existing = [d \in Deployments |-> 0]
    /\ current = [d \in Deployments |-> None]
    /\ preview = [d \in Deployments |-> [s \in SlugSet |-> Unknown]]
    /\ faults = 0

Goto(d, next) == stage' = [stage EXCEPT ![d] = next]

-----------------------------------------------------------------------------
(* previewFixture: two reads, no lock.                                     *)

Predict(d, status, proposed) ==
    preview' = [preview EXCEPT ![d][Slug(d)] =
                   [status |-> status, proposed |-> proposed, grounds |-> versions[Slug(d)]]]

\* On to the next fixture; after the last one the operator runs the real thing.
NextPreview(d) ==
    IF at[d] < Len(Slugs)
    THEN at' = [at EXCEPT ![d] = @ + 1] /\ Goto(d, "previewing")
    ELSE at' = [at EXCEPT ![d] = 1] /\ Goto(d, "ready")

\* The first query looks for a bundled scenario of that slug.
PreviewMissing(d) ==
    /\ stage[d] = "previewing"
    /\ origin[Slug(d)] # "bundled"
    /\ Predict(d, "new", 1)
    /\ NextPreview(d)
    /\ UNCHANGED <<release, tables, existing, current, faults>>

PreviewFound(d) ==
    /\ stage[d] = "previewing"
    /\ origin[Slug(d)] = "bundled"
    /\ Goto(d, "previewFound")
    /\ UNCHANGED <<release, tables, at, existing, current, preview, faults>>

\* Mutant: the preview compares content hashes, which include the version number.
PreviewLatestByHash(d) ==
    /\ stage[d] = "previewFound"
    /\ Predict(d, "changed", Len(versions[Slug(d)]) + 1)
    /\ NextPreview(d)
    /\ UNCHANGED <<release, tables, existing, current, faults>>

PreviewLatest(d) ==
    LET v == versions[Slug(d)] IN
    /\ stage[d] = "previewFound"
    /\ CASE v = <<>> -> Predict(d, "new", 1)
         [] v # <<>> /\ Last(v).scenario = Fixture(d).scenario -> Predict(d, "unchanged", Len(v))
         [] OTHER -> Predict(d, "changed", Len(v) + 1)
    /\ NextPreview(d)
    /\ UNCHANGED <<release, tables, existing, current, faults>>

-----------------------------------------------------------------------------
(* reconcileFixture in its transaction.                                    *)

\* Mutants: the conflicting row is not locked; the WHERE clause on origin is missing.
UpsertUnlocked(d) ==
    /\ stage[d] = "ready"
    /\ origin[Slug(d)] # "operator"
    /\ Goto(d, "locked")
    /\ UNCHANGED <<release, tables, at, existing, current, preview, faults>>
UpsertAnyOrigin(d) ==
    /\ stage[d] = "ready"
    /\ lock[Slug(d)] = "free"
    /\ lock' = [lock EXCEPT ![Slug(d)] = d]
    /\ Goto(d, "locked")
    /\ UNCHANGED <<release, origin, versions, at, existing, current, preview, faults>>

\* INSERT ... ON CONFLICT DO UPDATE ... WHERE origin = 'bundled': creates or locks the
\* row, or returns nothing. It waits for whoever holds the row, or is inserting it.
Upsert(d) ==
    /\ stage[d] = "ready"
    /\ lock[Slug(d)] = "free"
    /\ origin[Slug(d)] # "operator"
    /\ lock' = [lock EXCEPT ![Slug(d)] = d]
    /\ Goto(d, "locked")
    /\ UNCHANGED <<release, origin, versions, at, existing, current, preview, faults>>

\* "Published scenario identity belongs to a different origin": the loop ends.
UpsertRefused(d) ==
    /\ stage[d] = "ready"
    /\ origin[Slug(d)] = "operator"
    /\ Goto(d, "refused")
    /\ UNCHANGED <<release, tables, at, existing, current, preview, faults>>

ReadLatest(d) ==
    LET v == versions[Slug(d)] IN
    /\ stage[d] = "locked"
    /\ existing' = [existing EXCEPT ![d] = Len(v)]
    /\ current' = [current EXCEPT ![d] = IF v = <<>> THEN None ELSE <<Last(v).scenario>>]
    /\ Goto(d, "read")
    /\ UNCHANGED <<release, tables, at, preview, faults>>

\* Mutant: only a slug without any version is published.
InsertsFirstOnly(d) == existing[d] = 0

\* Mutant: the number written in the file is kept.
CandidateAsBundled(d) == Version(Fixture(d).scenario, Fixture(d).version)
Candidate(d) == Version(Fixture(d).scenario, existing[d] + 1)

\* Nothing to insert if the latest version says the same; else version existing + 1. If
\* that number has been committed meanwhile, with the same content the insert does
\* nothing (ON CONFLICT DO NOTHING), with another it violates the unique constraint.
Inserts(d) == current[d] # <<Fixture(d).scenario>>
Preceded(d) == Len(versions[Slug(d)]) > existing[d]
NumberTaken(d) ==
    Inserts(d) /\ Preceded(d) /\ versions[Slug(d)][existing[d] + 1] # Candidate(d)

Commit(d) ==
    /\ stage[d] = "read"
    /\ ~NumberTaken(d)
    /\ origin' = [origin EXCEPT ![Slug(d)] = "bundled"]
    /\ versions' = IF Inserts(d) /\ ~Preceded(d) THEN [versions EXCEPT ![Slug(d)] = Append(@, Candidate(d))]
                                 ELSE versions
    /\ lock' = [lock EXCEPT ![Slug(d)] = "free"]
    /\ IF at[d] < Len(Slugs) THEN at' = [at EXCEPT ![d] = @ + 1] /\ Goto(d, "ready")
                             ELSE Goto(d, "done") /\ UNCHANGED at
    /\ UNCHANGED <<release, existing, current, preview, faults>>

\* UNIQUE (scenario_id, version_number), or any statement that fails: ROLLBACK.
Rollback(d) ==
    /\ \/ stage[d] = "read" /\ NumberTaken(d) /\ UNCHANGED faults
       \/ stage[d] \in {"locked", "read"} /\ faults < MaxFaults /\ faults' = faults + 1
    /\ lock' = [lock EXCEPT ![Slug(d)] = "free"]
    /\ Goto(d, "failed")
    /\ UNCHANGED <<release, origin, versions, at, existing, current, preview>>

-----------------------------------------------------------------------------

Reconcile(d) == Upsert(d) \/ UpsertRefused(d) \/ ReadLatest(d) \/ Commit(d) \/ Rollback(d)
Preview(d) == PreviewMissing(d) \/ PreviewFound(d) \/ PreviewLatest(d)

-----------------------------------------------------------------------------
(* Properties                                                              *)

Scenarios == {Existing} \cup {r[d].fixtures[s].scenario : r \in Releases, d \in Deployments, s \in SlugSet}
Row == [scenario : Scenarios, version : Nat, hash : Scenarios \X Nat]

TypeOK ==
    /\ release \in Releases
    /\ origin \in [SlugSet -> {"none", "bundled", "operator"}]
    /\ versions \in [SlugSet -> Seq(Row)]
    /\ lock \in [SlugSet -> Deployments \cup {"free"}]
    /\ at \in [Deployments -> DOMAIN Slugs]
    /\ stage \in [Deployments -> {"previewing", "previewFound", "ready", "locked", "read",
                                  "refused", "failed", "done"}]
    /\ existing \in [Deployments -> Nat]
    /\ current \in [Deployments -> Seq(Scenarios)]
    /\ faults \in 0..MaxFaults

\* Whoever reconciles concurrently, versions are append-only, one at a time; a new one
\* differs from the one before, so reconciling the same fixtures again writes nothing;
\* and a slug of another origin is never touched.
HistoryOnlyGrows ==
    [][\A s \in SlugSet : versions'[s] # versions[s] =>
          /\ Front(versions'[s]) = versions[s]
          /\ versions[s] # <<>> => Last(versions'[s]).scenario # Last(versions[s]).scenario
          /\ origin[s] # "operator"]_vars

\* A reconciliation that ends has published each of its fixtures: as the latest version,
\* or as an earlier one that a concurrent deployment has replaced.
Published(d, s) ==
    \E i \in DOMAIN versions[s] : versions[s][i].scenario = release[d].fixtures[s].scenario
DoneMeansPublished ==
    \A d \in Deployments : stage[d] = "done" => \A s \in SlugSet : Published(d, s)

\* For a slug that is free or bundled, the dry run predicts the very outcome, provided
\* nobody changed that slug in between.
PreviewExact ==
    [][\A d \in Deployments : LET p == preview[d][Slug(d)] IN
          stage[d] = "read" /\ stage'[d] \in {"ready", "done"} /\ versions[Slug(d)] = p.grounds
          => /\ Len(versions'[Slug(d)]) = p.proposed
             /\ p.status = "unchanged" <=> versions' = versions]_vars

\* verifyIntegrity accepts a row.
Verified(row, n) == Validates(row.scenario) /\ row.version = n /\ row.hash = <<row.scenario, n>>

\* Every version a deployment publishes can be read back, whatever number its file had,
\* and executed: no reference in it is missing from the maps the gateway builds.
PublishedIsExecutable ==
    \A s \in SlugSet : origin[s] = "bundled" =>
        \A i \in DOMAIN versions[s] :
            Verified(versions[s][i], i) /\ Executable(versions[s][i].scenario)

-----------------------------------------------------------------------------
(* The inductive invariant behind them.                                    *)

\* Whoever is in a transaction holds the row, and what it read of it is still true.
RowLocked ==
    \A d \in Deployments : stage[d] \in {"locked", "read"} =>
        /\ lock[Slug(d)] = d
        /\ origin[Slug(d)] # "operator"
        /\ stage[d] = "read" =>
              LET v == versions[Slug(d)] IN
              /\ existing[d] = Len(v)
              /\ current[d] = IF v = <<>> THEN None ELSE <<Last(v).scenario>>

\* The fixtures a reconciliation has passed are published.
PassedPublished ==
    \A d \in Deployments : stage[d] \in {"ready", "locked", "read"} =>
        \A i \in 1..(at[d] - 1) : Published(d, Slugs[i])

\* A slug without a row has no version, and the versions of a bundled one verify.
RowsVerified ==
    \A s \in SlugSet :
        /\ origin[s] = "none" => versions[s] = <<>>
        /\ origin[s] = "bundled" => \A i \in DOMAIN versions[s] : Verified(versions[s][i], i)

CatalogueInv == TypeOK /\ RowLocked /\ PassedPublished /\ DoneMeansPublished /\ RowsVerified

=============================================================================
