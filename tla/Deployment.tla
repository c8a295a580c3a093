------------------------------- MODULE Deployment -----------------------------
(***************************************************************************)
(* Deployments of several releases against one database: db:migrate        *)
(* (runMigrations), the dry run and the run of db:reconcile, each of which *)
(* first asserts that the migrations are current and loads the bundled     *)
(* scenarios, and the backend's PersistenceCoordinator.                    *)
(*                                                                         *)
(* A migration file is its version and its content; a row of               *)
(* schema_migrations is determined by the file it stands for.              *)
(***************************************************************************)
EXTENDS Catalogue

CONSTANTS
    Applied,    \* the files applied before: version -> content
    Servers     \* the deployments that start a backend

ASSUME DeploymentAssumption ==
    \A r \in Releases, d \in Deployments :
        DOMAIN r[d].files \subseteq Nat /\ IsFiniteSet(DOMAIN r[d].files)

VARIABLES
    schema,     \* schema_migrations as committed: version -> content
    holder,     \* the transaction that holds the advisory lock
    phase,      \* the command each deployment is at
    todo,       \* versions of its files runMigrations has yet to look at
    written,    \* rows its transaction has written
    server      \* PersistenceCoordinator.state of its backend

migration == <<schema, holder, todo, written>>
deployment == <<vars, migration, phase, server>>

Files(d) == release[d].files
Lowest(S) == CHOOSE v \in S : \A w \in S : v <= w

DeploymentInit ==
    /\ Init
    /\ schema = Applied
    /\ holder = "free"
    /\ phase = [d \in Deployments |-> "deploying"]
    /\ todo = [d \in Deployments |-> {}]
    /\ written = [d \in Deployments |-> {}]
    /\ server = [d \in Deployments |-> "down"]

Enter(d, next) == phase' = [phase EXCEPT ![d] = next]

-----------------------------------------------------------------------------
(* runMigrations: one transaction under the advisory lock.                 *)

\* Mutant: no advisory lock.
MigrateUnlocked(d) ==
    /\ phase[d] = "deploying"
    /\ todo' = [todo EXCEPT ![d] = DOMAIN Files(d)]
    /\ Enter(d, "migrating")
    /\ UNCHANGED <<vars, schema, holder, written, server>>

Migrate(d) ==
    /\ phase[d] = "deploying"
    /\ holder = "free"
    /\ holder' = d
    /\ todo' = [todo EXCEPT ![d] = DOMAIN Files(d)]
    /\ Enter(d, "migrating")
    /\ UNCHANGED <<vars, schema, written, server>>

\* Mutant: an applied version is skipped without a look at its checksum.
MismatchIgnored(d, v) == FALSE
Mismatch(d, v) == v \in DOMAIN schema /\ schema[v] # Files(d)[v]

\* The SELECT of one file, and the SQL and the INSERT of a file that is not applied yet.
ApplyFile(d) ==
    LET v == Lowest(todo[d]) IN
    /\ phase[d] = "migrating" /\ todo[d] # {}
    /\ ~Mismatch(d, v)
    /\ written' = IF v \in DOMAIN schema THEN written ELSE [written EXCEPT ![d] = @ \cup {v}]
    /\ todo' = [todo EXCEPT ![d] = @ \ {v}]
    /\ UNCHANGED <<vars, schema, holder, phase, server>>

\* The primary key of schema_migrations.
Duplicate(d) == written[d] \cap DOMAIN schema # {}

CommitMigrations(d) ==
    /\ phase[d] = "migrating" /\ todo[d] = {}
    /\ ~Duplicate(d)
    /\ schema' = [v \in DOMAIN schema \cup written[d] |->
                     IF v \in DOMAIN schema THEN schema[v] ELSE Files(d)[v]]
    /\ holder' = "free"
    /\ written' = [written EXCEPT ![d] = {}]
    /\ Enter(d, "migrated")
    /\ UNCHANGED <<vars, todo, server>>

\* Mutant: the lock belongs to the session, which goes back to the pool.
RollbackMigrationsSession(d) ==
    /\ phase[d] = "migrating"
    /\ todo[d] # {} /\ Mismatch(d, Lowest(todo[d])) /\ Enter(d, "mismatched")
    /\ written' = [written EXCEPT ![d] = {}]
    /\ UNCHANGED <<vars, schema, holder, todo, server>>

\* "Migration ... checksum mismatch", or a statement that fails: ROLLBACK, and the lock
\* goes with the transaction.
RollbackMigrations(d) ==
    /\ phase[d] = "migrating"
    /\ \/ todo[d] # {} /\ Mismatch(d, Lowest(todo[d])) /\ Enter(d, "mismatched") /\ UNCHANGED faults
       \/ todo[d] = {} /\ Duplicate(d) /\ Enter(d, "duplicated") /\ UNCHANGED faults
       \/ faults < MaxFaults /\ faults' = faults + 1 /\ Enter(d, "broken")
    /\ holder' = "free"
    /\ written' = [written EXCEPT ![d] = {}]
    /\ UNCHANGED <<release, tables, at, stage, existing, current, preview, schema, todo, server>>

-----------------------------------------------------------------------------
(* db:reconcile, with --dry-run and without.                               *)

\* assertMigrationsCurrent: the rows are the release's files, no fewer and no more.
MigrationsCurrent(d) == schema = Files(d)

\* The registry: every bundled scenario validates.
Loads(d) == \A s \in SlugSet : Validates(release[d].fixtures[s].scenario)

\* The dry run comes after db:migrate, or without it when the operator believes nothing is
\* pending; the real run after the dry run.
Starts(d) == phase[d] \in {"unmigrated", "migrated"} \/ (phase[d] = "previewing" /\ stage[d] = "ready")

LeaveOutMigrate(d) ==
    /\ phase[d] = "deploying"
    /\ Enter(d, "unmigrated")
    /\ UNCHANGED <<vars, migration, server>>

StartReconcile(d) ==
    /\ Starts(d)
    /\ MigrationsCurrent(d) /\ Loads(d)
    /\ Enter(d, IF phase[d] = "previewing" THEN "reconciling" ELSE "previewing")
    /\ UNCHANGED <<vars, migration, server>>

StartRefused(d) ==
    /\ Starts(d)
    /\ ~MigrationsCurrent(d) \/ ~Loads(d)
    /\ Enter(d, "stopped")
    /\ UNCHANGED <<vars, migration, server>>

\* A read fails, or a statement that waits for a lock runs into its timeout.
StatementFails(d) ==
    /\ phase[d] \in {"deploying", "unmigrated", "migrated", "previewing"} \/ (phase[d] = "reconciling" /\ stage[d] = "ready")
    /\ faults < MaxFaults /\ faults' = faults + 1
    /\ Enter(d, IF phase[d] \in {"deploying", "unmigrated"} THEN "broken" ELSE "aborted")
    /\ UNCHANGED <<release, tables, at, stage, existing, current, preview, migration, server>>

PreviewStep(d) == phase[d] = "previewing" /\ Preview(d) /\ UNCHANGED <<migration, phase, server>>
ReconcileStep(d) == phase[d] = "reconciling" /\ Reconcile(d) /\ UNCHANGED <<migration, phase, server>>

-----------------------------------------------------------------------------
(* PersistenceCoordinator of a backend started after its db:migrate.       *)

Become(d, state) ==
    /\ server' = [server EXCEPT ![d] = state]
    /\ UNCHANGED <<vars, migration, phase>>

\* initialize() of onReady: listen() fails and the process ends, or it serves.
Initialize(d) ==
    /\ d \in Servers /\ server[d] = "down"
    /\ phase[d] \notin {"deploying", "migrating"}
    /\ Become(d, IF MigrationsCurrent(d) /\ Loads(d) THEN "ready" ELSE "exited")

\* check() of GET /ready, while the database answers or not.
Check(d) ==
    /\ server[d] \in {"ready", "unavailable"}
    /\ \E state \in {"ready", "unavailable"} : Become(d, state)

-----------------------------------------------------------------------------

Command(d) ==
    \/ Migrate(d) \/ ApplyFile(d) \/ CommitMigrations(d) \/ RollbackMigrations(d)
    \/ StartReconcile(d) \/ StartRefused(d) \/ PreviewStep(d) \/ ReconcileStep(d)

DeploymentNext ==
    \E d \in Deployments :
        Command(d) \/ LeaveOutMigrate(d) \/ StatementFails(d) \/ Initialize(d) \/ Check(d)

\* A command goes on as long as its statements are answered.
DeploymentSpec ==
    /\ DeploymentInit /\ [][DeploymentNext]_deployment
    /\ \A d \in Deployments : WF_deployment(Command(d))

-----------------------------------------------------------------------------
(* Properties                                                              *)

\* Whoever deploys beside it, a command fails only by its own statements, or because it
\* really disagrees: the locks of migrations and of scenario rows make the primary key and
\* the unique constraints superfluous.
LocksPreventConflicts ==
    \A d \in Deployments :
        /\ stage[d] = "failed" => faults > 0
        /\ phase[d] # "duplicated"

\* Whatever other releases migrate, and whatever fails, what db:migrate or an assertion of
\* db:reconcile or of the backend has confirmed stays: each of that release's files is
\* recorded, with its own content, and a release that was refused left nothing behind.
Confirmed(d) ==
    phase[d] \in {"migrated", "previewing", "reconciling"} \/ server[d] \in {"ready", "unavailable"}
Recorded(d, v) == v \in DOMAIN schema /\ schema[v] = Files(d)[v]
MigratedFilesApplied ==
    /\ \A d \in Deployments : Confirmed(d) =>
          \A v \in DOMAIN Files(d) : Recorded(d, v)
    /\ \A v \in DOMAIN schema \ DOMAIN Applied :
          \E d \in Deployments :
              /\ phase[d] \notin {"deploying", "unmigrated", "migrating", "mismatched", "broken"}
              /\ v \in DOMAIN Files(d) /\ Recorded(d, v)

\* Commands that wait for the advisory lock or for a scenario row always get it: every
\* deployment comes to an end.
DeploymentsEnd ==
    \A d \in Deployments :
        <>(phase[d] \in {"mismatched", "broken", "aborted", "stopped"} \/ stage[d] \in {"refused", "failed", "done"})

-----------------------------------------------------------------------------
(* The inductive invariant behind them.                                    *)

DeploymentTypeOK ==
    /\ holder \in Deployments \cup {"free"}
    /\ phase \in [Deployments -> {"deploying", "migrating", "mismatched", "duplicated", "broken", "migrated",
                                  "unmigrated", "previewing", "reconciling", "stopped", "aborted"}]
    /\ todo \in [Deployments -> SUBSET Nat]
    /\ written \in [Deployments -> SUBSET Nat]
    /\ server \in [Deployments -> {"down", "ready", "unavailable", "exited"}]

\* Whoever migrates holds the advisory lock; what it has looked at is recorded, or among
\* the rows it wrote, none of which has been recorded meanwhile.
MigrationLocked ==
    \A d \in Deployments :
        /\ phase[d] = "migrating" =>
              /\ holder = d
              /\ todo[d] \subseteq DOMAIN Files(d)
              /\ written[d] \subseteq DOMAIN Files(d) \ DOMAIN schema
              /\ \A v \in DOMAIN Files(d) \ todo[d] : v \in written[d] \/ Recorded(d, v)
        /\ phase[d] # "migrating" => written[d] = {}

\* Only a release whose scenarios all validate reconciles.
ReconcilesValid ==
    \A d \in Deployments :
        /\ phase[d] = "reconciling" => Loads(d)
        /\ stage[d] \in {"locked", "read"} => phase[d] = "reconciling"

DeploymentInv ==
    /\ CatalogueInv /\ DeploymentTypeOK
    /\ LocksPreventConflicts /\ MigratedFilesApplied
    /\ MigrationLocked /\ ReconcilesValid

=============================================================================
