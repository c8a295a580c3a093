------------------------------ MODULE PruneRuns ------------------------------
(***************************************************************************)
(* PostgresRunStore.pruneExpired run by several operators at once: batches *)
(* of one READ COMMITTED transaction each, the audit rows, the DELETE that *)
(* locks row after row, and the trigger guard_run_cleanup.                 *)
(***************************************************************************)
EXTENDS Naturals, FiniteSets

CONSTANTS
    RunRows,    \* the rows of table runs
    Operators,  \* invocations of npm run prune:runs
    Limit,      \* rows per batch
    MaxFaults   \* bound: statements that fail

ASSUME PruneAssumption ==
    /\ IsFiniteSet(RunRows) /\ IsFiniteSet(Operators)
    /\ Limit \in Nat \ {0}
    /\ MaxFaults \in Nat

VARIABLES
    age,        \* how far each run is on its way to being deletable
    rows,       \* the runs in the table, as committed
    audit,      \* cleanup_audit, as committed
    stage,      \* where each operator's loop is
    cleanup,    \* the esure.cleanup_id of each operator's batch: its number
    batch,      \* runIds of the batch
    visited,    \* rows of the batch its DELETE has dealt with
    deleted,    \* rows its DELETE has removed, locked until the transaction ends
    total,      \* totalDeleted
    removed,    \* the runs each operator's transactions removed (ghost)
    faults      \* statements that failed

batchVars == <<cleanup, batch, visited, deleted>>
pruneVars == <<age, rows, audit, stage, batchVars, total, removed, faults>>

\* Not terminal; past RUN_RETENTION_MS and so hidden from reads; past 30 days too.
Ages == {"active", "hidden", "expired"}
Eligible == {r \in rows : age[r] = "expired"}

PruneInit ==
    /\ age \in [RunRows -> Ages]
    /\ rows = RunRows
    /\ audit = {}
    /\ stage = [o \in Operators |-> "selecting"]
    /\ cleanup = [o \in Operators |-> 1]
    /\ batch = [o \in Operators |-> {}]
    /\ visited = [o \in Operators |-> {}]
    /\ deleted = [o \in Operators |-> {}]
    /\ total = [o \in Operators |-> 0]
    /\ removed = [o \in Operators |-> {}]
    /\ faults = 0

\* A run completes and ages.
GrowsOlder(r) ==
    /\ age[r] # "expired"
    /\ age' = [age EXCEPT ![r] = IF @ = "active" THEN "hidden" ELSE "expired"]
    /\ UNCHANGED <<rows, audit, stage, batchVars, total, removed, faults>>

-----------------------------------------------------------------------------
(* One batch.                                                              *)

\* selectExpiredRunIds takes no lock; LIMIT cuts the batch off.
Select(o, ids) ==
    /\ stage[o] = "selecting"
    /\ Cardinality(ids) = Limit \/ ids = Eligible
    /\ batch' = [batch EXCEPT ![o] = ids]
    /\ visited' = [visited EXCEPT ![o] = {}]
    /\ deleted' = [deleted EXCEPT ![o] = {}]
    /\ stage' = [stage EXCEPT ![o] = IF ids = {} THEN "committing" ELSE "deleting"]
    /\ UNCHANGED <<age, rows, audit, cleanup, total, removed, faults>>

\* The audit rows of the transaction; they exist for every row the DELETE can reach.
Audits(o) == {[operator |-> o, cleanup |-> cleanup[o], run |-> r] : r \in batch[o]}

LockedBy(r) == {o \in Operators : r \in deleted[o]}

\* guard_run_cleanup lets the row go only if it is old enough and audited.
Guard(o, r) == age[r] = "expired" /\ \E a \in Audits(o) : a.run = r

\* The DELETE meets a row another transaction deleted and waits; when that one commits,
\* the row is gone and is skipped.
DeleteRow(o, r) ==
    /\ stage[o] = "deleting"
    /\ r \in batch[o] \ visited[o]
    /\ LockedBy(r) = {}
    /\ r \in rows => Guard(o, r)
    /\ visited' = [visited EXCEPT ![o] = @ \cup {r}]
    /\ deleted' = [deleted EXCEPT ![o] = @ \cup ({r} \cap rows)]
    /\ stage' = [stage EXCEPT ![o] = IF visited'[o] = batch[o] THEN "committing" ELSE @]
    /\ UNCHANGED <<age, rows, audit, cleanup, batch, total, removed, faults>>

\* Mutants: the audit insert is forgotten; the loop counts
\* the ids it selected.
Committing(o, audits, count) ==
    /\ stage[o] = "committing"
    /\ rows' = rows \ deleted[o]
    /\ audit' = audit \cup audits
    /\ total' = [total EXCEPT ![o] = @ + count]
    /\ removed' = [removed EXCEPT ![o] = @ \cup deleted[o]]
    /\ cleanup' = [cleanup EXCEPT ![o] = @ + 1]
    /\ stage' = [stage EXCEPT ![o] = IF Cardinality(deleted[o]) < Limit THEN "done" ELSE "selecting"]
    /\ batch' = [batch EXCEPT ![o] = {}]
    /\ visited' = [visited EXCEPT ![o] = {}]
    /\ deleted' = [deleted EXCEPT ![o] = {}]
    /\ UNCHANGED <<age, faults>>
CommitUnaudited(o) == Committing(o, {}, Cardinality(deleted[o]))
CommitCountingBatch(o) == Committing(o, Audits(o), Cardinality(batch[o]))

\* COMMIT; the loop ends when the batch deleted fewer rows than the limit.
Commit(o) ==
    /\ stage[o] = "committing"
    /\ rows' = rows \ deleted[o]
    /\ audit' = audit \cup Audits(o)
    /\ total' = [total EXCEPT ![o] = @ + Cardinality(deleted[o])]
    /\ removed' = [removed EXCEPT ![o] = @ \cup deleted[o]]
    /\ cleanup' = [cleanup EXCEPT ![o] = @ + 1]
    /\ stage' = [stage EXCEPT ![o] = IF Cardinality(deleted[o]) < Limit THEN "done" ELSE "selecting"]
    /\ batch' = [batch EXCEPT ![o] = {}]
    /\ visited' = [visited EXCEPT ![o] = {}]
    /\ deleted' = [deleted EXCEPT ![o] = {}]
    /\ UNCHANGED <<age, faults>>

\* Mutant: no ROLLBACK, so the transaction and its row locks stay.
AbandonOpen(o) ==
    /\ stage' = [stage EXCEPT ![o] = "failed"]
    /\ UNCHANGED <<age, rows, audit, batchVars, total, removed>>

\* ROLLBACK, and the error leaves the loop.
Abandon(o) ==
    /\ stage' = [stage EXCEPT ![o] = "failed"]
    /\ batch' = [batch EXCEPT ![o] = {}]
    /\ visited' = [visited EXCEPT ![o] = {}]
    /\ deleted' = [deleted EXCEPT ![o] = {}]
    /\ UNCHANGED <<age, rows, audit, cleanup, total, removed>>

StatementFails(o) ==
    /\ stage[o] \in {"selecting", "deleting", "committing"}
    /\ faults < MaxFaults
    /\ faults' = faults + 1
    /\ Abandon(o)

\* PostgreSQL ends a cycle of waiting transactions by failing one of them.
WaitsFor(o, p) == stage[o] = "deleting" /\ (batch[o] \ visited[o]) \cap deleted[p] # {}
DeadlockDetected(o) ==
    /\ \E p \in Operators \ {o} : WaitsFor(o, p) /\ WaitsFor(p, o)
    /\ Abandon(o)
    /\ UNCHANGED faults

-----------------------------------------------------------------------------

Prune(o) ==
    \/ \E ids \in {s \in SUBSET Eligible : Cardinality(s) <= Limit} : Select(o, ids)
    \/ \E r \in RunRows : DeleteRow(o, r)
    \/ Commit(o)
    \/ DeadlockDetected(o)

PruneNext ==
    \/ \E o \in Operators : Prune(o) \/ StatementFails(o)
    \/ \E r \in RunRows : GrowsOlder(r)

\* Statements are answered (statement_timeout); runs need not age.
Fairness == \A o \in Operators : WF_pruneVars(Prune(o))

PruneSpec == PruneInit /\ [][PruneNext]_pruneVars /\ Fairness

-----------------------------------------------------------------------------
(* Properties                                                              *)

PruneTypeOK ==
    /\ age \in [RunRows -> Ages]
    /\ rows \subseteq RunRows
    /\ audit \subseteq [operator : Operators, cleanup : Nat, run : RunRows]
    /\ stage \in [Operators -> {"selecting", "deleting", "committing", "done", "failed"}]
    /\ cleanup \in [Operators -> Nat]
    /\ {batch, visited, deleted, removed} \subseteq [Operators -> SUBSET RunRows]
    /\ \A o \in Operators : deleted[o] \subseteq visited[o] /\ visited[o] \subseteq batch[o]
    /\ total \in [Operators -> Nat]
    /\ faults \in 0..MaxFaults

\* Whatever batches fail and whoever prunes beside, no run disappears without an audit
\* row, and none that is still visible or younger than 30 days disappears at all.
DeletionsAudited ==
    \A r \in RunRows \ rows : age[r] = "expired" /\ \E a \in audit : a.run = r

\* Two operators never count the same run, and none counts a run that is still there: the
\* total each one prints is the number of runs its own transactions removed, no run was
\* removed by two of them, and all of these together are the runs that are gone.
TotalsAddUp ==
    /\ \A o \in Operators : total[o] = Cardinality(removed[o])
    /\ \A o, p \in Operators : o # p => removed[o] \cap removed[p] = {}
    /\ UNION {removed[o] : o \in Operators} = RunRows \ rows

\* The audit and the totals both account for every run that is gone.
DeletionsAccounted == DeletionsAudited /\ TotalsAddUp

\* Every prune ends, also when two of them lock each other's rows.
PrunesEnd == \A o \in Operators : <>(stage[o] \in {"done", "failed"})

=============================================================================
