----------------------------- MODULE RunExecution ----------------------------
(***************************************************************************)
(* One run of RunService.execute over PostgresRunStore, query by query:    *)
(* the status changes, the chain of progress updates, the run timeout, the *)
(* catch block, and the GET requests that poll the report meanwhile and    *)
(* share the store's version cache with the run.                           *)
(*                                                                         *)
(* The ledger is seen through the LedgerGateway interface: it reports step *)
(* and assertion results, then resolves with exactly those or rejects. A   *)
(* report is cut down to what the code computes with: the status, the pass *)
(* flags of the steps and assertions, and the summary.                     *)
(***************************************************************************)
EXTENDS Naturals, FiniteSets, SequencesExt

CONSTANTS
    Pollers,        \* concurrent GET /api/v1/runs/:runId requests
    MaxCallbacks,   \* bound: progress callbacks the ledger makes
    MaxPolls,       \* bound: GET requests per poller
    MaxFaults       \* bound: database queries that fail

ASSUME BoundsAssumption ==
    /\ {MaxCallbacks, MaxPolls, MaxFaults} \subseteq Nat
    /\ {"main", "link"} \cap Pollers = {}

VARIABLES
    row,        \* the row of table runs
    lastWriter, \* the client whose UPDATE produced the row (ghost)
    cache,      \* #versions.get(id) ?? 0
    op,         \* the store call each client is in
    faults,     \* failed queries so far
    polls,      \* GET requests each poller has made
    pc,         \* where execute() is
    awaiting,   \* how many links the promise execute() awaits consists of
    aborted,    \* controller.signal.aborted
    cause,      \* what the catch block was entered with
    outcome,    \* the outcome the finally block counts
    ledger,     \* the promise returned by ledger.execute
    emitted,    \* the results reported so far, one link of progressUpdates each
    applied,    \* links of progressUpdates that have completed
    brokenAt,   \* the link that rejected, 0 if none did
    up          \* the process is alive

storeVars == <<row, lastWriter, cache, op, faults>>
chainVars == <<emitted, applied, brokenAt>>
mainVars == <<pc, awaiting, aborted, cause, outcome>>
vars == <<storeVars, polls, mainVars, ledger, chainVars, up>>

Clients == {"main", "link"} \cup Pollers
Results == [kind : {"step", "assertion"}, ok : BOOLEAN]
Terminal(report) == report.status \in {"passed", "failed"}

\* summarize(steps, assertions)
Summarize(steps, assertions) ==
    LET Count(s, b) == Cardinality({i \in DOMAIN s : s[i] = b})
    IN  [stepsPassed |-> Count(steps, TRUE), stepsFailed |-> Count(steps, FALSE),
         assertionsPassed |-> Count(assertions, TRUE), assertionsFailed |-> Count(assertions, FALSE)]

\* The pass flags of the results of one kind, in the order they were reported.
Positions(results, kind) == {i \in DOMAIN results : results[i].kind = kind}
Nth(S, n) == CHOOSE i \in S : Cardinality({j \in S : j <= i}) = n
Flags(results, kind) ==
    [n \in 1..Cardinality(Positions(results, kind)) |-> results[Nth(Positions(results, kind), n)].ok]

\* The report start() creates; the version column has DEFAULT 0.
Created == [status |-> "requested", steps |-> <<>>, assertions |-> <<>>,
            summary |-> Summarize(<<>>, <<>>), version |-> 0]

NoPatch == [f \in {} |-> 0]
Idle == [stage |-> "idle", expected |-> 0, patch |-> NoPatch, got |-> Created]

Init ==
    /\ row = Created
    /\ lastWriter = "main"
    /\ cache = 0
    /\ op = [c \in Clients |-> Idle]
    /\ faults = 0
    /\ polls = [p \in Pollers |-> 0]
    /\ pc = "queued"
    /\ awaiting = 0
    /\ aborted = FALSE
    /\ cause = "none"
    /\ outcome = "none"
    /\ ledger = "off"
    /\ emitted = <<>>
    /\ applied = 0
    /\ brokenAt = 0
    /\ up = TRUE

-----------------------------------------------------------------------------
(* PostgresRunStore: a call is a message to the database and its answer.   *)

\* get(id): SELECT.
Get(c) == op' = [op EXCEPT ![c] = [Idle EXCEPT !.stage = "select"]]

\* update(id, patch): the expected version is what the cache says on entry (seen
\* is that value), and the SELECT of the update's own get() goes out.
Update(c, patch, seen) ==
    op' = [op EXCEPT ![c] = [Idle EXCEPT !.stage = "selectForUpdate", !.expected = seen, !.patch = patch]]

Return(c) == op' = [op EXCEPT ![c] = Idle]

Answered(c, stage) == up /\ op[c].stage = stage
Rejected(c) == up /\ op[c].stage \in {"error", "conflict"}

\* The database executes the SELECT; the answer is on its way with this row.
DbSelect(c) ==
    /\ \/ /\ op[c].stage = "select"
          /\ op' = [op EXCEPT ![c].stage = "selected", ![c].got = row]
       \/ /\ op[c].stage = "selectForUpdate"
          /\ op' = [op EXCEPT ![c].stage = "selectedForUpdate", ![c].got = row]
    /\ UNCHANGED <<row, lastWriter, cache, faults, polls, mainVars, ledger, chainVars, up>>

\* The answer of the update's own get() refreshes the cache; the UPDATE goes out.
UpdateReads(c) ==
    /\ Answered(c, "selectedForUpdate")
    /\ cache' = op[c].got.version
    /\ op' = [op EXCEPT ![c].stage = "write"]
    /\ UNCHANGED <<row, lastWriter, faults, polls, mainVars, ledger, chainVars, up>>

\* {...current, ...update} with version + 1.
Written(c) ==
    [f \in DOMAIN row |->
        IF f = "version" THEN row.version + 1
        ELSE IF f \in DOMAIN op[c].patch THEN op[c].patch[f]
        ELSE op[c].got[f]]

\* Mutant: the WHERE clause of the UPDATE does not ask for the expected version.
DbUpdateUnchecked(c) ==
    /\ op[c].stage = "write"
    /\ row' = Written(c)
    /\ lastWriter' = c
    /\ op' = [op EXCEPT ![c].stage = "written"]
    /\ UNCHANGED <<cache, faults, polls, mainVars, ledger, chainVars, up>>

\* The database executes UPDATE ... WHERE version = expected.
DbUpdate(c) ==
    /\ op[c].stage = "write"
    /\ IF row.version = op[c].expected
       THEN /\ row' = Written(c)
            /\ lastWriter' = c
            /\ op' = [op EXCEPT ![c].stage = "written"]
       ELSE /\ op' = [op EXCEPT ![c].stage = "conflict"]
            /\ UNCHANGED <<row, lastWriter>>
    /\ UNCHANGED <<cache, faults, polls, mainVars, ledger, chainVars, up>>

\* A query fails (connection lost, statement or query timeout). An UPDATE that the
\* client gave up on may have been committed by the server all the same.
DbFails(c) ==
    /\ op[c].stage \in {"select", "selectForUpdate", "write"}
    /\ faults < MaxFaults
    /\ faults' = faults + 1
    /\ op' = [op EXCEPT ![c].stage = "error"]
    /\ \/ UNCHANGED <<row, lastWriter>>
       \/ /\ op[c].stage = "write"
          /\ row.version = op[c].expected
          /\ row' = Written(c)
          /\ lastWriter' = c
    /\ UNCHANGED <<cache, polls, mainVars, ledger, chainVars, up>>

-----------------------------------------------------------------------------
(* GET /api/v1/runs/:runId calls get() on the same store.                  *)

PollSends(p) ==
    /\ up
    /\ op[p].stage = "idle"
    /\ polls[p] < MaxPolls
    /\ polls' = [polls EXCEPT ![p] = @ + 1]
    /\ Get(p)
    /\ UNCHANGED <<row, lastWriter, cache, faults, mainVars, ledger, chainVars, up>>

PollReturns(p) ==
    /\ Answered(p, "selected") \/ Rejected(p)
    /\ cache' = IF op[p].stage = "selected" THEN op[p].got.version ELSE cache
    /\ Return(p)
    /\ UNCHANGED <<row, lastWriter, faults, polls, mainVars, ledger, chainVars, up>>

-----------------------------------------------------------------------------
(* The ledger, and the links onStep and onAssertion append to the chain.   *)

\* A callback, which may come after the run has timed out. A link appended to a chain
\* that has already rejected rejects too, and nobody handles it: Node ends the process
\* on an unhandled rejection.
LedgerReports(result) ==
    /\ up
    /\ ledger = "executing"
    /\ Len(emitted) < MaxCallbacks
    /\ emitted' = Append(emitted, result)
    /\ up' = (brokenAt = 0)
    /\ UNCHANGED <<storeVars, polls, mainVars, ledger, applied, brokenAt>>

\* A link is a get(), and unless the report is terminal an update() with the new
\* result appended and the summary of what was read.
LinkBegins ==
    /\ up
    /\ op["link"].stage = "idle"
    /\ brokenAt = 0
    /\ applied < Len(emitted)
    /\ Get("link")
    /\ UNCHANGED <<row, lastWriter, cache, faults, polls, mainVars, ledger, chainVars, up>>

\* Mutant: the new result replaces the earlier ones.
LinkPatchReplacing(current, result) ==
    IF result.kind = "step"
    THEN [steps |-> <<result.ok>>, summary |-> Summarize(<<result.ok>>, current.assertions)]
    ELSE [assertions |-> <<result.ok>>, summary |-> Summarize(current.steps, <<result.ok>>)]

LinkPatch(current, result) ==
    LET steps == IF result.kind = "step" THEN Append(current.steps, result.ok) ELSE current.steps
        assertions == IF result.kind = "assertion" THEN Append(current.assertions, result.ok)
                                                   ELSE current.assertions
        summary == Summarize(steps, assertions)
    IN  IF result.kind = "step" THEN [steps |-> steps, summary |-> summary]
                                ELSE [assertions |-> assertions, summary |-> summary]

\* Mutant: a late link updates a terminal report too.
LinkReadsAlways ==
    LET current == op["link"].got IN
    /\ Answered("link", "selected")
    /\ cache' = current.version
    /\ Update("link", LinkPatch(current, emitted[applied + 1]), cache')
    /\ UNCHANGED <<row, lastWriter, faults, polls, mainVars, ledger, chainVars, up>>

LinkReads ==
    LET current == op["link"].got IN
    /\ Answered("link", "selected")
    /\ cache' = current.version
    /\ IF Terminal(current)
       THEN Return("link") /\ applied' = applied + 1
       ELSE Update("link", LinkPatch(current, emitted[applied + 1]), cache') /\ UNCHANGED applied
    /\ UNCHANGED <<row, lastWriter, faults, polls, mainVars, ledger, emitted, brokenAt, up>>

LinkWrites ==
    /\ Answered("link", "written")
    /\ cache' = op["link"].expected + 1
    /\ Return("link")
    /\ applied' = applied + 1
    /\ UNCHANGED <<row, lastWriter, faults, polls, mainVars, ledger, emitted, brokenAt, up>>

\* The last promise of the chain rejects. It is handled only if execute() is awaiting
\* that very promise at that moment.
LinkRejects ==
    /\ Rejected("link")
    /\ Return("link")
    /\ brokenAt' = applied + 1
    /\ up' = (pc \in {"flushing", "recovering"} /\ awaiting = Len(emitted))
    /\ UNCHANGED <<row, lastWriter, cache, faults, polls, mainVars, ledger, emitted, applied>>

-----------------------------------------------------------------------------
(* RunService.execute.                                                     *)

\* The awaited prefix of the chain has resolved, or has rejected.
ChainResolved == applied >= awaiting
ChainRejected == brokenAt > 0 /\ brokenAt <= awaiting

\* The catch block starts by awaiting the chain as it is then.
Catch(reason) ==
    /\ pc' = "recovering"
    /\ awaiting' = Len(emitted)
    /\ cause' = reason

Finally(result) ==
    /\ pc' = "ended"
    /\ outcome' = result
    /\ aborted' = TRUE

Validate ==
    /\ up
    /\ pc = "queued"
    /\ Update("main", [status |-> "validating"], cache)
    /\ pc' = "validating"
    /\ UNCHANGED <<row, lastWriter, cache, faults, polls, awaiting, aborted, cause, outcome, ledger, chainVars, up>>

\* if (this.#draining) controller.abort(), then update(running).
Start ==
    /\ Answered("main", "written")
    /\ pc = "validating"
    /\ cache' = op["main"].expected + 1
    /\ \E draining \in BOOLEAN : aborted' = draining
    /\ Update("main", [status |-> "running"], cache')
    /\ pc' = "starting"
    /\ UNCHANGED <<row, lastWriter, faults, polls, awaiting, cause, outcome, ledger, chainVars, up>>

Launch ==
    /\ Answered("main", "written")
    /\ pc = "starting"
    /\ cache' = op["main"].expected + 1
    /\ Return("main")
    /\ ledger' = "executing"
    /\ pc' = "running"
    /\ UNCHANGED <<row, lastWriter, faults, polls, awaiting, aborted, cause, outcome, chainVars, up>>

\* Mutant: the timer only aborts the signal, which the ledger may ignore.
RunTimesOutAbortOnly ==
    /\ up
    /\ pc = "running"
    /\ ~aborted
    /\ aborted' = TRUE
    /\ UNCHANGED <<storeVars, polls, pc, awaiting, cause, outcome, ledger, chainVars, up>>

\* The timer of withTimeout rejects the race, then aborts the signal.
RunTimesOut ==
    /\ up
    /\ pc = "running"
    /\ aborted' = TRUE
    /\ Catch("RUN_TIMEOUT")
    /\ UNCHANGED <<storeVars, polls, outcome, ledger, chainVars, up>>

\* Settling the ledger's promise wins the race unless the timer fired before.
LedgerResolves ==
    /\ up
    /\ ledger = "executing"
    /\ ledger' = "resolved"
    /\ IF pc = "running" THEN pc' = "flushing" /\ awaiting' = Len(emitted)
                         ELSE UNCHANGED <<pc, awaiting>>
    /\ UNCHANGED <<storeVars, polls, aborted, cause, outcome, chainVars, up>>

LedgerRejects ==
    /\ up
    /\ ledger = "executing"
    /\ ledger' = "rejected"
    /\ IF pc = "running" THEN Catch("LEDGER") ELSE UNCHANGED <<pc, awaiting, cause>>
    /\ UNCHANGED <<storeVars, polls, aborted, outcome, chainVars, up>>

AllPassed(results) == \A i \in DOMAIN results : results[i].ok
FinalPatch(steps, assertions, status) ==
    [status |-> status, steps |-> steps, assertions |-> assertions,
     summary |-> Summarize(steps, assertions)]

\* Mutant: the status is decided by the steps alone.
FinaliseBySteps ==
    LET steps == Flags(emitted, "step") IN
    /\ up
    /\ pc = "flushing"
    /\ ChainResolved
    /\ Update("main", FinalPatch(steps, Flags(emitted, "assertion"),
                                 IF \A i \in DOMAIN steps : steps[i] THEN "passed" ELSE "failed"), cache)
    /\ pc' = "finalising"
    /\ UNCHANGED <<row, lastWriter, cache, faults, polls, awaiting, aborted, cause, outcome, ledger, chainVars, up>>

\* The result of the ledger, with the status its summary earns.
Finalise ==
    /\ up
    /\ pc = "flushing"
    /\ ChainResolved
    /\ Update("main", FinalPatch(Flags(emitted, "step"), Flags(emitted, "assertion"),
                                 IF AllPassed(emitted) THEN "passed" ELSE "failed"), cache)
    /\ pc' = "finalising"
    /\ UNCHANGED <<row, lastWriter, cache, faults, polls, awaiting, aborted, cause, outcome, ledger, chainVars, up>>

Succeed ==
    /\ Answered("main", "written")
    /\ pc = "finalising"
    /\ cache' = op["main"].expected + 1
    /\ Return("main")
    /\ Finally(IF AllPassed(emitted) THEN "passed" ELSE "failed")
    /\ UNCHANGED <<row, lastWriter, faults, polls, awaiting, cause, ledger, chainVars, up>>

\* A store call of the try block threw, or the awaited chain rejected.
TryFails ==
    /\ up
    /\ \/ Rejected("main") /\ pc \in {"validating", "starting", "finalising"}
       \/ pc = "flushing" /\ ChainRejected
    /\ Return("main")
    /\ Catch("STORE")
    /\ UNCHANGED <<row, lastWriter, cache, faults, polls, aborted, outcome, ledger, chainVars, up>>

Reread ==
    /\ up
    /\ pc = "recovering"
    /\ ChainResolved
    /\ Get("main")
    /\ pc' = "rereading"
    /\ UNCHANGED <<row, lastWriter, cache, faults, polls, awaiting, aborted, cause, outcome, ledger, chainVars, up>>

Report ==
    /\ Answered("main", "selected")
    /\ pc = "rereading"
    /\ cache' = op["main"].got.version
    /\ Update("main", FinalPatch(op["main"].got.steps, op["main"].got.assertions, "failed"), cache')
    /\ pc' = "reporting"
    /\ UNCHANGED <<row, lastWriter, faults, polls, awaiting, aborted, cause, outcome, ledger, chainVars, up>>

Reported ==
    /\ Answered("main", "written")
    /\ pc = "reporting"
    /\ cache' = op["main"].expected + 1
    /\ Return("main")
    /\ Finally("failed")
    /\ UNCHANGED <<row, lastWriter, faults, polls, awaiting, cause, ledger, chainVars, up>>

\* A throw inside the catch block: only the finally block still runs.
CatchFails ==
    /\ up
    /\ \/ pc = "recovering" /\ ChainRejected
       \/ Rejected("main") /\ pc \in {"rereading", "reporting"}
    /\ Return("main")
    /\ Finally("failed")
    /\ UNCHANGED <<row, lastWriter, cache, faults, polls, awaiting, cause, ledger, chainVars, up>>

-----------------------------------------------------------------------------

Database == \E c \in Clients : DbSelect(c) \/ DbUpdate(c)
Link == LinkBegins \/ LinkReads \/ LinkWrites \/ LinkRejects
Main ==
    \/ Validate \/ Start \/ Launch
    \/ Finalise \/ Succeed \/ TryFails
    \/ Reread \/ Report \/ Reported \/ CatchFails
Ledger ==
    \/ \E result \in Results : LedgerReports(result)
    \/ LedgerResolves
    \/ LedgerRejects

Next ==
    \/ Database
    \/ \E c \in Clients : DbFails(c) \/ UpdateReads(c)
    \/ \E p \in Pollers : PollSends(p) \/ PollReturns(p)
    \/ Link
    \/ Main
    \/ Ledger
    \/ RunTimesOut

\* Queries are answered (statement_timeout), promise reactions run, and the timer of
\* withTimeout ends the wait for the ledger. The ledger and the pollers owe nothing. That
\* one of these steps is taken while any is possible is enough: each part makes finitely many.
System ==
    \/ Database
    \/ \E c \in Clients : UpdateReads(c)
    \/ Link
    \/ Main
    \/ RunTimesOut

Fairness == WF_vars(System)

Spec == Init /\ [][Next]_vars /\ Fairness

-----------------------------------------------------------------------------
(* Properties                                                              *)

Flagged == Seq(BOOLEAN)
Summaries == [stepsPassed : Nat, stepsFailed : Nat, assertionsPassed : Nat, assertionsFailed : Nat]
Statuses == {"requested", "validating", "running", "passed", "failed"}
Rows == [status : Statuses, steps : Flagged, assertions : Flagged, summary : Summaries, version : Nat]
StatusPatches == [status : Statuses]
StepPatches == [steps : Flagged, summary : Summaries]
AssertionPatches == [assertions : Flagged, summary : Summaries]
FinalPatches == [status : Statuses, steps : Flagged, assertions : Flagged, summary : Summaries]
Patches == {NoPatch} \cup StatusPatches \cup StepPatches \cup AssertionPatches \cup FinalPatches
Calls == [stage : {"idle", "select", "selected", "selectForUpdate", "selectedForUpdate",
                   "write", "written", "conflict", "error"},
          expected : Nat, patch : Patches, got : Rows]

TypeOK ==
    /\ row \in Rows
    /\ lastWriter \in Clients
    /\ cache \in Nat
    /\ op \in [Clients -> Calls]
    /\ faults \in 0..MaxFaults
    /\ polls \in [Pollers -> 0..MaxPolls]
    /\ pc \in {"queued", "validating", "starting", "running", "flushing", "finalising",
               "recovering", "rereading", "reporting", "ended"}
    /\ ledger \in {"off", "executing", "resolved", "rejected"}
    /\ emitted \in Seq(Results)
    /\ applied \in 0..Len(emitted)
    /\ awaiting \in 0..Len(emitted)
    /\ brokenAt \in {0, applied + 1}
    /\ aborted \in BOOLEAN /\ up \in BOOLEAN
    /\ cause \in {"none", "STORE", "LEDGER", "RUN_TIMEOUT"}
    /\ outcome \in {"none", "passed", "failed"}

\* No interleaving of progress links, final update, catch block and polls loses or
\* reorders evidence: the row always holds exactly a prefix of what the ledger
\* reported, and at least every result whose link has completed unless the run was
\* already over when the link ran. Although links patch single fields of a report they
\* read earlier, the summary matches the steps and assertions stored beside it.
NoEvidenceLost ==
    \E n \in 0..Len(emitted) :
        /\ row.steps = Flags(SubSeq(emitted, 1, n), "step")
        /\ row.assertions = Flags(SubSeq(emitted, 1, n), "assertion")
        /\ n >= applied \/ Terminal(row)
        /\ row.summary = Summarize(row.steps, row.assertions)

\* A stored "passed" was earned: the ledger resolved, nothing failed, and the row
\* carries every result; and a run counted as passed is stored as passed.
PassedIsEarned ==
    /\ row.status = "passed" =>
          /\ ledger = "resolved" /\ AllPassed(emitted)
          /\ Len(row.steps) + Len(row.assertions) = Len(emitted)
    /\ outcome = "passed" => row.status = "passed"

\* Optimistic concurrency does what it is for: every UPDATE that commits replaces
\* exactly the version its own SELECT returned, so it never overwrites unseen data.
WritesReplaceWhatTheyRead ==
    [][row' # row => \E c \in Clients :
            /\ op[c].stage = "write"
            /\ op[c].got = row
            /\ row'.version = row.version + 1]_vars

\* A reader that polls never sees evidence disappear or a status go backwards, and late
\* links, polls and conflicts never touch a terminal report. The one write that does is
\* the catch block's, after a query failed, and it changes no more than the status.
Rank(s) == CASE s = "requested" -> 0 [] s = "validating" -> 1 [] s = "running" -> 2 [] OTHER -> 3
ReportsOnlyGrow ==
    [][/\ IsPrefix(row.steps, row'.steps)
       /\ IsPrefix(row.assertions, row'.assertions)
       /\ Rank(row.status) <= Rank(row'.status)
       /\ Terminal(row) /\ row' # row =>
             /\ pc = "reporting" /\ cause = "STORE" /\ faults > 0
             /\ row' = [row EXCEPT !.status = "failed", !.version = @ + 1]]_vars

\* execute() ends and releases its capacity, whatever fails, unless the process died.
ExecuteEnds == <>(pc = "ended" \/ ~up)

\* Nobody polls, no query has failed, and the ledger has reported nothing since
\* execute() stopped waiting for it.
Late == pc # "running" /\ Len(emitted) > awaiting
Undisturbed == faults = 0 /\ ~Late /\ \A p \in Pollers : polls[p] = 0

\* Left alone, every run reaches a terminal report, whatever the ledger does.
EventuallyTerminal == <>(Terminal(row) \/ ~Undisturbed)

\* Both: the capacity comes back whatever fails, and a run nobody disturbs gets its report.
EndsAndReports == ExecuteEnds /\ EventuallyTerminal

\* No rejection of a progress link goes unhandled, which would end the process.
NoUnhandledRejection == up

\* The store rejects a write only when another writer changed the report.
ConflictMeansOtherWriter ==
    \A c \in {"main", "link"} : op[c].stage = "conflict" => lastWriter # c

=============================================================================
