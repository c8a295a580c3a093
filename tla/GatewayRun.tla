----------------------------- MODULE GatewayRun -----------------------------
(***************************************************************************)
(* StellarTestnetGateway.execute together with the funding pool its first  *)
(* required step runs: LedgerExecution carries out the plan, FundingPool   *)
(* is the operation of the item "fund". The signal of the pool is that of  *)
(* the run or of the step's own controller, whichever aborts first, and a  *)
(* pool whose step has timed out settles in the background.                *)
(***************************************************************************)
EXTENDS FundingPool

CONSTANTS
    Scenarios,      \* the scenarios the gateway may be asked to execute
    Rejections,     \* the codes, of transaction and operations, Horizon may answer
    MaxRetries,     \* config.maxRetries of withHorizonRetry
    MaxFaults       \* bound: requests Horizon does not answer properly

ASSUME BoundsAssumption == {MaxRetries, MaxFaults} \subseteq Nat

VARIABLES
    scenario, todo, racing, op, steps, assertions, promise, built, sent, ledger, faults,
    runAborted      \* options.signal.aborted

planVars == <<scenario, todo, racing, op, steps, assertions, promise, built, sent, ledger, faults, runAborted>>
runVars == <<vars, planVars>>

Execution == INSTANCE LedgerExecution WITH aborted <- runAborted

\* What validateReferences and the schema make sure of: step ids are unique and not
\* reserved, an assertion about a step names one, and an expected failure has a code.
ASSUME ScenariosAssumption ==
    \A s \in Scenarios :
        /\ {s.funds, s.initial} \subseteq BOOLEAN
        /\ s.steps \in Seq(ToSet(s.steps)) /\ IsInjective(s.steps)
        /\ ToSet(s.steps) \cap {"fund", "initial", "none"} = {}
        /\ s.assertions \in Seq(ToSet(s.assertions))
        /\ \A a \in ToSet(s.assertions) :
              /\ a.kind \in {"succeeded", "confirmed", "failedWith", "memo", "read"}
              /\ a.kind # "read" => a.id \in ToSet(s.steps)
              /\ a.kind = "failedWith" => a.code # Execution!NoCode

\* Stellar attempts the operations of a transaction, and so has codes for them, only
\* when the transaction itself was valid.
ASSUME RejectionsAssumption == \A code \in Rejections : code.ops # <<>> => code.tx = "tx_failed"

PoolRuns == op["fund"].stage # "off" /\ result = "pending"

RunInit == Init /\ Execution!Init

-----------------------------------------------------------------------------
(* A step of the pool, of the plan, or of both.                            *)

PoolAlone == PoolRuns /\ (\E w \in Workers : Friendbot(w) \/ Process(w)) /\ UNCHANGED planVars

\* Mutant: the required step resolves when the pool settles, whatever fundAll throws.
PoolSettlesUnread ==
    /\ PoolRuns
    /\ Settle
    /\ IF Execution!Live("fund") THEN Execution!FundingEnds("resolved") ELSE UNCHANGED planVars

\* fundAll settles: the required step goes on, unless its race is already lost.
PoolSettles ==
    /\ PoolRuns
    /\ Settle
    /\ IF Execution!Live("fund") THEN Execution!FundingEnds(result') ELSE UNCHANGED planVars

\* AbortSignal.any: every signal the pool listens to is aborted at most once.
SignalPool == IF PoolRuns /\ ~aborted THEN Abort ELSE UNCHANGED vars

RunAborts == Execution!RunAborts /\ SignalPool

\* Mutant: the timer rejects the step but does not abort the step's controller.
StepTimesOutQuietly == Execution!StepTimesOut /\ UNCHANGED vars

StepTimesOut == Execution!StepTimesOut /\ IF racing = "fund" THEN SignalPool ELSE UNCHANGED vars

PlanAlone == (Execution!Horizon \/ Execution!Loop \/ \E id \in Execution!Items : Execution!DelayEnds(id)) /\ UNCHANGED vars

RunNext == PoolAlone \/ PoolSettles \/ RunAborts \/ StepTimesOut \/ PlanAlone

\* Promise reactions run and timers fire. Neither Horizon nor Friendbot owes an answer.
RunFairness ==
    /\ \A w \in Workers : WF_runVars(PoolRuns /\ Process(w) /\ UNCHANGED planVars)
    /\ WF_runVars(PoolSettles)
    /\ WF_runVars((Execution!Loop /\ UNCHANGED vars) \/ StepTimesOut)

RunSpec == RunInit /\ [][RunNext]_runVars /\ RunFairness

-----------------------------------------------------------------------------
(* Properties: those of the parts, and of the whole.                       *)

LedgerFollowsScenario == Execution!LedgerFollowsScenario
ReportIsTrue == Execution!ReportIsTrue
Settles == Execution!Settles
ReadsAreAnswered == Execution!ReadsAreAnswered

\* The error of a failed run advises against a retry only when the ledger or Friendbot
\* has refused it for good, and then it does, unless the step or the run ran out of time.
\* A failure that brings no codes is called retryable without knowing: the ledger may
\* have rejected the operations of a step whose answer came too late.
RetryAdviceIsHonest ==
    /\ Execution!RetryAdviceIsHonest
    /\ \A s \in ToSet(steps) : s.id = "fund" /\ ~s.passed =>
          IF Execution!Retryable(s.code) THEN result = "refused" => aborted
          ELSE result = "refused" /\ funded # Names

\* The gateway keeps the contract RunService.execute relies on.
Promise == INSTANCE LedgerPromise WITH reports <- Execution!Reports
KeepsPromise == Promise!PromiseSpec

\* No transaction of a scenario that asks for funding is ever submitted while an account
\* is not funded, whether the pool failed, was aborted, or lost its race to the timer.
NothingBeforeFunding == scenario.funds /\ sent # {} => funded = Names

\* A run that is over leaves no pool behind that still asks Friendbot for accounts: once
\* the promise of execute() is settled, the pool settles too, without Friendbot's help.
NoPoolLeftBehind == (promise # "pending" /\ PoolRuns) ~> result # "pending"

\* The promise settles; a pool that is stopped, or outlives the promise, settles too.
EverythingSettles == Settles /\ StopSettles /\ NoPoolLeftBehind

=============================================================================
