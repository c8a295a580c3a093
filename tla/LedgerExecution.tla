--------------------------- MODULE LedgerExecution ---------------------------
(***************************************************************************)
(* StellarTestnetGateway.execute: the plan of a scenario carried out one   *)
(* item at a time against Horizon, each operation raced against the step   *)
(* timeout, with retries inside it, and a run signal that only the start   *)
(* of an operation looks at. An operation that loses its race is not       *)
(* stopped: it goes on in the background.                                  *)
(*                                                                         *)
(* Horizon and the ledger behind it are external. A transaction is a pair  *)
(* of a step and a build number; the ledger gives it one verdict, however  *)
(* often it is submitted. Funding is one operation here; GatewayRun composes *)
(* it with FundingPool.                                                    *)
(***************************************************************************)
EXTENDS ErrorInterpreter, Naturals, FiniteSets, SequencesExt

CONSTANTS
    Scenarios,      \* the scenarios the gateway may be asked to execute
    Rejections,     \* the codes, of transaction and operations, Horizon may answer
    MaxRetries,     \* config.maxRetries of withHorizonRetry
    MaxFaults       \* bound: requests Horizon does not answer properly

VARIABLES
    scenario,   \* the scenario being executed
    todo,       \* what is left of its plan
    racing,     \* the item whose operation is raced against the step timeout
    op,         \* the operation of each item, also after it lost its race
    steps,      \* the steps recorded, with their outcomes
    assertions, \* the assertions recorded
    promise,    \* the promise execute() returned
    aborted,    \* options.signal.aborted
    built,      \* how many transactions each step has built and signed
    sent,       \* transactions submitted at least once
    ledger,     \* the ledger's verdicts on them
    faults      \* requests that failed so far

recordVars == <<steps, assertions>>
networkVars == <<built, sent, ledger>>
vars == <<scenario, todo, racing, op, recordVars, promise, aborted, networkVars, faults>>

\* What becomes of a transaction: extractStellarResultCodes, or the absence of codes.
Success == [tx |-> "tx_success", ops |-> <<>>]
NoCode == [tx |-> "none", ops |-> <<>>]
\* ... or Friendbot's own refusal to fund an account.
Refused == [tx |-> "refused", ops |-> <<>>]

\* Mutant: a failure without codes is past retrying.
RetryableByCode(code) == isStellarErrorRetryable(code)

\* The advice of an error: that of its codes; without any, retryable.
Retryable(code) == code = NoCode \/ isStellarErrorRetryable(code)

\* What a plan consists of: required step, initial balance, step, assertions by what
\* they look at (a recorded outcome, the memo of a transaction, the ledger).
Required == [kind |-> "required", id |-> "fund", code |-> NoCode]
Balance == [kind |-> "balance", id |-> "initial", code |-> NoCode]
Step(id) == [kind |-> "step", id |-> id, code |-> NoCode]

Plan(s) ==
    (IF s.funds THEN <<Required>> ELSE <<>>)
    \o (IF s.initial THEN <<Balance>> ELSE <<>>)
    \o [i \in DOMAIN s.steps |-> Step(s.steps[i])]
    \o s.assertions

Items == {"fund", "initial"} \cup ToSet(scenario.steps)
Off == [stage |-> "off", asleep |-> FALSE, retries |-> 0, code |-> NoCode]
Live(id) == op[id].stage \in {"fund", "read", "load", "bounds", "submit"}

Init ==
    /\ scenario \in Scenarios
    /\ todo = Plan(scenario)
    /\ racing = "none"
    /\ op = [id \in Items |-> Off]
    /\ steps = <<>>
    /\ assertions = <<>>
    /\ promise = "pending"
    /\ aborted = FALSE
    /\ built = [id \in Items |-> 0]
    /\ sent = {}
    /\ ledger = {}
    /\ faults = 0

-----------------------------------------------------------------------------
(* withHorizonRetry and submit: loadAccount, fetchTimebounds, build and    *)
(* sign, submitTransaction, each request retried on its own.               *)

Tx(id) == [step |-> id, build |-> built[id]]
Verdict(tx) == {v \in ledger : v.tx = tx}

Goto(id, stage) == op' = [op EXCEPT ![id] = [Off EXCEPT !.stage = stage]]
FailWith(id, code) == op' = [op EXCEPT ![id] = [Off EXCEPT !.stage = "failed", !.code = code]]
Awake(id, stage) == op[id].stage = stage /\ ~op[id].asleep

AccountLoaded(id) ==
    /\ Awake(id, "load")
    /\ Goto(id, "bounds")
    /\ UNCHANGED <<scenario, todo, racing, recordVars, promise, aborted, networkVars, faults>>

\* The transaction is built once; the retries of its submission resend the same one.
TimeboundsFetched(id) ==
    /\ Awake(id, "bounds")
    /\ Goto(id, "submit")
    /\ built' = [built EXCEPT ![id] = @ + 1]
    /\ sent' = sent \cup {[step |-> id, build |-> built'[id]]}
    /\ UNCHANGED <<scenario, todo, racing, recordVars, promise, aborted, ledger, faults>>

\* The ledger settles a transaction it has seen, whether or not anyone still waits.
LedgerSettles(tx, result) ==
    /\ Verdict(tx) = {}
    /\ ledger' = ledger \cup {[tx |-> tx, result |-> result]}
    /\ UNCHANGED <<scenario, todo, racing, op, recordVars, promise, aborted, built, sent, faults>>

\* Mutant: an answer of Horizon counts as success whatever it says.
SubmitAnsweredUnread(id) ==
    /\ Awake(id, "submit")
    /\ Verdict(Tx(id)) # {}
    /\ Goto(id, "done")
    /\ UNCHANGED <<scenario, todo, racing, recordVars, promise, aborted, networkVars, faults>>

SubmitAnswered(id) ==
    /\ Awake(id, "submit")
    /\ \E v \in Verdict(Tx(id)) :
          IF v.result = Success THEN Goto(id, "done") ELSE FailWith(id, v.result)
    /\ UNCHANGED <<scenario, todo, racing, recordVars, promise, aborted, networkVars, faults>>

\* A single read: the balance before the first step, or a 404 that counts as "0".
BalanceRead(id) ==
    /\ Awake(id, "read")
    /\ Goto(id, "done")
    /\ UNCHANGED <<scenario, todo, racing, recordVars, promise, aborted, networkVars, faults>>

\* Mutant: the retry starts over, so submission builds anew.
RequestFailsRebuilding(id, retryable) ==
    /\ \E stage \in {"load", "bounds", "submit"} : Awake(id, stage)
    /\ faults < MaxFaults
    /\ faults' = faults + 1
    /\ IF retryable THEN Goto(id, "load") ELSE FailWith(id, NoCode)
    /\ UNCHANGED <<scenario, todo, racing, recordVars, promise, aborted, networkVars>>

\* 429, 503 and client-side timeouts are retried after a delay no signal interrupts.
RequestFails(id, retryable) ==
    /\ \E stage \in {"read", "load", "bounds", "submit"} : Awake(id, stage)
    /\ faults < MaxFaults
    /\ faults' = faults + 1
    /\ IF retryable /\ op[id].retries < MaxRetries
       THEN op' = [op EXCEPT ![id].asleep = TRUE, ![id].retries = @ + 1]
       ELSE FailWith(id, NoCode)
    /\ UNCHANGED <<scenario, todo, racing, recordVars, promise, aborted, networkVars>>

DelayEnds(id) ==
    /\ op[id].asleep
    /\ op' = [op EXCEPT ![id].asleep = FALSE]
    /\ UNCHANGED <<scenario, todo, racing, recordVars, promise, aborted, networkVars, faults>>

\* What fundAll returned or threw (see GatewayRun).
FundingEnds(outcome) ==
    /\ Live("fund")
    /\ IF outcome = "resolved" THEN Goto("fund", "done")
       ELSE FailWith("fund", IF outcome = "refused" THEN Refused ELSE NoCode)
    /\ UNCHANGED <<scenario, todo, racing, recordVars, promise, aborted, networkVars, faults>>

-----------------------------------------------------------------------------
(* execute: the loop over the plan.                                        *)

Idle == promise = "pending" /\ racing = "none" /\ todo # <<>>

\* executeBounded starts the operation unless the run signal is already aborted.
FirstStage(item) == CASE item.kind = "required" -> "fund"
                      [] item.kind = "balance" -> "read"
                      [] item.kind = "step" -> "load"
Begin ==
    /\ Idle
    /\ Head(todo).kind \in {"required", "balance", "step"}
    /\ ~aborted
    /\ Goto(Head(todo).id, FirstStage(Head(todo)))
    /\ racing' = Head(todo).id
    /\ UNCHANGED <<scenario, todo, recordVars, promise, aborted, networkVars, faults>>

\* recordStep: into the result, and to onStep.
RecordStep(id, passed, code) == steps' = Append(steps, [id |-> id, passed |-> passed, code |-> code])

ItemSucceeds ==
    /\ racing # "none"
    /\ op[racing].stage = "done"
    /\ IF Head(todo).kind = "balance" THEN UNCHANGED steps ELSE RecordStep(racing, TRUE, Success)
    /\ todo' = Tail(todo)
    /\ racing' = "none"
    /\ UNCHANGED <<scenario, op, assertions, promise, aborted, networkVars, faults>>

\* matchesFailure against the first stepFailedWith assertion about this step.
Expectations(id) ==
    {i \in DOMAIN scenario.assertions : scenario.assertions[i].kind = "failedWith" /\ scenario.assertions[i].id = id}
Matches(item, code) ==
    /\ item.kind = "step"
    /\ \E i \in Expectations(item.id) :
          /\ \A j \in Expectations(item.id) : i <= j
          /\ code = scenario.assertions[i].code

\* Mutant: a failed step is recorded, and the loop goes on with the next one.
ItemFailsGoingOn(code) ==
    LET item == Head(todo) IN
    /\ IF item.kind = "balance" THEN UNCHANGED steps
                                ELSE RecordStep(item.id, Matches(item, code), code)
    /\ todo' = Tail(todo)
    /\ racing' = "none"
    /\ UNCHANGED promise

\* The catch blocks: a failed step is recorded; only an exactly expected one goes on.
ItemFails(code) ==
    LET item == Head(todo)
        expected == Matches(item, code)
    IN  /\ IF item.kind = "balance" THEN UNCHANGED steps ELSE RecordStep(item.id, expected, code)
        /\ IF expected THEN todo' = Tail(todo) /\ UNCHANGED promise
                       ELSE promise' = "rejected" /\ UNCHANGED todo
        /\ racing' = "none"

OperationFails ==
    /\ racing # "none"
    /\ op[racing].stage = "failed"
    /\ ItemFails(op[racing].code)
    /\ UNCHANGED <<scenario, op, assertions, aborted, networkVars, faults>>

\* Mutant: only the funding is raced against the step timeout.
StepTimesOutFunding ==
    /\ racing = "fund"
    /\ Live(racing)
    /\ ItemFails(NoCode)
    /\ FailWith("fund", NoCode)
    /\ UNCHANGED <<scenario, assertions, aborted, networkVars, faults>>

\* The timer of the step's withTimeout wins. Its controller stops funding only.
StepTimesOut ==
    /\ racing # "none"
    /\ Live(racing)
    /\ ItemFails(NoCode)
    /\ IF racing = "fund" THEN FailWith("fund", NoCode) ELSE UNCHANGED op
    /\ UNCHANGED <<scenario, assertions, aborted, networkVars, faults>>

\* executeBounded throws RUN_TIMEOUT instead of starting the next operation.
StepRefused ==
    /\ Idle
    /\ Head(todo).kind \in {"required", "balance", "step"}
    /\ aborted
    /\ ItemFails(NoCode)
    /\ UNCHANGED <<scenario, op, assertions, aborted, networkVars, faults>>

-----------------------------------------------------------------------------
(* evaluateAssertion.                                                      *)

OutcomeOf(id) == CHOOSE s \in ToSet(steps) : s.id = id

\* The call in execute() passes six arguments where evaluateAssertion declares seven:
\* in the body, options is undefined, so every executeBounded in it throws.
ReadsLedger(a) == a.kind = "read" \/ (a.kind = "memo" /\ OutcomeOf(a.id).code = Success)

Holds(a) ==
    CASE a.kind \in {"succeeded", "confirmed"} -> OutcomeOf(a.id).code = Success
      [] a.kind = "failedWith" -> OutcomeOf(a.id).code = a.code
      [] a.kind = "memo" -> FALSE

EvaluateAssertion ==
    LET a == Head(todo) IN
    /\ Idle
    /\ a.kind \notin {"required", "balance", "step"}
    /\ IF ReadsLedger(a)
       THEN promise' = "rejected" /\ UNCHANGED <<todo, assertions>>
       ELSE /\ assertions' = Append(assertions, [a |-> a, ok |-> Holds(a)])
            /\ todo' = Tail(todo)
            /\ UNCHANGED promise
    /\ UNCHANGED <<scenario, racing, op, steps, aborted, networkVars, faults>>

Resolve ==
    /\ promise = "pending"
    /\ todo = <<>>
    /\ promise' = "resolved"
    /\ UNCHANGED <<scenario, todo, racing, op, recordVars, aborted, networkVars, faults>>

\* The run times out, or the service was draining when it launched the gateway.
RunAborts ==
    /\ ~aborted
    /\ promise = "pending"
    /\ aborted' = TRUE
    /\ UNCHANGED <<scenario, todo, racing, op, recordVars, promise, networkVars, faults>>

-----------------------------------------------------------------------------

Horizon ==
    \/ \E id \in Items : AccountLoaded(id) \/ TimeboundsFetched(id) \/ SubmitAnswered(id) \/ BalanceRead(id)
    \/ \E id \in Items, retryable \in BOOLEAN : RequestFails(id, retryable)
    \/ \E tx \in sent, result \in Rejections \cup {Success} : LedgerSettles(tx, result)
Loop == Begin \/ ItemSucceeds \/ OperationFails \/ StepRefused \/ EvaluateAssertion \/ Resolve

Next ==
    \/ Horizon
    \/ \E outcome \in {"resolved", "refused", "unavailable", "abort"} : FundingEnds(outcome)
    \/ \E id \in Items : DelayEnds(id)
    \/ Loop
    \/ StepTimesOut
    \/ RunAborts

\* Promise reactions run and the step timer fires. Horizon owes nothing.
Fairness == WF_vars(Loop \/ StepTimesOut)

Spec == Init /\ [][Next]_vars /\ Fairness

-----------------------------------------------------------------------------
(* Properties                                                              *)

TypeOK ==
    /\ scenario \in Scenarios
    /\ IsSuffix(todo, Plan(scenario))
    /\ racing \in Items \cup {"none"}
    /\ op \in [Items -> [stage : {"off", "fund", "read", "load", "bounds", "submit", "done", "failed"},
                         asleep : BOOLEAN, retries : 0..MaxRetries, code : Rejections \cup {NoCode, Refused}]]
    /\ steps \in Seq([id : Items, passed : BOOLEAN, code : Rejections \cup {Success, NoCode, Refused}])
    /\ assertions \in Seq([a : ToSet(scenario.assertions), ok : BOOLEAN])
    /\ promise \in {"pending", "resolved", "rejected"}
    /\ aborted \in BOOLEAN
    /\ built \in [Items -> Nat]
    /\ \A tx \in sent : tx.build \in 1..built[tx.step]
    /\ {v.tx : v \in ledger} \subseteq sent
    /\ faults \in 0..MaxFaults

\* However often requests are retried and races are lost, the ledger holds at most one
\* transaction per step, and holds one of a step only if every earlier step was
\* recorded as passed: the steps happened on the ledger in the order of the scenario.
LedgerFollowsScenario ==
    /\ \A v, w \in ledger : v.tx.step = w.tx.step => v = w
    /\ \A v \in ledger, i \in DOMAIN scenario.steps :
          v.tx.step = scenario.steps[i] =>
              \A j \in 1..(i - 1) : \E s \in ToSet(steps) : s.id = scenario.steps[j] /\ s.passed

\* A step is recorded as successful, or as failed with a code, only if that is the
\* ledger's verdict on its transaction.
RecordsMatchLedger ==
    \A s \in ToSet(steps) :
        s.id \in ToSet(scenario.steps) /\ s.code # NoCode =>
            \E v \in ledger : v.tx.step = s.id /\ v.result = s.code

\* An assertion passes exactly when the ledger bears it out.
AssertionsMatchLedger ==
    \A x \in ToSet(assertions) :
        LET result == IF x.a.kind = "failedWith" THEN x.a.code ELSE Success IN
        x.a.kind # "memo" =>
            (x.ok <=> \E v \in ledger : v.tx.step = x.a.id /\ v.result = result)

\* Nothing is skipped: a resolved promise carries every step, all of them passed, and
\* every assertion, in the order of the scenario.
ResolvedIsComplete ==
    promise = "resolved" =>
        /\ \A s \in ToSet(steps) : s.passed
        /\ [i \in DOMAIN steps |-> steps[i].id] =
              (IF scenario.funds THEN <<"fund">> ELSE <<>>) \o scenario.steps
        /\ [i \in DOMAIN assertions |-> assertions[i].a] = scenario.assertions

\* The report tells the truth about the ledger and leaves nothing out, whichever
\* requests failed, were retried or lost their race before it was made.
ReportIsTrue == RecordsMatchLedger /\ AssertionsMatchLedger /\ ResolvedIsComplete

\* A failed step is said to be past retrying only on the ledger's own verdict, however
\* many requests failed or lost their race; and it is said to be worth retrying either
\* on a verdict that left its operations unattempted, or without knowing the verdict.
RetryAdviceIsHonest ==
    \A s \in ToSet(steps) : s.id \in ToSet(scenario.steps) /\ ~s.passed =>
        LET rejected == \E v \in ledger : v.tx.step = s.id /\ v.result = s.code
        IN  IF Retryable(s.code) THEN s.code = NoCode \/ (rejected /\ s.code.ops = <<>>)
            ELSE rejected

\* What onStep and onAssertion are called with, in order.
Reports ==
    [i \in 1..(Len(steps) + Len(assertions)) |->
        IF i <= Len(steps) THEN [kind |-> "step", ok |-> steps[i].passed]
                           ELSE [kind |-> "assertion", ok |-> assertions[i - Len(steps)].ok]]

\* execute() settles even if Horizon never answers a single request.
Settles == <>(promise # "pending")

\* An assertion whose reads Horizon answers is evaluated: it passes or fails, but it
\* does not end the run.
ReadsAreAnswered ==
    promise = "rejected" /\ faults = 0 => Head(todo).kind \in {"required", "balance", "step"}

=============================================================================
