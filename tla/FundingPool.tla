----------------------------- MODULE FundingPool -----------------------------
(***************************************************************************)
(* StellarTestnetGateway.fundAll and fundAccount: workers that share a     *)
(* queue of accounts, ask Friendbot for each of them with bounded retries, *)
(* and stop together when one of them fails or the run is aborted.         *)
(*                                                                         *)
(* Friendbot is external: it may answer, refuse, or never answer.          *)
(***************************************************************************)
EXTENDS Naturals, Sequences, FiniteSets, SequencesExt

CONSTANTS
    Accounts,       \* the accounts to fund, in the order of the scenario
    Concurrency,    \* options.fundingConcurrency
    MaxAttempts     \* retryConfig.maxAttempts

ASSUME AccountsAssumption == Accounts \in Seq(ToSet(Accounts)) /\ IsInjective(Accounts)
ASSUME LimitsAssumption == {Concurrency, MaxAttempts} \subseteq Nat \ {0}

VARIABLES
    queue,      \* accounts no worker has taken yet
    worker,     \* what each worker is doing, for which account, at which attempt
    funded,     \* accounts for which Friendbot answered with success
    requests,   \* requests sent for each account
    aborted,    \* the signal of the step or the run
    cancelled,  \* the pool's own controller
    firstError, \* what the pool will throw
    result      \* the promise fundAll returned

vars == <<queue, worker, funded, requests, aborted, cancelled, firstError, result>>

Names == ToSet(Accounts)
Workers == 1..(IF Concurrency < Len(Accounts) THEN Concurrency ELSE Len(Accounts))
Stopped == aborted \/ cancelled
Errors == {"refused", "unavailable", "abort"}
Resting == [doing |-> "resting", account |-> "none", attempt |-> 0]

Init ==
    /\ queue = Accounts
    /\ worker = [w \in Workers |-> Resting]
    /\ funded = {}
    /\ requests = [a \in Names |-> 0]
    /\ aborted = FALSE
    /\ cancelled = FALSE
    /\ firstError = "none"
    /\ result = "pending"

-----------------------------------------------------------------------------
(* fundAccount: one request per attempt, a delay between two of them.      *)

Send(w, account, attempt) ==
    /\ worker' = [worker EXCEPT ![w] = [doing |-> "fetching", account |-> account, attempt |-> attempt]]
    /\ requests' = [requests EXCEPT ![account] = @ + 1]

\* Mutant: the last error wins.
ThrowLast(w, error) ==
    /\ worker' = [worker EXCEPT ![w] = [Resting EXCEPT !.doing = "gone"]]
    /\ firstError' = error
    /\ cancelled' = TRUE

\* The worker's catch block: the first error is kept, and every sibling is stopped.
Throw(w, error) ==
    /\ worker' = [worker EXCEPT ![w] = [Resting EXCEPT !.doing = "gone"]]
    /\ firstError' = IF firstError = "none" THEN error ELSE firstError
    /\ cancelled' = TRUE

FriendbotFunds(w) ==
    /\ worker[w].doing = "fetching"
    /\ funded' = funded \cup {worker[w].account}
    /\ worker' = [worker EXCEPT ![w] = Resting]
    /\ UNCHANGED <<queue, requests, aborted, cancelled, firstError, result>>

\* 429, 5xx and an unreachable Friendbot are retryable, any other status is not; of those
\* 408 alone is reported as a Friendbot that is unavailable, not as one that refused.
FriendbotRefuses(w, retryable) ==
    /\ worker[w].doing = "fetching"
    /\ IF retryable /\ worker[w].attempt < MaxAttempts
       THEN /\ worker' = [worker EXCEPT ![w].doing = "sleeping"]
            /\ UNCHANGED <<firstError, cancelled>>
       ELSE \E error \in {"unavailable"} \cup (IF retryable THEN {} ELSE {"refused"}) : Throw(w, error)
    /\ UNCHANGED <<queue, funded, requests, aborted, result>>

DelayEnds(w) ==
    /\ worker[w].doing = "sleeping"
    /\ ~Stopped
    /\ Send(w, worker[w].account, worker[w].attempt + 1)
    /\ UNCHANGED <<queue, funded, aborted, cancelled, firstError, result>>

\* Mutant: the requests listen to the pool's controller but not to the signal.
InterruptedByPool(w) ==
    /\ worker[w].doing \in {"fetching", "sleeping"}
    /\ cancelled
    /\ Throw(w, "abort")
    /\ UNCHANGED <<queue, funded, requests, aborted, result>>

\* fetch and signalSleep reject when the combined signal aborts.
Interrupted(w) ==
    /\ worker[w].doing \in {"fetching", "sleeping"}
    /\ Stopped
    /\ Throw(w, "abort")
    /\ UNCHANGED <<queue, funded, requests, aborted, result>>

-----------------------------------------------------------------------------
(* fundAll.                                                                *)

Dequeue(w) ==
    /\ worker[w].doing = "resting"
    /\ ~Stopped
    /\ queue # <<>>
    /\ queue' = Tail(queue)
    /\ Send(w, Head(queue), 1)
    /\ UNCHANGED <<funded, aborted, cancelled, firstError, result>>

Leave(w) ==
    /\ worker[w].doing = "resting"
    /\ Stopped \/ queue = <<>>
    /\ worker' = [worker EXCEPT ![w].doing = "gone"]
    /\ UNCHANGED <<queue, funded, requests, aborted, cancelled, firstError, result>>

\* Mutant: no look at the queue after Promise.all.
SettleUnaware ==
    /\ result = "pending"
    /\ \A w \in Workers : worker[w].doing = "gone"
    /\ result' = IF firstError # "none" THEN firstError ELSE "resolved"
    /\ UNCHANGED <<queue, worker, funded, requests, aborted, cancelled, firstError>>

\* After Promise.all: an abort from outside may have left accounts in the queue.
Settle ==
    /\ result = "pending"
    /\ \A w \in Workers : worker[w].doing = "gone"
    /\ result' = CASE firstError # "none" -> firstError
                   [] firstError = "none" /\ aborted /\ queue # <<>> -> "abort"
                   [] OTHER -> "resolved"
    /\ UNCHANGED <<queue, worker, funded, requests, aborted, cancelled, firstError>>

Abort ==
    /\ result = "pending"
    /\ ~aborted
    /\ aborted' = TRUE
    /\ UNCHANGED <<queue, worker, funded, requests, cancelled, firstError, result>>

-----------------------------------------------------------------------------

Friendbot(w) == FriendbotFunds(w) \/ \E retryable \in BOOLEAN : FriendbotRefuses(w, retryable)
Process(w) == DelayEnds(w) \/ Interrupted(w) \/ Dequeue(w) \/ Leave(w)

Next ==
    \/ \E w \in Workers : Friendbot(w) \/ Process(w)
    \/ Settle
    \/ Abort

\* Timers and promise reactions run. Neither Friendbot nor an abort is owed.
Fairness == (\A w \in Workers : WF_vars(Process(w))) /\ WF_vars(Settle)

Spec == Init /\ [][Next]_vars /\ Fairness

-----------------------------------------------------------------------------
(* Properties                                                              *)

Held == {worker[w].account : w \in {v \in Workers : worker[v].doing \in {"fetching", "sleeping"}}}

TypeOK ==
    /\ IsSuffix(queue, Accounts)
    /\ worker \in [Workers -> [doing : {"resting", "fetching", "sleeping", "gone"},
                               account : Names \cup {"none"}, attempt : 0..MaxAttempts]]
    /\ funded \subseteq Names
    /\ requests \in [Names -> 0..MaxAttempts]
    /\ {aborted, cancelled} \subseteq BOOLEAN
    /\ firstError \in {"none"} \cup Errors
    /\ result \in {"pending", "resolved"} \cup Errors

\* Whichever way the abort, the failures and the empty queue interleave, the funding
\* step succeeds only when Friendbot has confirmed every account.
SuccessMeansAllFunded == result = "resolved" => funded = Names

\* Unless something failed, no account gets lost between the queue and the workers;
\* and none is ever in two places, so none is asked for twice at once.
EveryAccountAccountedFor ==
    /\ firstError = "none" => ToSet(queue) \cup Held \cup funded = Names
    /\ ToSet(queue) \cap (Held \cup funded) = {} /\ Held \cap funded = {}
    /\ \A v, w \in Workers : v # w /\ worker[v].account = worker[w].account => worker[v].account = "none"

\* The error the step reports is the cause, never a sibling's reaction to it: an
\* abort error is thrown only if the run or the step was really aborted.
CauseIsReported == firstError = "abort" \/ result = "abort" => aborted

\* What the funding step answers is true, whether it succeeds or fails.
FundingIsTrue == SuccessMeansAllFunded /\ CauseIsReported

\* The inductive form of the three above. An account has at most one holder, and none
\* once it is funded; the controller is aborted exactly when there is a first error, and
\* then the account of the worker that threw is lost for good; and a worker leaves a pool
\* that nothing has stopped only when the queue is empty.
FailureLosesAnAccount ==
    /\ firstError # "none" => ToSet(queue) \cup Held \cup funded # Names
    /\ result \in Errors \ {"abort"} => firstError # "none"
Busy(w) == worker[w].doing \in {"fetching", "sleeping"}
WorkersOK ==
    /\ worker \in [Workers -> [doing : {"resting", "fetching", "sleeping", "gone"},
                               account : Names \cup {"none"}, attempt : Nat]]
    /\ \A w \in Workers : IF Busy(w) THEN worker[w].account \in Names ELSE worker[w].account = "none"
    /\ \A v, w \in Workers : v # w /\ Busy(v) /\ Busy(w) => worker[v].account # worker[w].account
PoolInv ==
    /\ WorkersOK
    /\ queue \in Seq(Names) /\ IsInjective(queue)
    /\ funded \subseteq Names
    /\ EveryAccountAccountedFor
    /\ SuccessMeansAllFunded
    /\ CauseIsReported
    /\ firstError \in {"none"} \cup Errors
    /\ FailureLosesAnAccount
    /\ cancelled <=> firstError # "none"
    /\ \A w \in Workers : worker[w].doing = "gone" /\ ~Stopped => queue = <<>>

\* The pool never hangs on a Friendbot that does not answer: an abort, or the failure of
\* one worker, settles it, whatever the others wait for.
StopSettles == Stopped ~> result # "pending"

=============================================================================
