---------------------------- MODULE LedgerPromise ----------------------------
(***************************************************************************)
(* The LedgerGateway interface as RunService.execute relies on it: while   *)
(* the promise is pending the gateway reports results, steps before        *)
(* assertions; a failed step is the last thing it reports before it        *)
(* rejects; it resolves once, and only when no step failed.                *)
(***************************************************************************)
EXTENDS Naturals, Sequences

VARIABLES
    reports,    \* what onStep and onAssertion were called with, in order
    promise     \* "pending", "resolved" or "rejected"

promiseVars == <<reports, promise>>

Report == [kind : {"step", "assertion"}, ok : BOOLEAN]
IsFailedStep(report) == report.kind = "step" /\ ~report.ok
Broken == \E i \in DOMAIN reports : IsFailedStep(reports[i])
Asserting == \E i \in DOMAIN reports : reports[i].kind = "assertion"

PromiseInit == reports = <<>> /\ promise = "pending"

Emit(report) ==
    /\ promise = "pending"
    /\ ~Broken
    /\ Asserting => report.kind = "assertion"
    /\ reports' = Append(reports, report)
    /\ promise' = IF IsFailedStep(report) THEN "rejected" ELSE promise

Resolve ==
    /\ promise = "pending"
    /\ ~Broken
    /\ promise' = "resolved"
    /\ UNCHANGED reports

Reject ==
    /\ promise = "pending"
    /\ promise' = "rejected"
    /\ UNCHANGED reports

PromiseNext == (\E report \in Report : Emit(report)) \/ Resolve \/ Reject

PromiseSpec == PromiseInit /\ [][PromiseNext]_promiseVars

=============================================================================
