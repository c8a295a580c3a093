----------------------------- MODULE MCBrowsePane -----------------------------
(* A catalogue of two scenarios, one of which a category and a query let    *)
(* through, and three report files: one names a step twice, and they hold   *)
(* several assertions of a type, between and beside others.                 *)
EXTENDS BrowsePane

MCNameRank == <<2, 1>>
MCMatching == [key \in {"xlm", "pay"} |-> IF key = "xlm" THEN {1} ELSE {2}]
MCQueries == {"", "pay", "pay "}
MCTrim == [q \in MCQueries |-> IF q = "pay " THEN "pay" ELSE q]
Link(f, q, o) == [filter |-> f, search |-> q, sort |-> o]
MCLinks == {Link("xlm", "", "name-asc"), Link("bogus", "pay ", "bogus")}

Step(id, s) == [id |-> id, status |-> s]
Assertion(t, s) == [type |-> t, status |-> s]
Report(h, s, d, steps, assertions) ==
    [scenario |-> h, status |-> s, duration |-> d,
     steps |-> steps, assertions |-> assertions]
MCReports ==
    {Report("h1", "passed", 3, <<Step("pay", "passed")>>,
            <<Assertion("tx", "passed"), Assertion("bal", "passed"),
              Assertion("tx", "passed")>>),
     Report("h1", "failed", 5, <<Step("pay", "failed"), Step("fund", "passed")>>,
            <<Assertion("bal", "passed"), Assertion("tx", "passed"),
              Assertion("tx", "failed")>>),
     Report("h2", "running", NoDuration,
            <<Step("pay", "passed"), Step("pay", "failed")>>,
            <<Assertion("tx", "passed"), Assertion("tx", "passed"),
              Assertion("bal", "passed")>>)}
=============================================================================
