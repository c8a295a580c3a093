----------------------------- MODULE MCDeployment ----------------------------
(* Two releases for TLC: what their migration directories may hold, two    *)
(* slugs with plain scenarios, and one deployment whose first fixture is   *)
(* any of a few hundred scenarios with dangling, repeated, reserved or     *)
(* mistyped references.                                                    *)
EXTENDS Deployment

CONSTANTS d1, d2

MCSlugs == <<"alpha", "beta">>

Native == [id |-> "xlm", type |-> "native", issuer |-> "-"]
Issued(id, issuer) == [id |-> id, type |-> "issued", issuer |-> issuer]
Step(id, type, account, to, asset, other, path) ==
    [id |-> id, type |-> type, account |-> account, to |-> to, asset |-> asset, other |-> other, path |-> path]
Assertion(type, account, asset, step) ==
    [type |-> type, account |-> account, asset |-> asset, step |-> step]
Scenario(accounts, assets, steps, assertions) ==
    [accounts |-> [i \in DOMAIN accounts |-> [id |-> accounts[i]]],
     assets |-> assets, steps |-> steps, assertions |-> assertions]

Pay(id) == Step(id, "payment", "ann", "bob", "xlm", "-", <<>>)
Exists == Assertion("accountExists", "ann", "-", "-")
Plain(type) == Scenario(<<"ann", "bob">>, <<Native>>, <<Pay("pay")>>, <<Assertion(type, "-", "-", "pay")>>)
X == Plain("stepSucceeded")
Y == Plain("transactionConfirmed")

OddAccounts == {<<"ann", "bob">>, <<"ann">>, <<"ann", "ann">>}
OddAssets == {<<Native, Issued("usd", "bob")>>, <<Native>>, <<Issued("usd", "ann")>>,
              <<Native, Issued("xlm", "ann")>>, <<Native, Issued("usd", "ann"), Issued("eur", "ann")>>}
OddSteps ==
    {<<>>, <<Pay("pay"), Pay("pay")>>, <<Pay("fund-accounts")>>}
    \cup {<<Step("pay", "changeTrust", "bob", "-", a, "-", <<>>)>> : a \in {"xlm", "usd"}}
    \cup {<<Step("pay", "manageSellOffer", "ann", "-", "xlm", b, <<>>)>> : b \in {"xlm", "usd"}}
    \cup {<<Step("pay", "pathPaymentStrictSend", "ann", "ann", "xlm", "usd", p)>> :
             p \in {<<>>, <<"eur">>, <<"eur", "eur">>, <<"usd">>}}
OddAssertions ==
    {<<Exists>>, <<Assertion("transactionMemoEquals", "-", "-", "pay")>>,
     <<Assertion("balanceEquals", "bob", "usd", "-")>>,
     <<Assertion("trustlineExists", "ann", "xlm", "-")>>,
     <<Assertion("feeAwareNativeBalanceDelta", "ann", "usd", "pay")>>,
     <<Assertion("feeAwareNativeBalanceDelta", "ann", "xlm", "back")>>}
Odd == UNION {{Scenario(a, b, t, <<Exists>>) : t \in OddSteps}
              \cup {Scenario(a, b, t, q) : t \in {<<Pay("pay")>>, <<Pay("pay"), Pay("back")>>}, q \in OddAssertions} :
                 a \in OddAccounts, b \in OddAssets}

MCApplied == (1 :> "a")
Newest == <<"a", "b", "c">>
Directories == {MCApplied, <<"a", "b">>, Newest, <<"a", "edited">>, (1 :> "a") @@ (3 :> "c")}

Fix(x, n) == [scenario |-> x, version |-> n]
Bundle(x, m, y, n) == "alpha" :> Fix(x, m) @@ "beta" :> Fix(y, n)
Bring(files, fixtures) == [files |-> files, fixtures |-> fixtures]

MCReleases ==
    {d1 :> Bring(f, Bundle(x, 1, X, 2)) @@ d2 :> Bring(Newest, Bundle(y, 2, Y, 1)) :
        f \in Directories, x \in {X, Y}, y \in {X, Y}}
    \cup {d1 :> Bring(MCApplied, Bundle(x, 1, X, 1)) @@ d2 :> Bring(<<"edited">>, Bundle(X, 1, X, 1)) : x \in Odd}
=============================================================================
