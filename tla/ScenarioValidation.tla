-------------------------- MODULE ScenarioValidation --------------------------
(***************************************************************************)
(* What scenario-schema.ts accepts, and what the gateway looks up when it  *)
(* executes it. A scenario is reduced to its identifiers: accounts, assets *)
(* with their issuers, steps and assertions with what they refer to. The   *)
(* JSON schema gives every step and assertion the fields of its type; the  *)
(* sizes of amounts, memos and texts are left out.                         *)
(***************************************************************************)
EXTENDS Sequences, SequencesExt

ReservedStep == "fund-accounts"
PathTypes == {"pathPaymentStrictReceive", "pathPaymentStrictSend"}
NativeOnly == {"feeAwareNativeBalanceDelta"}
IssuedOnly == {"trustlineExists", "trustlineMissing", "trustlineLimitEquals"}
OfStep == {"stepSucceeded", "stepFailedWith", "transactionConfirmed", "transactionMemoEquals"}
OfAccount == {"accountExists", "accountMissing"}

\* Which fields the schema gives a type: "account" in assertion, and so on.
HasAccount(a) == a.type \notin OfStep
HasAsset(a) == a.type \notin OfStep \cup OfAccount
HasStep(a) == a.type \in OfStep \cup NativeOnly
HasTo(t) == t.type \in {"payment"} \cup PathTypes
HasOther(t) == t.type \in {"manageSellOffer"} \cup PathTypes

Ids(items) == {items[i].id : i \in DOMAIN items}
UniqueIds(items) == \A i, j \in DOMAIN items : items[i].id = items[j].id => i = j

-----------------------------------------------------------------------------
(* validateReferences: the scenario raises no issue.                       *)

\* The first asset of that id is native (find).
IsNative(s, asset) ==
    asset \in Ids(s.assets) /\ SelectSeq(s.assets, LAMBDA x : x.id = asset)[1].type = "native"

\* Mutant: the issuers of issued assets are not looked at.
ValidAssetsAnyIssuer(s) == Len(SelectSeq(s.assets, LAMBDA x : x.type = "native")) = 1

ValidAssets(s) ==
    /\ Len(SelectSeq(s.assets, LAMBDA x : x.type = "native")) = 1
    /\ \A i \in DOMAIN s.assets : s.assets[i].type = "issued" => s.assets[i].issuer \in Ids(s.accounts)

ValidStep(s, t) ==
    /\ t.id # ReservedStep
    /\ t.account \in Ids(s.accounts)
    /\ t.asset \in Ids(s.assets)
    /\ t.type = "changeTrust" => ~IsNative(s, t.asset)
    /\ HasTo(t) => t.to \in Ids(s.accounts)
    /\ HasOther(t) => t.other \in Ids(s.assets) \ {t.asset}
    /\ t.type \in PathTypes =>
          /\ IsInjective(t.path)
          /\ ToSet(t.path) \subseteq Ids(s.assets) \ {t.asset, t.other}

\* validateAssertionReferences.
ValidAssertion(s, a) ==
    /\ HasAccount(a) => a.account \in Ids(s.accounts)
    /\ HasAsset(a) => a.asset \in Ids(s.assets)
    /\ HasStep(a) => a.step \in Ids(s.steps)
    /\ a.type = "transactionMemoEquals" =>
          SelectSeq(s.steps, LAMBDA t : t.id = a.step)[1].type = "payment"
    /\ a.type \in IssuedOnly => ~IsNative(s, a.asset)
    /\ a.type \in NativeOnly => IsNative(s, a.asset)

Validates(s) ==
    /\ UniqueIds(s.accounts) /\ UniqueIds(s.assets) /\ UniqueIds(s.steps)
    /\ ValidAssets(s)
    /\ \A i \in DOMAIN s.steps : ValidStep(s, s.steps[i])
    /\ \A i \in DOMAIN s.assertions : ValidAssertion(s, s.assertions[i])

-----------------------------------------------------------------------------
(* The gateway's maps, and every key it requires of them.                  *)

\* resolveAsset and executeOperation.
AccountsRequired(s) ==
    {x.issuer : x \in {y \in ToSet(s.assets) : y.type = "issued"}}
    \cup {t.account : t \in ToSet(s.steps)} \cup {t.to : t \in {u \in ToSet(s.steps) : HasTo(u)}}
    \cup {a.account : a \in {b \in ToSet(s.assertions) : HasAccount(b)}}

AssetsRequired(s) ==
    {t.asset : t \in ToSet(s.steps)} \cup {t.other : t \in {u \in ToSet(s.steps) : HasOther(u)}}
    \cup (UNION {ToSet(t.path) : t \in {u \in ToSet(s.steps) : u.type \in PathTypes}})
    \cup {a.asset : a \in {b \in ToSet(s.assertions) : HasAsset(b)}}

\* evaluateAssertion: the outcome of a step, or its fee among the reported steps.
StepsRequired(s) == {a.step : a \in {b \in ToSet(s.assertions) : HasStep(b)}}

\* The steps a complete report lists: the runner's own and those of the scenario.
Reported(s) == <<ReservedStep>> \o [i \in DOMAIN s.steps |-> s.steps[i].id]

\* No lookup of the gateway can fail, and no two steps of a report share their id.
Executable(s) ==
    /\ AccountsRequired(s) \subseteq Ids(s.accounts)
    /\ AssetsRequired(s) \subseteq Ids(s.assets)
    /\ StepsRequired(s) \subseteq Ids(s.steps)
    /\ IsInjective(Reported(s))
=============================================================================
