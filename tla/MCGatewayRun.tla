---------------------------- MODULE MCGatewayRun ----------------------------
(* Four accounts, and scenarios of two steps, with and without funding, an *)
(* initial balance, an expected failure, and assertions of every kind.     *)
EXTENDS GatewayRun

MCAccounts == <<"alice", "bob", "carol", "dave">>

NoTrust == [tx |-> "tx_failed", ops |-> <<"op_no_trust">>]
BadSeq == [tx |-> "tx_bad_seq", ops |-> <<>>]
MCRejections == {NoTrust, BadSeq}

NoCode == [tx |-> "none", ops |-> <<>>]
Check(kind, id) == [kind |-> kind, id |-> id, code |-> NoCode]
FailedWith(id, code) == [kind |-> "failedWith", id |-> id, code |-> code]

Happy == [funds |-> TRUE, initial |-> FALSE, steps |-> <<"s1", "s2">>,
          assertions |-> <<Check("succeeded", "s1"), Check("confirmed", "s2")>>]
Negative == [funds |-> FALSE, initial |-> TRUE, steps |-> <<"s1", "s2">>,
             assertions |-> <<FailedWith("s1", NoTrust), FailedWith("s1", BadSeq), Check("succeeded", "s2")>>]
Memo == [funds |-> FALSE, initial |-> FALSE, steps |-> <<"s1", "s2">>,
         assertions |-> <<FailedWith("s2", NoTrust), Check("memo", "s2"), Check("memo", "s1")>>]
Reading == [funds |-> FALSE, initial |-> FALSE, steps |-> <<"s1">>,
            assertions |-> <<Check("succeeded", "s1"), Check("read", "s1")>>]

MCScenarios == {Happy, Negative, Memo, Reading}
=============================================================================
