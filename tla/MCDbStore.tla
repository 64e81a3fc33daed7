----------------------------- MODULE MCDbStore ------------------------------
(***************************************************************************)
(* A small service: two accounts, two assets, requests of which two have   *)
(* the same posting_id, on one or two replicas.                            *)
(***************************************************************************)
EXTENDS DbStore

MCAssets == [USD |-> [class |-> "FIAT", max_amount |-> 3],
             BTC |-> [class |-> "CRYPTO", max_amount |-> 3]]
MCAccountTable == [user |-> "user_custodial", ops |-> "operational_fiat"]

Line(account_id, direction, amount, asset) ==
    [account_id |-> account_id, direction |-> direction,
     amount |-> amount, asset |-> asset]
TransferOf(from, to, amount, asset) ==
    <<Line(to, "DEBIT", amount, asset), Line(from, "CREDIT", amount, asset)>>
Transfer(from, to, amount) == TransferOf(from, to, amount, "USD")

\* first and retry are one submission sent twice.
MCPayload ==
    [first |-> [posting_id |-> "p1", entries |-> Transfer("ops", "user", 2)],
     retry |-> [posting_id |-> "p1", entries |-> Transfer("ops", "user", 2)],
     other |-> [posting_id |-> "p2", entries |-> Transfer("user", "ops", 1)]]
MCRequests == DOMAIN MCPayload

\* The same, where other moves another asset, with a request that balances in total only.
FaultyPayload ==
    [first    |-> MCPayload.first,
     retry    |-> MCPayload.retry,
     other    |-> [posting_id |-> "p2",
                   entries |-> TransferOf("ops", "user", 1, "BTC")],
     lopsided |-> [posting_id |-> "p3",
                   entries |-> <<Line("user", "DEBIT", 1, "USD"),
                                 Line("ops", "CREDIT", 1, "BTC")>>]]
FaultyRequests == DOMAIN FaultyPayload

\* Two different submissions under one id.
ClashPayload ==
    [first |-> MCPayload.first,
     clash |-> [posting_id |-> "p1", entries |-> Transfer("user", "ops", 1)]]
ClashRequests == DOMAIN ClashPayload
=============================================================================
