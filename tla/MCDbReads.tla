------------------------------ MODULE MCDbReads ------------------------------
(***************************************************************************)
(* Two writers that may overlap and one reader: the desk pays a user in    *)
(* two lines, who passes some of it on to another.                         *)
(***************************************************************************)
EXTENDS DbReads

MCAssets == [USD |-> [class |-> "FIAT", max_amount |-> 3],
             BTC |-> [class |-> "CRYPTO", max_amount |-> 3]]
MCAccountTable == [alice |-> "user_custodial", bob |-> "user_custodial",
                   desk |-> "operational_fiat"]

Line(account_id, direction, amount, asset) ==
    [account_id |-> account_id, direction |-> direction,
     amount |-> amount, asset |-> asset]
Transfer(from, to, amount) ==
    <<Line(to, "DEBIT", amount, "USD"), Line(from, "CREDIT", amount, "USD")>>

MCPayload ==
    [pay |-> [posting_id |-> "p1",
              entries |-> <<Line("bob", "DEBIT", 2, "USD"), Line("bob", "DEBIT", 1, "USD"),
                            Line("desk", "CREDIT", 3, "USD")>>],
     pass |-> [posting_id |-> "p2", entries |-> Transfer("bob", "alice", 1)]]
MCRequests == DOMAIN MCPayload
MCAsked == {<<"bob", "USD">>}
=============================================================================
