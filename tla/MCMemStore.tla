----------------------------- MODULE MCMemStore -----------------------------
(***************************************************************************)
(* A small ledger: two assets with amounts up to 3, and requests that meet *)
(* every outcome of post.                                                  *)
(***************************************************************************)
EXTENDS Treasury

MCAssets == [USD |-> [class |-> "FIAT", max_amount |-> 3],
             BTC |-> [class |-> "CRYPTO", max_amount |-> 4]]

Line(account_id, direction, amount, asset) ==
    [account_id |-> account_id, direction |-> direction,
     amount |-> amount, asset |-> asset]
Transfer(from, to, amount, asset) ==
    <<Line(to, "DEBIT", amount, asset), Line(from, "CREDIT", amount, asset)>>

\* deposit      books p1; again submits it with another payload
\* fx           books p2 with two assets in one posting
\* lopsided     is unbalanced, hedge is its corrected retry under the same id
\* hedge, back  are two steps of one saga
\* over         breaks the amount limit (within BTC's own maximum)
MCPayload ==
    [deposit  |-> [posting_id |-> "p1", entries |-> Transfer("ops", "user", 2, "USD")],
     again    |-> [posting_id |-> "p1", entries |-> Transfer("ops", "user", 1, "USD")],
     fx       |-> [posting_id |-> "p2",
                   entries |-> Transfer("user", "ops", 3, "USD") \o
                               Transfer("vault", "user", 1, "BTC")],
     lopsided |-> [posting_id |-> derive_posting_id("saga", "1"),
                   entries |-> <<Line("user", "DEBIT", 2, "USD"),
                                 Line("ops", "CREDIT", 1, "USD"),
                                 Line("vault", "CREDIT", 1, "BTC")>>],
     hedge    |-> hedge_entry(derive_posting_id("saga", "1"), "user", "vault", "BTC", 2),
     back     |-> rebalance(derive_posting_id("saga", "2"), "user", "vault", "BTC", 1),
     over     |-> [posting_id |-> "p4", entries |-> Transfer("ops", "user", 4, "BTC")]]
MCRequests == DOMAIN MCPayload
MCTreasuryCalls == {"hedge", "back"}

\* The same ledger without the requests that are always refused, and with one
\* that puts a crypto asset on a fiat account.
CrossClassPayload ==
    [deposit |-> MCPayload.deposit,
     cross   |-> [posting_id |-> "p5", entries |-> Transfer("user", "ops", 1, "BTC")]]
CrossClassRequests == DOMAIN CrossClassPayload

Account(account_id, type_name, asset_class) ==
    [account_id |-> account_id, type_name |-> type_name, asset_class |-> asset_class]
\* The last three are refused: a class the type does not allow, an id that is
\* taken or for a type of another class, an unknown class.
MCAccountRequests ==
    {Account("user", "user_custodial", "BOTH"),
     Account("ops", "operational_fiat", "FIAT"),
     Account(None, "operational_crypto", "CRYPTO"),
     Account("vault", "operational_fiat", "CRYPTO"),
     Account("user", "treasury_fiat", "FIAT"),
     Account("ops", "fee_revenue", "STOCK")}
MCGeneratedIds == {"vault"}
=============================================================================
