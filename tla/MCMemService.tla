---------------------------- MODULE MCMemService -----------------------------
(***************************************************************************)
(* Three postings on three accounts: two move the same asset between the   *)
(* same accounts, one moves two assets at once.                            *)
(***************************************************************************)
EXTENDS MemService, MCMemStore

ServicePayload ==
    [deposit |-> MCPayload.deposit,
     fx      |-> MCPayload.fx,
     payback |-> [posting_id |-> "p3", entries |-> Transfer("user", "vault", 2, "BTC")]]
ServiceRequests == DOMAIN ServicePayload
ServiceAccountRequests ==
    {Account("user", "user_custodial", "BOTH"), Account("ops", "operational_fiat", "FIAT"),
     Account(None, "operational_crypto", "CRYPTO")}
=============================================================================
