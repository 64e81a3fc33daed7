----------------------------- MODULE Accounting -----------------------------
(***************************************************************************)
(* The pure rules of the ledger: the chart of accounts, the validation of  *)
(* an account and of a posting request, the signed effect of an entry and  *)
(* the hash chain.  Every other module is built from these operators.      *)
(*                                                                         *)
(* A posting request is [posting_id, entries], its entries a sequence of   *)
(* [account_id, direction, amount, asset].  memo, ref_tx_id and created_at *)
(* carry no rule of the service and are left out.                          *)
(***************************************************************************)
EXTENDS Integers, Sequences, FiniteSets, FiniteSetsExt, TLC

CONSTANTS
    ASSET_REGISTRY,           \* asset code -> [class, max_amount]
    MAX_AMOUNT,               \* largest amount of one entry
    MAX_ENTRIES_PER_POSTING,  \* largest number of entries of one posting
    Salt                      \* the deployment's hash salt

ASSUME LimitsAssumption == /\ MAX_AMOUNT \in Nat
                           /\ MAX_ENTRIES_PER_POSTING \in Nat

ASSUME RegistryAssumption ==
    \A a \in DOMAIN ASSET_REGISTRY :
        ASSET_REGISTRY[a] \in [class : {"FIAT", "CRYPTO"}, max_amount : Nat]
ASSUME NamesAssumption == "" \notin DOMAIN ASSET_REGISTRY

-----------------------------------------------------------------------------
(* Chart of accounts: chart.rs and account.rs.                             *)

Direction == {"DEBIT", "CREDIT"}
AssetClass == {"FIAT", "CRYPTO", "BOTH"}

\* type_name -> AccountType.  Every type of the chart lists both directions;
\* normal_balance is only displayed.
AccountType(asset_class) == [asset_class        |-> asset_class,
                             allowed_directions |-> Direction]
CHART ==
    [t \in {"user_custodial", "user_payable", "fx_gain_loss", "fee_revenue",
            "venue_settlement", "chargeback_reserve"} |-> AccountType("BOTH")] @@
    [t \in {"operational_fiat", "treasury_fiat", "rail_settlement"} |->
        AccountType("FIAT")] @@
    [t \in {"operational_crypto", "treasury_crypto"} |-> AccountType("CRYPTO")]

find_type(type_name) == type_name \in DOMAIN CHART

direction_allowed(type_name, direction) ==
    direction \in CHART[type_name].allowed_directions

asset_class_allowed(type_name, asset_class) ==
    CHART[type_name].asset_class \in {"BOTH", asset_class}

\* account::validate: may this account be created?  (And the same without
\* parse_asset_class, which a type of class BOTH would not notice.)
ValidateUnparsed(req) ==
    /\ find_type(req.type_name)
    /\ asset_class_allowed(req.type_name, req.asset_class)
validate(req) ==
    /\ find_type(req.type_name)
    /\ req.asset_class \in AssetClass
    /\ asset_class_allowed(req.type_name, req.asset_class)

-----------------------------------------------------------------------------
(* Validation of a posting request: asset.rs and Store::post.              *)

validate_amount(asset, amount) ==
    /\ asset \in DOMAIN ASSET_REGISTRY
    /\ amount # 0
    /\ amount <= ASSET_REGISTRY[asset].max_amount

\* The checks of post that come before the balance check.
Validated(req) ==
    /\ req.entries # <<>>
    /\ Len(req.entries) <= MAX_ENTRIES_PER_POSTING
    /\ \A k \in DOMAIN req.entries :
          /\ validate_amount(req.entries[k].asset, req.entries[k].amount)
          /\ req.entries[k].amount <= MAX_AMOUNT
          /\ req.entries[k].direction \in Direction

\* One side of the per_asset table of post.
SideTotal(lines, direction, asset) ==
    LET side == {k \in DOMAIN lines : /\ lines[k].direction = direction
                                      /\ lines[k].asset = asset}
    IN  MapThenSumSet(LAMBDA k : lines[k].amount, side)

\* Debits equal credits in every asset; it would not do to add up all assets.
BalancedInTotal(lines) ==
    LET total(direction) ==
            MapThenSumSet(LAMBDA k : lines[k].amount,
                          {k \in DOMAIN lines : lines[k].direction = direction})
    IN  total("DEBIT") = total("CREDIT")
Balanced(lines) ==
    \A asset \in {lines[k].asset : k \in DOMAIN lines} :
        SideTotal(lines, "DEBIT", asset) = SideTotal(lines, "CREDIT", asset)

\* What post answers before it looks at any state.
PostError(req) == CASE ~Validated(req) -> "Validation"
                    [] Validated(req) /\ ~Balanced(req.entries) -> "Unbalanced"
                    [] OTHER -> "none"

-----------------------------------------------------------------------------
(* Balances: compute_balance and balance_from_db.                          *)

Effect(e) == CASE e.direction = "DEBIT"  -> e.amount
               [] e.direction = "CREDIT" -> -e.amount
               [] OTHER -> 0

\* The balance of an account over a set of entry rows; asset "" sums all assets.
compute_balance(rows, account_id, asset) ==
    MapThenSumSet(Effect, {e \in rows : /\ e.account_id = account_id
                                        /\ asset = "" \/ e.asset = asset})

-----------------------------------------------------------------------------
(* The hash chain: posting.rs and hashchain.rs.  SHA-256 is idealised as   *)
(* an injective function: a hash value is the history it commits to, a     *)
(* sequence of salted lines.                                               *)

GENESIS_HASH == <<>>

\* The fields of an entry that are hashed.  posting_id and sequence_number are
\* not among them; prev_hash, which the code hashes here and again in
\* compute_hash, is kept once, in compute_hash.
canonical_bytes(entry_id, account_id, direction, amount, asset) ==
    [entry_id |-> entry_id, account_id |-> account_id,
     direction |-> direction, amount |-> amount, asset |-> asset]

compute_hash(prev_hash, salt, canonical) ==
    Append(prev_hash, [salt |-> salt, canonical |-> canonical])

\* The entry_id of line k of the posting request r books is a fresh uuid.
EntryId(r, k) == <<r, k>>

\* The line that entry k of request r adds to the chain, and the running value
\* of prev_hash after the first k turns of the loop over entries_parsed.
UnsaltedLine(r, lines, k) ==
    [salt |-> "",
     canonical |-> canonical_bytes(EntryId(r, k), lines[k].account_id,
                      lines[k].direction, lines[k].amount, lines[k].asset)]
ChainedLine(r, lines, k) ==
    [salt |-> Salt,
     canonical |-> canonical_bytes(EntryId(r, k), lines[k].account_id,
                      lines[k].direction, lines[k].amount, lines[k].asset)]
HashAfter(r, lines, prev_hash, k) ==
    prev_hash \o [j \in 1..k |-> ChainedLine(r, lines, j)]

\* The loop of post_via_db and post_via_memory that builds created_entries.
CreatedEntries(r, req, prev_hash, sequence) ==
    [k \in 1..Len(req.entries) |->
        [entry_id        |-> EntryId(r, k),
         posting_id      |-> req.posting_id,
         account_id      |-> req.entries[k].account_id,
         direction       |-> req.entries[k].direction,
         amount          |-> req.entries[k].amount,
         asset           |-> req.entries[k].asset,
         sequence_number |-> sequence + k,
         prev_hash       |-> HashAfter(r, req.entries, prev_hash, k - 1),
         this_hash       |-> HashAfter(r, req.entries, prev_hash, k)]]

\* What verify_chain checks at one entry, given the hash of the one before it.
LinkOK(e, prev_hash) ==
    /\ e.direction \in Direction
    /\ e.prev_hash = prev_hash
    /\ e.this_hash = compute_hash(prev_hash, Salt,
                        canonical_bytes(e.entry_id, e.account_id, e.direction,
                                        e.amount, e.asset))

verify_chain(rows) ==
    \A i \in 1..Len(rows) :
        LinkOK(rows[i], IF i = 1 THEN GENESIS_HASH ELSE rows[i - 1].this_hash)

\* hashchain::global_head
global_head(rows) ==
    IF rows = <<>> THEN GENESIS_HASH ELSE rows[Len(rows)].this_hash

\* Rows in the order of their sequence numbers, no two being equal.
BySequence(rows) ==
    LET place(e) == 1 + Cardinality({x \in rows : x.sequence_number < e.sequence_number})
    IN  [i \in 1..Cardinality(rows) |-> CHOOSE e \in rows : place(e) = i]

\* HashMap::insert
Insert(map, key, value) ==
    [x \in DOMAIN map \cup {key} |-> IF x = key THEN value ELSE map[x]]

=============================================================================
