------------------------------ MODULE Treasury -------------------------------
(***************************************************************************)
(* The wrappers a treasury saga posts through.  They build the two lines,  *)
(* call Store::post and report only success or failure: a caller does not  *)
(* learn whether it booked its posting or met one that had its id.         *)
(***************************************************************************)
EXTENDS MemStore

CONSTANT TreasuryCalls  \* the requests that are made through a wrapper

ASSUME TreasuryAssumption == TreasuryCalls \subseteq Requests

TwoLines(posting_id, debited, credited, asset, amount) ==
    [posting_id |-> posting_id,
     entries    |-> << [account_id |-> debited, direction |-> "DEBIT",
                        amount |-> amount, asset |-> asset],
                       [account_id |-> credited, direction |-> "CREDIT",
                        amount |-> amount, asset |-> asset] >>]

hedge_entry(posting_id, treasury_account, venue_account, asset, amount) ==
    TwoLines(posting_id, treasury_account, venue_account, asset, amount)

rebalance(posting_id, from_account, to_account, asset, amount) ==
    TwoLines(posting_id, to_account, from_account, asset, amount)

\* The id of a step of a saga.  (One id for the whole saga would not do.)
SagaOnly(saga_id, step) == saga_id
derive_posting_id(saga_id, step) == saga_id \o "_" \o step

-----------------------------------------------------------------------------
\* The caller of a wrapper gets Ok or an error.
Ok(r) == resp[r].kind \in {"created", "replayed"}

\* A step of a saga that was told Ok, at once or on a retry, finds its own two lines on
\* the books, as long as the ids of the steps differ (hedge_entry, rebalance; post does
\* not compare a repeated id's lines with the stored ones).
OkMeansBooked ==
    \A r \in TreasuryCalls : Ok(r) =>
        LET rows == postings[Payload[r].posting_id].entries
        IN  Payload[r].entries = [k \in DOMAIN rows |->
                [account_id |-> rows[k].account_id, direction |-> rows[k].direction,
                 amount |-> rows[k].amount, asset |-> rows[k].asset]]
=============================================================================
