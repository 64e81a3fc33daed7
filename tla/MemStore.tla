------------------------------ MODULE MemStore ------------------------------
(***************************************************************************)
(* The in-memory store (Store with pool = None): LedgerState behind one    *)
(* mutex.  create_account and post_via_memory hold that mutex for their    *)
(* whole body, so each call is one atomic action.  Callers may repeat a    *)
(* request at any time.                                                    *)
(***************************************************************************)
EXTENDS Accounting, SequencesExt

CONSTANTS
    Requests,         \* names of posting requests
    Payload,          \* Requests -> [posting_id, entries]
    AccountRequests,  \* the CreateAccountRequests callers may submit
    GeneratedIds,     \* the uuids a request without an account_id may get
    None              \* Option::None

Lines == [account_id : STRING, direction : STRING, amount : Nat, asset : STRING]

ASSUME PayloadAssumption ==
    Payload \in [Requests -> [posting_id : STRING, entries : Seq(Lines)]]

ASSUME AccountRequestsAssumption ==
    /\ AccountRequests \subseteq
          [account_id : STRING \cup {None}, type_name : STRING, asset_class : STRING]
    /\ GeneratedIds \subseteq STRING
    /\ None \notin STRING

ASSUME RequestsAssumption == None \notin Requests

VARIABLES
    accounts,            \* account_id -> Account
    postings,            \* posting_id -> PostingRecord
    entries,             \* every entry, in the order of insertion
    sequence,            \* the last sequence number given out
    audit_events,        \* the events recorded
    hash_chain_anchors,  \* posting_id -> HashChainAnchor
    global_chain_head,   \* the hash the next entry will link to
    resp                 \* request -> the last answer to its caller

vars == <<accounts, postings, entries, sequence, audit_events,
          hash_chain_anchors, global_chain_head, resp>>

-----------------------------------------------------------------------------
Accounts == [type_name : DOMAIN CHART, asset_class : AssetClass, status : {"ACTIVE"}]
EntryIds == Requests \X Nat
HashLines == [salt : {Salt},
              canonical : [entry_id : EntryIds, account_id : STRING,
                           direction : STRING, amount : Nat, asset : STRING]]
Hashes == Seq(HashLines)
EntryRecords == [entry_id : EntryIds, posting_id : STRING, account_id : STRING,
                 direction : STRING, amount : Nat, asset : STRING,
                 sequence_number : Nat, prev_hash : Hashes, this_hash : Hashes]
PostingRecords == [hash_head : Hashes, entries : Seq(EntryRecords)]
Anchors == [head_hash : Hashes, global_sequence_head : Hashes]
AuditEvents == [posting_id : STRING, entry_ids : Seq(EntryIds), hash_head : Hashes]
Responses == [kind : {"none", "created", "replayed", "Validation", "Unbalanced"},
              entry_ids : Seq(EntryIds), hash_head : Hashes]

Empty(kind) == [kind |-> kind, entry_ids |-> <<>>, hash_head |-> GENESIS_HASH]

\* The entry_ids of an answer or of an event.
IdsOf(rows) == [k \in 1..Len(rows) |-> rows[k].entry_id]

-----------------------------------------------------------------------------
Init == /\ accounts = <<>>
        /\ postings = <<>>
        /\ entries = <<>>
        /\ sequence = 0
        /\ audit_events = <<>>
        /\ hash_chain_anchors = <<>>
        /\ global_chain_head = GENESIS_HASH
        /\ resp = [r \in Requests |-> Empty("none")]

\* create_account; a refused call leaves every map alone.
CreateAccount(req) ==
    /\ validate(req)
    /\ \E id \in IF req.account_id = None THEN GeneratedIds ELSE {req.account_id} :
          /\ id \notin DOMAIN accounts
          /\ accounts' = Insert(accounts, id,
                                [type_name   |-> req.type_name,
                                 asset_class |-> req.asset_class,
                                 status      |-> "ACTIVE"])
    /\ UNCHANGED <<postings, entries, sequence, audit_events,
                   hash_chain_anchors, global_chain_head, resp>>

\* The two account loops of post_via_memory, in the caller's terms: existence
\* and status of every account first, then the direction against its type.
AccountsAccept(lines) ==
    /\ \A k \in DOMAIN lines :
          /\ lines[k].account_id \in DOMAIN accounts
          /\ accounts[lines[k].account_id].status = "ACTIVE"
    /\ \A k \in DOMAIN lines :
          LET type_name == accounts[lines[k].account_id].type_name
          IN  find_type(type_name) /\ direction_allowed(type_name, lines[k].direction)

\* The idempotency check, and its omission.
AlwaysNew(id) == FALSE
Known(id) == id \in DOMAIN postings

\* The answer to a repeated posting_id comes from the stored record; a slip would
\* be to answer with the current head of the whole chain.
ReplayWithGlobalHead(id) == [kind      |-> "replayed",
                             entry_ids |-> IdsOf(postings[id].entries),
                             hash_head |-> global_chain_head]
ReplayOf(id) == [kind      |-> "replayed",
                 entry_ids |-> IdsOf(postings[id].entries),
                 hash_head |-> postings[id].hash_head]

\* The event of a new posting; a slip would be to give the head it started from.
EventWithOldHead(id, ids, head) == [posting_id |-> id, entry_ids |-> ids,
                                    hash_head  |-> global_chain_head]
EventOf(id, ids, head) == [posting_id |-> id, entry_ids |-> ids, hash_head |-> head]

\* post refuses the request before it takes the lock.
PostRefused(r) ==
    /\ PostError(Payload[r]) # "none"
    /\ resp' = [resp EXCEPT ![r] = Empty(PostError(Payload[r]))]
    /\ UNCHANGED <<accounts, postings, entries, sequence, audit_events,
                   hash_chain_anchors, global_chain_head>>

\* The posting_id is known: the stored result is returned, whatever the payload.
PostReplayed(r) ==
    /\ PostError(Payload[r]) = "none"
    /\ Known(Payload[r].posting_id)
    /\ resp' = [resp EXCEPT ![r] = ReplayOf(Payload[r].posting_id)]
    /\ UNCHANGED <<accounts, postings, entries, sequence, audit_events,
                   hash_chain_anchors, global_chain_head>>

\* An account is missing or inactive, or its type forbids the direction.
PostAccountRefused(r) ==
    /\ PostError(Payload[r]) = "none"
    /\ ~Known(Payload[r].posting_id)
    /\ ~AccountsAccept(Payload[r].entries)
    /\ resp' = [resp EXCEPT ![r] = Empty("Validation")]
    /\ UNCHANGED <<accounts, postings, entries, sequence, audit_events,
                   hash_chain_anchors, global_chain_head>>

\* The posting is booked: every map and list changes under the one lock.
PostCreated(r) ==
    LET req     == Payload[r]
        id      == req.posting_id
        created == CreatedEntries(r, req, global_chain_head, sequence)
        head    == HashAfter(r, req.entries, global_chain_head, Len(req.entries))
        ids     == IdsOf(created)
    IN  /\ PostError(req) = "none"
        /\ ~Known(id)
        /\ AccountsAccept(req.entries)
        /\ sequence' = sequence + Len(req.entries)
        /\ postings' = Insert(postings, id, [hash_head |-> head, entries |-> created])
        /\ entries' = entries \o created
        /\ hash_chain_anchors' = Insert(hash_chain_anchors, id,
                                        [head_hash            |-> head,
                                         global_sequence_head |-> head])
        /\ global_chain_head' = head
        /\ audit_events' = Append(audit_events, EventOf(id, ids, head))
        /\ resp' = [resp EXCEPT ![r] = [kind |-> "created", entry_ids |-> ids,
                                        hash_head |-> head]]
        /\ UNCHANGED accounts

Post(r) == PostRefused(r) \/ PostReplayed(r) \/ PostAccountRefused(r) \/ PostCreated(r)

Next == \/ \E req \in AccountRequests : CreateAccount(req)
        \/ \E r \in Requests : Post(r)

Spec == Init /\ [][Next]_vars

-----------------------------------------------------------------------------
TypeOK ==
    /\ DOMAIN accounts \subseteq STRING
    /\ \A a \in DOMAIN accounts : accounts[a] \in Accounts
    /\ DOMAIN postings \subseteq STRING
    /\ \A p \in DOMAIN postings : postings[p] \in PostingRecords
    /\ entries \in Seq(EntryRecords)
    /\ sequence \in Nat
    /\ audit_events \in Seq(AuditEvents)
    /\ DOMAIN hash_chain_anchors \subseteq STRING
    /\ \A p \in DOMAIN hash_chain_anchors : hash_chain_anchors[p] \in Anchors
    /\ global_chain_head \in Hashes
    /\ resp \in [Requests -> Responses]

\* The chain a restart or GET /v1/chain/verify checks is unbroken, the head kept
\* for the next posting is the hash of the last entry, and the entries are
\* numbered 1, 2, 3... without gap in the order in which they are chained
\* (post_via_memory, verify_chain).
ChainVerifies ==
    /\ verify_chain(entries)
    /\ global_chain_head = global_head(entries)
    /\ sequence = Len(entries)
    /\ \A i \in DOMAIN entries : entries[i].sequence_number = i

\* The three records post_via_memory keeps of a posting agree: its own entries
\* are a contiguous block of the journal, found at their sequence numbers, its
\* head and both hashes of its anchor are the hash of its last entry, and no
\* journal entry lies outside the block of the posting it names.
RowsAgree ==
    /\ DOMAIN hash_chain_anchors = DOMAIN postings
    /\ \A p \in DOMAIN postings :
          LET rows == postings[p].entries
          IN  /\ rows # <<>>
              /\ \A k \in DOMAIN rows :
                    /\ rows[k].posting_id = p
                    /\ rows[k].sequence_number = rows[1].sequence_number + k - 1
                    /\ rows[k].sequence_number \in DOMAIN entries
                    /\ entries[rows[k].sequence_number] = rows[k]
              /\ postings[p].hash_head = rows[Len(rows)].this_hash
              /\ hash_chain_anchors[p] =
                    [head_hash            |-> postings[p].hash_head,
                     global_sequence_head |-> postings[p].hash_head]
    /\ \A i \in DOMAIN entries :
          /\ entries[i].posting_id \in DOMAIN postings
          /\ \E k \in DOMAIN postings[entries[i].posting_id].entries :
                postings[entries[i].posting_id].entries[k] = entries[i]

\* Double entry: every entry is on a known account, no posting has fewer than two
\* entries, and in every asset the balances of all accounts cancel out
\* (post's per_asset check, compute_balance).
TrialBalance ==
    /\ \A i \in DOMAIN entries : entries[i].account_id \in DOMAIN accounts
    /\ \A p \in DOMAIN postings : Len(postings[p].entries) >= 2
    /\ \A asset \in DOMAIN ASSET_REGISTRY :
          MapThenSumSet(LAMBDA a : compute_balance(ToSet(entries), a, asset),
                        DOMAIN accounts) = 0

\* Idempotence: every caller that was ever answered with a result for a
\* posting_id holds the same one, that of the stored posting, and only the
\* request whose entries were booked was told "created" (post_via_memory).
OneResultPerPosting ==
    \A r \in Requests : resp[r].kind \in {"created", "replayed"} =>
        LET id == Payload[r].posting_id
        IN  /\ id \in DOMAIN postings
            /\ resp[r].entry_ids = IdsOf(postings[id].entries)
            /\ resp[r].hash_head = postings[id].hash_head
            /\ resp[r].kind = "created" => resp[r].entry_ids[1] = EntryId(r, 1)

\* Entries are only ever added at the end, and neither a booked posting nor its
\* anchor ever changes: a second submission with another payload overwrites
\* nothing (post_via_memory).
AppendOnly ==
    [][/\ IsPrefix(entries, entries')
       /\ \A p \in DOMAIN postings :
             /\ p \in DOMAIN postings'
             /\ postings'[p] = postings[p]
             /\ hash_chain_anchors'[p] = hash_chain_anchors[p]]_vars

\* Every posting has exactly one audit event, with the entries and the head that
\* are stored, and the events are in the order of the chain: each head extends
\* the one before it (post_via_memory).
AuditMirrorsPostings ==
    /\ \A p \in DOMAIN postings :
          /\ Cardinality({i \in DOMAIN audit_events : audit_events[i].posting_id = p}) = 1
          /\ \E i \in DOMAIN audit_events :
                audit_events[i] = [posting_id |-> p,
                                   entry_ids  |-> IdsOf(postings[p].entries),
                                   hash_head  |-> postings[p].hash_head]
    /\ \A i \in DOMAIN audit_events : audit_events[i].posting_id \in DOMAIN postings
    /\ \A i, j \in DOMAIN audit_events :
          i < j => IsStrictPrefix(audit_events[i].hash_head, audit_events[j].hash_head)

\* What README.md:65 asks of a posting ("Asset and direction are consistent with
\* the account's chart-of-accounts definition"): no entry is in an asset of
\* another class than its account's.  post never compares the two.
AssetClassRespected ==
    \A i \in DOMAIN entries :
        accounts[entries[i].account_id].asset_class
            \in {"BOTH", ASSET_REGISTRY[entries[i].asset].class}

-----------------------------------------------------------------------------
(* The store implements the journal: the booked request is the one whose   *)
(* entries are stored, and a caller's answer is the request its entry_ids  *)
(* name.                                                                   *)
Ids == {Payload[r].posting_id : r \in Requests}
Booker(p) == IF p \in DOMAIN postings THEN postings[p].entries[1].entry_id[1] ELSE None
AnswerOf(r) ==
    CASE resp[r].kind = "none" -> [what |-> "nothing", by |-> None]
      [] resp[r].kind \in {"created", "replayed"} ->
            [what |-> "booked", by |-> resp[r].entry_ids[1][1]]
      [] OTHER -> [what |-> "refused", by |-> None]

J == INSTANCE Journal WITH
        IdOf       <- [r \in Requests |-> Payload[r].posting_id],
        Admissible <- {r \in Requests : PostError(Payload[r]) = "none"},
        Nobody     <- None,
        book       <- [p \in Ids |-> Booker(p)],
        answer     <- [r \in Requests |-> AnswerOf(r)]

\* Behind the journal's promise stands this store: every step is a step of the
\* journal or leaves it alone (post, post_via_memory).
RefinesJournal == J!Spec
=============================================================================
