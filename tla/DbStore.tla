------------------------------- MODULE DbStore -------------------------------
(***************************************************************************)
(* The store backed by Postgres (Store with a pool): post_via_db as the    *)
(* sequence of database round trips it is, run by any number of concurrent *)
(* requests on several replicas of the service, with the failures it meets:*)
(* a query that fails, a commit whose acknowledgement is lost, a process   *)
(* that dies and restarts, an audit send that fails.                       *)
(*                                                                         *)
(* Only the insert of the posting row and the commit touch what others can *)
(* see; what a transaction has inserted stays private to it until then.    *)
(* An account row is never changed by this code: only the environment      *)
(* deactivates one.                                                        *)
(***************************************************************************)
EXTENDS Accounting, SequencesExt

CONSTANTS
    Requests,     \* posting requests; a retry is another request of the same id
    Payload,      \* Requests -> [posting_id, entries]
    AccountTable, \* account_id -> type_name: the rows of the accounts table
    Replicas,     \* instances of the service
    FirstUp,      \* the replicas that are up when the first request arrives
    Isolations,   \* isolation levels the pool's sessions may run at
    Connections,  \* max_connections of each replica's pool
    MaxInFlight,  \* bound: requests in progress at a time, over all replicas
    Faults,       \* the failures the environment may produce
    None

\* The lines of a request as the handler has parsed them.
Lines == [account_id : STRING, direction : STRING, amount : Nat, asset : STRING]

ASSUME PayloadAssumption ==
    Payload \in [Requests -> [posting_id : STRING, entries : Seq(Lines)]]
ASSUME RequestsAssumption == None \notin Requests
ASSUME TableAssumption == IsFiniteSet(DOMAIN AccountTable)
ASSUME FaultsAssumption ==
    Faults \subseteq {"query", "head", "commit", "crash", "kafka", "deactivate"}
ASSUME ConnectionsAssumption == Connections \in Nat \ {0}
ASSUME IsolationAssumption ==
    Isolations \subseteq {"serializable", "read committed"}

VARIABLES
    postings,      \* committed rows: posting_id -> hash_chain_head
    entries,       \* committed rows: a set of entry records
    hash_chain,    \* committed rows: posting_id -> head_hash
    inactive,      \* accounts whose status is no longer ACTIVE
    pc,            \* request -> the round trip it does next
    at,            \* request -> the replica that serves it
    prev,          \* request -> prev_hash_initial, the head it read
    seq,           \* request -> seq_cursor, the last number it read
    resp,          \* request -> the answer its caller received
    phase,         \* replica -> where its process is
    loaded,        \* replica -> entries hydrate has read and not yet installed
    cache,         \* replica -> the maps of its LedgerState
    audit_events,  \* replica -> the events its LedgerState holds
    outbox,        \* events whose send task is running: <<replica, event>>
    topic          \* events the audit topic has received

db == <<postings, entries, hash_chain>>
calls == <<pc, at, prev, seq, resp>>
process == <<phase, loaded, cache>>
audit == <<audit_events, outbox, topic>>
vars == <<db, inactive, calls, process, audit>>

-----------------------------------------------------------------------------
Id(r) == Payload[r].posting_id
Ids == {Id(r) : r \in Requests}

Finished == {"new", "done", "lost"}
InFlight == {r \in Requests : pc[r] \notin Finished}

\* Holders of an uncommitted row of postings with this id.  (Without a unique key
\* there would be none to wait for.)
NoHolders(id) == {}
Holders(id) == {r \in Requests : pc[r] \in {"sequence", "commit"} /\ Id(r) = id}

\* Connections of a replica's pool that open transactions hold; every other query
\* takes one for itself, also that of a request which holds one already.
Held(p) == {r \in Requests : at[r] = p /\ pc[r] \in {"blocked", "sequence", "commit"}}
ConnectionFree(p) == Cardinality(Held(p)) < Connections

RowsOf(id) == {e \in entries : e.posting_id = id}
LastNumber(rows) == IF rows = {} THEN 0 ELSE Max({e.sequence_number : e \in rows})

\* ORDER BY sequence_number.  The column is not unique: rows of different
\* postings with the same number come in the order in which the postings lie in
\* the table, which tie gives.
TieBreaks ==
    LET bookers == {e.entry_id[1] : e \in entries}
    IN  {t \in [bookers -> 1..Cardinality(bookers)] :
            \A r, s \in bookers : t[r] = t[s] => r = s}
InOrder(rows, tie) ==
    LET before(x, e) == \/ x.sequence_number < e.sequence_number
                        \/ /\ x.sequence_number = e.sequence_number
                           /\ tie[x.entry_id[1]] < tie[e.entry_id[1]]
        place(e) == 1 + Cardinality({x \in rows : before(x, e)})
    IN  [i \in 1..Cardinality(rows) |-> CHOOSE e \in rows : place(e) = i]

\* The entry_ids of one posting, in order.
IdsInOrder(rows) ==
    LET place(e) == 1 + Cardinality({x \in rows : x.sequence_number < e.sequence_number})
    IN  [i \in 1..Cardinality(rows) |-> (CHOOSE e \in rows : place(e) = i).entry_id]

Empty(kind) == [kind |-> kind, entry_ids |-> <<>>, hash_head |-> GENESIS_HASH]

\* What request r has built before it commits.
Created(r) == CreatedEntries(r, Payload[r], prev[r], seq[r])
NewHead(r) == HashAfter(r, Payload[r].entries, prev[r], Len(Payload[r].entries))
NewIds(r) == [k \in DOMAIN Payload[r].entries |-> EntryId(r, k)]

\* The rows ORDER BY sequence_number DESC LIMIT 1 may return; without DESC it would
\* be the first ones.
FirstRows == {e \in entries : \A x \in entries : e.sequence_number <= x.sequence_number}
LastRows == {e \in entries : e.sequence_number = LastNumber(entries)}

EmptyState == [postings |-> <<>>, entries |-> <<>>, sequence |-> 0,
               global_chain_head |-> GENESIS_HASH]

-----------------------------------------------------------------------------
Init == /\ postings = <<>> /\ entries = {} /\ hash_chain = <<>>
        /\ inactive = {}
        /\ pc = [r \in Requests |-> "new"]
        /\ at = [r \in Requests |-> None]
        /\ prev = [r \in Requests |-> GENESIS_HASH]
        /\ seq = [r \in Requests |-> 0]
        /\ resp = [r \in Requests |-> Empty("none")]
        /\ phase = [p \in Replicas |-> IF p \in FirstUp THEN "up" ELSE "down"]
        /\ loaded = [p \in Replicas |-> <<>>]
        /\ cache = [p \in Replicas |-> EmptyState]
        /\ audit_events = [p \in Replicas |-> <<>>]
        /\ outbox = {} /\ topic = {}

\* The request moves on to its next round trip.
Goto(r, step) == pc' = [pc EXCEPT ![r] = step]
\* The request returns to its caller.
Return(r, answer) == Goto(r, "done") /\ resp' = [resp EXCEPT ![r] = answer]

\* A request reaches a replica; post refuses it or goes to the database.
Start(r, p) ==
    /\ pc[r] = "new"
    /\ phase[p] = "up"
    /\ Cardinality(InFlight) < MaxInFlight
    /\ at' = [at EXCEPT ![r] = p]
    /\ IF PostError(Payload[r]) = "none"
       THEN Goto(r, "check") /\ UNCHANGED resp
       ELSE Return(r, Empty(PostError(Payload[r])))
    /\ UNCHANGED <<db, inactive, prev, seq, process, audit>>

\* SELECT the posting: a known posting_id is answered from the database.
CheckExisting(r) ==
    /\ pc[r] = "check"
    /\ ConnectionFree(at[r])
    /\ Goto(r, IF Id(r) \in DOMAIN postings THEN "fetch" ELSE "accounts")
    /\ UNCHANGED <<db, inactive, at, prev, seq, resp, process, audit>>

\* The answer to a duplicate is read back from the database; the entries this
\* request has built itself by then are not stored anywhere.
OwnResult(r) == [kind |-> "replayed", entry_ids |-> NewIds(r), hash_head |-> NewHead(r)]
StoredResult(r) == [kind      |-> "replayed",
                    entry_ids |-> IdsInOrder(RowsOf(Id(r))),
                    hash_head |-> postings[Id(r)]]

\* SELECT the posting, which never changes once it is committed, and its entries.
FetchExisting(r) ==
    /\ pc[r] = "fetch"
    /\ ConnectionFree(at[r])
    /\ Return(r, StoredResult(r))
    /\ UNCHANGED <<db, inactive, at, prev, seq, process, audit>>

\* The lookups of every account: it exists, is active and allows the direction.
AccountsAccept(lines) ==
    \A k \in DOMAIN lines :
        /\ lines[k].account_id \in DOMAIN AccountTable \ inactive
        /\ find_type(AccountTable[lines[k].account_id])
        /\ direction_allowed(AccountTable[lines[k].account_id], lines[k].direction)

CheckAccounts(r) ==
    /\ pc[r] = "accounts"
    /\ ConnectionFree(at[r])
    /\ IF AccountsAccept(Payload[r].entries)
       THEN Goto(r, "head") /\ UNCHANGED resp
       ELSE Return(r, Empty("Validation"))
    /\ UNCHANGED <<db, inactive, at, prev, seq, process, audit>>

\* last_entry_hash_from_db, on a connection of its own; every hash of the new
\* entries follows from it.
ReadHead(r) ==
    /\ pc[r] = "head"
    /\ ConnectionFree(at[r])
    /\ \E h \in IF entries = {} THEN {GENESIS_HASH}
                ELSE {e.this_hash : e \in LastRows} :
          prev' = [prev EXCEPT ![r] = h]
    /\ Goto(r, "insert")
    /\ UNCHANGED <<db, inactive, at, seq, resp, process, audit>>

\* The same query fails: .ok()? and unwrap_or_else make of it an empty ledger.
HeadReadFails(r) ==
    /\ "head" \in Faults
    /\ pc[r] = "head"
    /\ prev' = [prev EXCEPT ![r] = GENESIS_HASH]
    /\ Goto(r, "insert")
    /\ UNCHANGED <<db, inactive, at, seq, resp, process, audit>>

\* BEGIN; INSERT INTO postings ... ON CONFLICT DO NOTHING.  A committed row makes
\* it insert nothing; another transaction's uncommitted row makes it wait.
InsertPosting(r) ==
    /\ pc[r] = "insert"
    /\ ConnectionFree(at[r])
    /\ Goto(r, CASE Id(r) \in DOMAIN postings -> "fetch"
                 [] Id(r) \notin DOMAIN postings /\ Holders(Id(r)) # {} -> "blocked"
                 [] OTHER -> "sequence")
    /\ UNCHANGED <<db, inactive, at, prev, seq, resp, process, audit>>

\* The transaction waited for has ended.  If it committed, its row is invisible to
\* a serializable snapshot and the insert fails (SQLSTATE 40001), while a read
\* committed one inserts nothing; if it rolled back, the insert succeeds.
Unblock(r) ==
    /\ pc[r] = "blocked"
    /\ Holders(Id(r)) = {}
    /\ \/ /\ Id(r) \notin DOMAIN postings
          /\ Goto(r, "sequence") /\ UNCHANGED resp
       \/ /\ Id(r) \in DOMAIN postings
          /\ "read committed" \in Isolations
          /\ Goto(r, "fetch") /\ UNCHANGED resp
       \/ /\ Id(r) \in DOMAIN postings
          /\ "serializable" \in Isolations
          /\ Return(r, Empty("Validation"))
    /\ UNCHANGED <<db, inactive, at, prev, seq, process, audit>>

\* next_sequence_from_db: SELECT MAX(sequence_number), not within the transaction.
ReadSequence(r) ==
    /\ pc[r] = "sequence"
    /\ ConnectionFree(at[r])
    /\ seq' = [seq EXCEPT ![r] = LastNumber(entries)]
    /\ Goto(r, "commit")
    /\ UNCHANGED <<db, inactive, at, prev, resp, process, audit>>

\* INSERT the entries and the anchor; COMMIT makes them and the posting visible.
Publish(r) ==
    /\ postings' = Insert(postings, Id(r), NewHead(r))
    /\ entries' = entries \cup ToSet(Created(r))
    /\ hash_chain' = Insert(hash_chain, Id(r), NewHead(r))

Commit(r) ==
    /\ pc[r] = "commit"
    /\ Publish(r)
    /\ Goto(r, "cache")
    /\ UNCHANGED <<inactive, at, prev, seq, resp, process, audit>>

\* The server commits, the acknowledgement is lost: the caller gets an error.
CommitUnacknowledged(r) ==
    /\ "commit" \in Faults
    /\ pc[r] = "commit"
    /\ Publish(r)
    /\ Return(r, Empty("Validation"))
    /\ UNCHANGED <<inactive, at, prev, seq, process, audit>>

\* Any other round trip fails: the open transaction, if any, is rolled back.
QueryFails(r) ==
    /\ "query" \in Faults
    /\ pc[r] \in {"check", "fetch", "accounts", "insert", "blocked", "sequence", "commit"}
    /\ Return(r, Empty("Validation"))
    /\ UNCHANGED <<db, inactive, at, prev, seq, process, audit>>

\* The pool has no connection to give for acquire_timeout: the query fails like any
\* other, and so does that for the head.  (Without a timeout, it would wait on.)
NeverTimesOut(r) == pc[r] = "none" /\ UNCHANGED vars
PoolTimesOut(r) ==
    /\ pc[r] \in {"check", "fetch", "accounts", "head", "insert", "sequence"}
    /\ ~ConnectionFree(at[r])
    /\ IF pc[r] = "head"
       THEN Goto(r, "insert") /\ prev' = [prev EXCEPT ![r] = GENESIS_HASH] /\ UNCHANGED resp
       ELSE Return(r, Empty("Validation")) /\ UNCHANGED prev
    /\ UNCHANGED <<db, inactive, at, seq, process, audit>>

\* The cached record of a new posting; a slip would be to cache the old head.
RecordWithOldHead(r) == [hash_head |-> prev[r], entries |-> Created(r)]
RecordOf(r) == [hash_head |-> NewHead(r), entries |-> Created(r)]

\* The critical section after the commit: the cache follows the database.
UpdateCache(r) ==
    /\ pc[r] = "cache"
    /\ cache' = [cache EXCEPT ![at[r]] =
                    [postings |-> Insert(@.postings, Id(r), RecordOf(r)),
                     entries  |-> @.entries \o Created(r),
                     sequence |-> seq[r] + Len(Payload[r].entries),
                     global_chain_head |-> NewHead(r)]]
    /\ Goto(r, "audit")
    /\ UNCHANGED <<db, inactive, at, prev, seq, resp, phase, loaded, audit>>

EventWithOldHead(r) == [posting_id |-> Id(r), entry_ids |-> NewIds(r),
                        hash_head  |-> prev[r]]
EventOf(r) == [posting_id |-> Id(r), entry_ids |-> NewIds(r), hash_head |-> NewHead(r)]

\* AuditSink::emit spawns the send; with no producer it would spawn nothing.
EmitNothing(r) == outbox
Emit(r) == outbox \cup {<<at[r], EventOf(r)>>}

\* Record the event, spawn the task that sends it, answer the caller.
AuditAndReturn(r) ==
    /\ pc[r] = "audit"
    /\ audit_events' = [audit_events EXCEPT ![at[r]] = Append(@, EventOf(r))]
    /\ outbox' = Emit(r)
    /\ Return(r, [kind |-> "created", entry_ids |-> NewIds(r), hash_head |-> NewHead(r)])
    /\ UNCHANGED <<db, inactive, at, prev, seq, process, topic>>

\* The spawned task: the send succeeds, or its error is dropped.
Send(o) ==
    /\ o \in outbox
    /\ outbox' = outbox \ {o}
    /\ topic' = topic \cup {o[2]}
    /\ UNCHANGED <<db, inactive, calls, process, audit_events>>

SendFails(o) ==
    /\ "kafka" \in Faults
    /\ o \in outbox
    /\ outbox' = outbox \ {o}
    /\ UNCHANGED <<db, inactive, calls, process, audit_events, topic>>

-----------------------------------------------------------------------------
(* The life of a process.                                                  *)

\* Its requests get no answer, open transactions are rolled back, memory is lost.
Crash(p) ==
    /\ "crash" \in Faults
    /\ phase[p] \notin {"down", "halted"}
    /\ phase' = [phase EXCEPT ![p] = "down"]
    /\ loaded' = [loaded EXCEPT ![p] = <<>>]
    /\ cache' = [cache EXCEPT ![p] = EmptyState]
    /\ audit_events' = [audit_events EXCEPT ![p] = <<>>]
    /\ outbox' = {o \in outbox : o[1] # p}
    /\ pc' = [r \in Requests |-> IF r \in InFlight /\ at[r] = p THEN "lost" ELSE pc[r]]
    /\ UNCHANGED <<db, inactive, at, prev, seq, resp, topic>>

\* hydrate, first query of interest: the entries in order.
HydrateEntries(p) ==
    /\ phase[p] = "down"
    /\ \E tie \in TieBreaks : loaded' = [loaded EXCEPT ![p] = InOrder(entries, tie)]
    /\ phase' = [phase EXCEPT ![p] = "hydrating"]
    /\ UNCHANGED <<db, inactive, calls, cache, audit>>

\* hydrate, later query: the postings, joined with the entries read before; then
\* the whole state is installed under the lock.
HydratePostings(p) ==
    /\ phase[p] = "hydrating"
    /\ LET rows == loaded[p]
       IN  cache' = [cache EXCEPT ![p] =
                [postings |-> [id \in DOMAIN postings |->
                                 [hash_head |-> postings[id],
                                  entries   |-> SelectSeq(rows, LAMBDA e : e.posting_id = id)]],
                 entries  |-> rows,
                 sequence |-> LastNumber(ToSet(rows)),
                 global_chain_head |-> global_head(rows)]]
    /\ loaded' = [loaded EXCEPT ![p] = <<>>]
    /\ phase' = [phase EXCEPT ![p] = "verifying"]
    /\ UNCHANGED <<db, inactive, calls, audit>>

\* verify_chain_at_startup reads the entries again; a broken chain ends the
\* process, and whatever restarts it meets the same chain.
VerifyAtStartup(p) ==
    /\ phase[p] = "verifying"
    /\ \E tie \in TieBreaks :
          phase' = [phase EXCEPT ![p] =
                       IF verify_chain(InOrder(entries, tie)) THEN "up" ELSE "halted"]
    /\ UNCHANGED <<db, inactive, calls, loaded, cache, audit>>

\* External: an operator sets an account's status to something else than ACTIVE.
Deactivate(a) ==
    /\ "deactivate" \in Faults
    /\ a \in DOMAIN AccountTable \ inactive
    /\ inactive' = inactive \cup {a}
    /\ UNCHANGED <<db, calls, process, audit>>

-----------------------------------------------------------------------------
Step(r) ==
    \/ CheckExisting(r) \/ FetchExisting(r) \/ CheckAccounts(r) \/ ReadHead(r)
    \/ InsertPosting(r) \/ Unblock(r) \/ ReadSequence(r) \/ Commit(r)
    \/ PoolTimesOut(r) \/ UpdateCache(r) \/ AuditAndReturn(r)
Boot(p) == HydrateEntries(p) \/ HydratePostings(p) \/ VerifyAtStartup(p)
Failure(r) == HeadReadFails(r) \/ CommitUnacknowledged(r) \/ QueryFails(r)

\* Everything but the death of a process.
Serve ==
    \/ \E r \in Requests : \/ \E p \in Replicas : Start(r, p)
                           \/ Step(r)
                           \/ Failure(r)
    \/ \E o \in outbox : Send(o) \/ SendFails(o)
    \/ \E p \in Replicas : Boot(p)
    \/ \E a \in DOMAIN AccountTable : Deactivate(a)

Next == Serve \/ \E p \in Replicas : Crash(p)

Spec == Init /\ [][Next]_vars

\* A request that has been started is given its turns by the runtime and the
\* database, its wait for a connection is timed, a send task is polled, a stopped
\* process is restarted.  Nothing obliges a caller to submit, or the environment to
\* fail.
FairSpec == /\ Spec
            /\ \A r \in Requests : WF_vars(Step(r))
            /\ \A p \in Replicas : WF_vars(Boot(p))
            /\ WF_vars(\E o \in outbox : Send(o))

-----------------------------------------------------------------------------
Steps == {"new", "check", "fetch", "accounts", "head", "insert", "blocked",
          "sequence", "commit", "cache", "audit", "done", "lost"}
EntryIds == Requests \X Nat
HashLines == [salt : {Salt},
              canonical : [entry_id : EntryIds, account_id : STRING,
                           direction : Direction, amount : Nat, asset : STRING]]
Hashes == Seq(HashLines)
EntryRecords == [entry_id : EntryIds, posting_id : Ids, account_id : DOMAIN AccountTable,
                 direction : Direction, amount : Nat, asset : DOMAIN ASSET_REGISTRY,
                 sequence_number : Nat, prev_hash : Hashes, this_hash : Hashes]
Responses == [kind : {"none", "created", "replayed", "Validation", "Unbalanced"},
              entry_ids : Seq(EntryIds), hash_head : Hashes]

TypeOK ==
    /\ DOMAIN postings \subseteq Ids /\ \A id \in DOMAIN postings : postings[id] \in Hashes
    /\ entries \subseteq EntryRecords
    /\ DOMAIN hash_chain = DOMAIN postings
    /\ inactive \subseteq DOMAIN AccountTable
    /\ pc \in [Requests -> Steps] /\ at \in [Requests -> Replicas \cup {None}]
    /\ prev \in [Requests -> Hashes] /\ seq \in [Requests -> Nat]
    /\ resp \in [Requests -> Responses]
    /\ phase \in [Replicas -> {"up", "down", "hydrating", "verifying", "halted"}]
    /\ \A p \in Replicas : /\ loaded[p] \in Seq(EntryRecords)
                           /\ cache[p].entries \in Seq(EntryRecords)
                           /\ cache[p].global_chain_head \in Hashes
                           /\ cache[p].sequence \in Nat

\* A posting is in the database whole or not at all, as one request built it: its
\* rows are that request's lines, numbered without gap, its head and its anchor
\* are the hash of the last of them; no row is without its posting (the
\* transaction of post_via_db).
PostingsWhole ==
    /\ \A e \in entries : e.posting_id \in DOMAIN postings
    /\ \A id \in DOMAIN postings : \E r \in Requests :
          /\ Id(r) = id
          /\ RowsOf(id) = ToSet(Created(r))
          /\ hash_chain[id] = postings[id]
          /\ \E e \in RowsOf(id) : /\ e.sequence_number = LastNumber(RowsOf(id))
                                  /\ e.this_hash = postings[id]

\* Double entry survives concurrent writers and every failure: in each asset the
\* balances of all accounts cancel out, although requests are sent that balance in
\* total only, and transactions end after any of their steps (post, balance_from_db).
TrialBalance ==
    \A asset \in DOMAIN ASSET_REGISTRY :
        MapThenSumSet(LAMBDA a : compute_balance(entries, a, asset),
                      DOMAIN AccountTable) = 0

\* A caller with a result holds the one that is stored: whatever replica answered,
\* by whatever path, and whatever failed in between (post_via_db).
AnswersDurable ==
    \A r \in Requests : resp[r].kind \in {"created", "replayed"} =>
        /\ Id(r) \in DOMAIN postings
        /\ resp[r].entry_ids = IdsInOrder(RowsOf(Id(r)))
        /\ resp[r].hash_head = postings[Id(r)]
        /\ resp[r].kind = "created" =>
              \A s \in Requests : Id(s) = Id(r) /\ resp[s].kind = "created" => s = r

\* Concurrent writers may fork the chain but never detach it: every posting links
\* on to the end of the empty ledger or of another whole posting, and the links
\* inside it verify.  So every hash commits to a history of whole postings.
ChainIsATree ==
    \A e \in entries :
        /\ LinkOK(e, e.prev_hash)
        /\ \/ e.prev_hash = GENESIS_HASH
           \/ \E x \in entries :
                 /\ x.this_hash = e.prev_hash
                 /\ x.posting_id # e.posting_id => x.this_hash = postings[x.posting_id]

\* No two committed entries follow the same one: no posting started from a head that
\* another one had already continued.
Unforked == \A e, x \in entries : e.prev_hash = x.prev_hash => e = x

\* A fork is the only thing that breaks the chain.  As long as there is none, and for no
\* longer, it verifies in every order the query may return and rows are numbered 1, 2,
\* 3...: the number a request reads after its head goes with it, or its commit forks.  So
\* a start is refused after a fork only (last_entry_hash_from_db, next_sequence_from_db,
\* verify_chain_at_startup).
OnlyForksBreakTheChain ==
    /\ Unforked <=> \A tie \in TieBreaks : verify_chain(InOrder(entries, tie))
    /\ Unforked => {e.sequence_number : e \in entries} = 1..Cardinality(entries)
    /\ \A p \in Replicas : phase[p] = "halted" => ~Unforked

\* No step changes or removes what has been committed (post_via_db).
DbAppendOnly ==
    [][/\ entries \subseteq entries'
       /\ \A id \in DOMAIN postings :
             /\ id \in DOMAIN postings'
             /\ postings'[id] = postings[id]
             /\ hash_chain'[id] = hash_chain[id]
             /\ RowsOf(id)' = RowsOf(id)]_vars

Emitted == topic \cup {o[2] : o \in outbox}
Recorded == UNION {ToSet(audit_events[p]) : p \in Replicas}

\* What the audit trail says is true and said once: every event, sent, on its way
\* or recorded in memory, is of a committed posting with its entries and head, and
\* no posting has two (post_via_db, AuditSink::emit).
AuditIsTrue ==
    /\ \A e \in Emitted \cup Recorded :
          /\ e.posting_id \in DOMAIN postings
          /\ e.hash_head = postings[e.posting_id]
          /\ e.entry_ids = IdsInOrder(RowsOf(e.posting_id))
    /\ \A p, q \in Replicas : \A i \in DOMAIN audit_events[p], j \in DOMAIN audit_events[q] :
          audit_events[p][i].posting_id = audit_events[q][j].posting_id => p = q /\ i = j

\* A process that serves requests never shows what the database does not have: its
\* cached entries are committed rows, each once, and cached heads are the stored
\* ones (UpdateCache after the commit, hydrate).
CacheIsCommitted ==
    \A p \in Replicas :
        /\ ToSet(cache[p].entries) \subseteq entries
        /\ \A i, j \in DOMAIN cache[p].entries :
              cache[p].entries[i] = cache[p].entries[j] => i = j
        /\ \A id \in DOMAIN cache[p].postings :
              /\ id \in DOMAIN postings
              /\ cache[p].postings[id].hash_head = postings[id]

\* Every request that has been taken up comes to an end, with an answer or with the
\* death of its process: no wait on another transaction lasts for ever, nor one for
\* a connection while all are held by requests that wait for a second one.
RequestsEnd ==
    \A r \in Requests : pc[r] = "check" ~> pc[r] \in {"done", "lost"}

\* As long as no process dies and no send fails, every posting that was
\* acknowledged as created reaches the audit topic.
AcknowledgedIsAudited ==
    \A r \in Requests : resp[r].kind = "created" ~> EventOf(r) \in topic

-----------------------------------------------------------------------------
(* The database implements the journal of the in-memory store: the booked  *)
(* request is the one whose rows are committed.                            *)
Booker(id) ==
    IF id \in DOMAIN postings
    THEN (CHOOSE e \in RowsOf(id) : TRUE).entry_id[1]
    ELSE None
AnswerOf(r) ==
    CASE resp[r].kind = "none" -> [what |-> "nothing", by |-> None]
      [] resp[r].kind \in {"created", "replayed"} ->
            [what |-> "booked", by |-> resp[r].entry_ids[1][1]]
      [] OTHER -> [what |-> "refused", by |-> None]

J == INSTANCE Journal WITH
        IdOf       <- [r \in Requests |-> Id(r)],
        Admissible <- {r \in Requests : PostError(Payload[r]) = "none"},
        Nobody     <- None,
        book       <- [id \in Ids |-> Booker(id)],
        answer     <- [r \in Requests |-> AnswerOf(r)]

\* Concurrent, distributed and failing, the service still keeps the journal's
\* promise: an id is booked once, by an admissible request, and every answer names
\* the booked one (post_via_db).
RefinesJournal == J!Spec

-----------------------------------------------------------------------------
(* Statements of the repository that the code does not keep; see README.md.*)

\* store.rs "DB is the source of truth", README.md:91: the chain links each entry
\* to the previous entry, so verification succeeds at any time.
ChainNeverForks == \A tie \in TieBreaks : verify_chain(InOrder(entries, tie))

\* README.md:78-80: a duplicate submission returns the original result.
DuplicateReturnsOriginal ==
    \A r \in Requests :
        /\ pc[r] = "done"
        /\ \E s \in Requests : s # r /\ Payload[s] = Payload[r] /\ resp[s].kind = "created"
        => resp[r].kind \in {"created", "replayed"}

\* PROJECT_PLAN.md:287: every committed posting produces exactly one audit event.
\* Under fairness each committed posting's event is eventually in the topic.
EveryPostingAudited ==
    \A id \in Ids : id \in DOMAIN postings ~> \E e \in topic : e.posting_id = id
=============================================================================
