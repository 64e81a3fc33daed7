# Ledger & accounting service: TLA+ models and proofs

The service (Rust, axum/tonic, Postgres through sqlx, Kafka through rdkafka) keeps a
double-entry ledger whose entries are linked by a hash chain. This directory
models its core in TLA+, model-checks it with TLC on small instances, and proves
theorems about it with TLAPS.

    tlc -workers 4 -config MCDbFaults.cfg MCDbStore     # model-check one run
    tlapm DbStoreProofs.tla                             # check the proofs of one module

`PROJECT.json` lists the components, runs, mutants, findings, hazards and theorems,
and the source lines behind every definition.

## 1. The system

| Component | Where | State | Operations |
|---|---|---|---|
| Chart of accounts, request validation | `chart.rs`, `account.rs`, `asset.rs` | none | `validate`, `find_type`, `direction_allowed`, `asset_class_allowed`, `validate_amount` |
| Hash chain | `posting.rs`, `hashchain.rs` | none | `canonical_bytes`, `compute_hash`, `verify_chain`, `global_head` |
| In-memory store | `store.rs` (`pool = None`) | `LedgerState` behind one mutex: accounts, postings, entries, sequence, audit events, anchors, chain head, snapshots | `create_account`, `post` -> `post_via_memory`, balance, statement, `write_snapshots` |
| Database store | `store.rs` (`pool = Some`) | Postgres tables `accounts`, `postings`, `entries`, `hash_chain`, `balance_snapshots`; a `LedgerState` per process as a cache | `post` -> `post_via_db`, `hydrate`, `run_migrations`, `create_account`, balance, statement, `write_snapshots` |
| Audit sink | `audit.rs` | producer, detached send tasks | `build_event`, `emit` |
| Boot, configuration | `main.rs`, `config.rs`, `migrations/` | process phase, database settings | migrate, hydrate, verify the chain, serve |
| Snapshots | `snapshot.rs`, `store.rs` | `snapshots`, `balance_snapshots` | `write_snapshots`, `balance_via_snapshot` |
| Statements | `store.rs` | none | `get_statement`: pages, cursor, running balance |
| Treasury wrappers | `treasury.rs` | none | `hedge_entry`, `rebalance`: build a posting, call `post` |
| Connection pool | sqlx, `store.rs` | 16 connections per process | lent for each query, to a transaction until it ends |
| REST, gRPC | `handlers.rs`, `grpc.rs` | none | wire formats around the store |
| Service tokens | `authtoken.rs` | none | a stateless check of each request |

**How they interact.** A handler calls `Store::post` on a worker thread. `post` validates
the request without state and then takes one of two paths. `post_via_memory` runs
wholly under the mutex. `post_via_db` makes a dozen database round trips, most of
them on pool connections *outside* its own transaction, then takes the mutex
twice (cache, audit record), and hands the event to a detached task. Several replicas share one
database and nothing else. At boot a process migrates, hydrates its cache and
verifies the chain; a broken chain ends it.

**What is hard.** Requests interleave between round trips, within a replica and across
replicas: the existing posting, the account status, the chain head and the last
sequence number are all read before the commit that relies on them. A process
may die between the commit and the audit record, a commit's acknowledgement may
be lost, a query may fail where the code takes failure for an empty answer, a
duplicate may arrive while the first submission is still uncommitted. A transaction
holds a connection while it asks the pool for another. Reads are made of several queries
without a transaction, so commits fall between them. Several processes may migrate one
database at a time, and a boot may be interrupted after any statement.

**What makes each component correct.**

- validation: only requests balanced in every asset, within limits, on accounts
  that take them;
- hash chain: every entry commits to all entries before it; verification accepts
  what the service wrote, at any time;
- both stores: a posting is stored whole or not at all, once per `posting_id`, for
  ever; every caller who gets a result gets the stored one; balances over all
  accounts cancel out;
- audit: each committed posting has exactly one event, with its entries and head;
- cache: never shows what is not committed;
- scheduling: every request ends, no wait on another transaction lasts for ever;
- boot: a process that serves has verified the chain and runs at the isolation
  it claims; each migration runs once; neither a ledger that was written correctly
  nor an interrupted boot ever stops a start;
- accounts: an id is created once, for one caller, and parents form a tree;
- snapshots: snapshot plus delta equals the full balance;
- statements: following the cursor visits every entry once, and the running
  balance is the account's balance at each entry (the code falls short of that, section 3);
- other reads: a posting is shown whole, a page's final balance covers the page, the sum of
  the users' funds counts every account once;
- treasury: a saga step that was told Ok is on the books as it was meant.

## 2. Modules

| Module | What it is |
|---|---|
| `Accounting` | the pure rules: chart, validation, per-asset balance, entry effects, hash chain |
| `Journal` | abstract specification: what the posting service promises its callers |
| `MemStore` | the in-memory store; implements `Journal` |
| `Treasury` | the wrappers over `MemStore` and the ids they derive |
| `DbStore` | the Postgres store with concurrent requests, replicas, the pool and failures; implements `Journal` |
| `DbReads` | `DbStore` composed with the calls that read it in several queries: snapshots, statements, postings, sums |
| `Startup` | processes that start and stop on one database: configuration, migrations, isolation, the order in which servers open |
| `DbAccounts` | `Startup` composed with concurrent calls of `create_account` |
| `SnapshotStore` | in-memory snapshots: `write_snapshots`, `balance_via_snapshot` |
| `Statement` | in-memory statements: `ledger`, read page by page |
| `MemService` | the composition of `MemStore`, `SnapshotStore` and `Statement` |
| `MC*` | instances for TLC |
| `AccountingProofs` | lemmas only: sequences, running hashes, rows put in order, sums over finite sets, balances, longer chains |
| `MemStoreProofs`, `MemServiceProofs` | theorems about `MemStore`; about `Treasury`, `SnapshotStore`, `Statement` on top of it |
| `DbStoreProofs`, `DbCacheProofs` | theorems about `DbStore`, the second on top of the first |
| `DbReadsProofs` | theorems about `DbReads`, on top of those |
| `DbAccountsProofs` | theorems about `DbAccounts` and `Startup` |

The theorem about `Journal` is in `Journal` itself.

### Accounting

Operators bear the names of the Rust functions. Two abstractions matter.

*Hashes.* SHA-256 is an ideal, injective function: a hash value *is* the history it
commits to, a sequence of salted lines, and `GENESIS_HASH` is the empty history.
`compute_hash` appends a line. The code puts `prev_hash` into the preimage twice
(in `canonical_bytes` and in `compute_hash`); the model keeps it once. A line has exactly
the fields that are hashed, so `posting_id` and `sequence_number` are not in it,
as in the code.

*Entry ids.* `Uuid::now_v7` gives `<<request, line>>`: fresh for every entry, and it tells
the properties which request an entry came from.

`memo`, `ref_tx_id`, `label`, `parent_id` and timestamps carry no rule that is modelled.

### Journal

`book` maps a posting id to the request that booked it, `answer` a request to what its
caller was last told. `Book` needs a free id and an admissible request, and may
leave the caller unanswered or even refused (a lost acknowledgement does that);
`Answer` tells the truth about the book; `Refuse` promises nothing.

### MemStore

One action per call, because each call holds the mutex for its whole body:
`CreateAccount`, and `Post` with its four outcomes `PostRefused`, `PostReplayed`, `PostAccountRefused`,
`PostCreated`. `resp` is what the callers know. Any request may be submitted any number
of times, before and after its accounts exist.

### Treasury

`hedge_entry` and `rebalance` build two lines and call `post`; a caller learns `Ok` or an
error, not which of "booked" and "was there already" it is. So they are operators that
give payloads, and `OkMeansBooked` relates what a caller was told to the rows. Ids are
derived with `\o "_" \o`, as the code does, because the property is about what they tell apart.

### DbStore

A request walks through `pc`:

    new -> check -> accounts -> head -> insert -> sequence -> commit -> cache -> audit -> done
             |                            |  |
             +--> fetch <-----------------+  +--> blocked --> sequence | fetch | done

| Step | Code in `post_via_db` |
|---|---|
| `Start` | `post`: stateless validation |
| `CheckExisting`, `FetchExisting` | SELECT the posting; SELECT it and its entries for the answer |
| `CheckAccounts` | status and direction of every account |
| `ReadHead`, `HeadReadFails` | `last_entry_hash_from_db`, on its own connection; its error becomes the genesis hash |
| `InsertPosting`, `Unblock` | BEGIN; INSERT ... ON CONFLICT DO NOTHING, which waits for an uncommitted row of the same id |
| `ReadSequence` | `next_sequence_from_db`, on its own connection while the transaction is open |
| `Commit`, `CommitUnacknowledged` | inserts of entries and anchor, COMMIT, with or without its acknowledgement |
| `UpdateCache`, `AuditAndReturn` | the two critical sections after the commit, the spawned send, the answer |
| `QueryFails` | `map_err` of any of the queries |
| `PoolTimesOut` | a query that gets no connection within `acquire_timeout` fails; for the head, that too becomes the genesis hash |
| `Send`, `SendFails` | the detached task; its error is dropped |
| `Crash`, `HydrateEntries`, `HydratePostings`, `VerifyAtStartup` | the life of a process |
| `Deactivate` | an operator changes an account's status |

Abstractions, and why they lose nothing the properties see:

- What a transaction inserts is invisible until it commits, so the inserts are one step
  with the commit; the only exception is the unique key of `postings`, on which
  another transaction waits, and `Holders` models that.
- The lookups of several accounts are one step. The status is stale at the commit
  in either case, and one step already shows it.
- The two SELECTs of a replay are one step: a committed posting and its entries
  never change (which `DbAppendOnly` checks) and become visible together.
- Rows with equal `sequence_number` come in an arbitrary order, the same for the rows
  of one posting: `TieBreaks`. This is what `ORDER BY` over a non-unique column permits.
- Isolation levels are a set of which each session runs at any. The boot code
  sets serializable for *new* sessions only, so both levels occur.
- After a lost acknowledgement or a failed commit the error is a `Validation` error, as
  in the code; a crash leaves the caller unanswered (`pc = "lost"`).
- `hydrate` reads accounts, entries, postings, anchors and snapshots in turn; the model
  keeps the two reads whose disagreement can be seen in the cache.
- A replica's pool is the number of connections its open transactions hold (`Held`); a query
  outside of a transaction needs one more for the moment it runs (`ConnectionFree`).
  In the code there are 16, in the runs 2: with three requests all can be held.

### DbReads

A call is the list of the queries it has still to ask and the results it has got; `Ask` takes
one query, `AskFails` makes of a failure what the code does (`unwrap_or(0)`, `.ok()`, give up), and
every step of `DbStore` may come between two of them. `write_snapshots` inserts a row per account
and asset, keyed by a clock of seconds; `ON CONFLICT DO NOTHING` drops a second one in the same second. A
client (`walk`) follows the cursor of a statement. `list_postings` asks for at most `limit` postings; which of them
come first, by creation time, is left open. `Answer` is where a call returns, and the properties
speak of the state just before it.

Any number of requests may be in progress beside the readers. They fork the chain and give two entries one number, so "the entries up to a
number" is not what was there at any moment. To say what was, the history variable `past` collects every set of
rows that `entries` has held; no action reads it.

Left out: the copy of the snapshots in memory, which no path with a pool reads; the order in which Postgres
returns pairs and accounts, which are treated alike; the death of a reading process, after which only its
inserted rows remain, as after a call that never goes on. The clock moves only where it is read.
`balance_via_snapshot` and `reconcile_snapshot` are not wired to any handler; the model calls the
former as a handler would.

### Startup, DbAccounts

`Startup` follows `main` step by step: `assert_isolation` and the pool's first session (`Connect`), the migrations
(`InitSchema`, `InitSchemaEnds`, `SetSerializable`, `ImmutableEntries`), `Hydrate`, the audit sink and the spawned
tasks (`AuditAndSpawn`), gRPC whenever its task gets a turn (`OpenGrpc`), the secret and REST (`ServeRest`).
Migration 1 takes two steps, since several processes may be running it: the first to commit wins, the others meet
its objects or a key of the catalogue, leave migrations 2 and 3 out (`AlreadyApplied`) and may serve while the first is still at work on
these. An environment (`Env`) is what the checks look at, each in its own way: `DEV_MODE=true` satisfies
the audit sink and not the token.

`DbAccounts` adds the calls of `create_account`: validate and BEGIN, INSERT, COMMIT with or without its acknowledgement,
the map. `WithItsCalls` ties both together: hydration fills a process's map, a process that ends loses its
map and its calls. An insert waits for an uncommitted row of the same id, a parent counts once it is committed.

### SnapshotStore, Statement, MemService

`SnapshotStore` and `Statement` extend `MemStore` with the variables and actions of the two
readers that keep state across calls: the background task with its list of snapshots, and
a client with its cursor. `MemService` interleaves them with account creation and postings;
each takes the mutex once per call, so each call is one action. What is checked is always
the relation to the ledger: snapshot plus delta against `compute_balance`, the pages read
so far against the account's entries. The `[from, to]` window of a statement is left out with the
timestamps; a reader may use another page size for every page. `ORDER BY sequence_number` is
`BySequence`: the list in which each row has as many before it as have smaller numbers.

## 3. Runs

Bounds are the constants of the `.cfg` files: requests, accounts, assets with small
maxima, replicas, `Connections`, `MaxInFlight`, `Faults`; `MaxNow` seconds for snapshots, `MaxFailures` deaths in
a deployment. All other data is finite, so nothing else is capped.

| Run | Question | Instance |
|---|---|---|
| `mem` | Do chain, records, anchors, events, balances and answers agree in every state of the in-memory store, and does it implement `Journal`? Is a treasury step that was told Ok booked as meant? | 7 requests over 4 ids meeting every outcome, two of them steps of a saga, 6 account requests |
| `mem_service` | Is snapshot plus delta the balance, and does a statement lose or repeat nothing, however posts, snapshot runs and pages interleave? | 3 postings over 3 accounts and 2 assets, pages of 1 and 2 |
| `db_faults` | Does the database store keep its data whole, its books balanced, its answers, caches and audit trail true under every failure? Does anything but a fork break the chain? Does it implement `Journal`? | 4 requests, 3 in progress at a time: a posting sent twice, one in another asset, one that balances in total only; one replica with 2 connections, all faults, both isolation levels |
| `db_replicas` | Whose posting is it, and what do the caches hold, when a second replica boots while the first one serves? Does every request end, and does every acknowledged posting reach the audit topic? | two different submissions under one id, two replicas, fairness; query, head and commit failures |
| `db_reads` | What do answers made of several queries mean while postings are committed between them? | 2 requests that may overlap: one of three lines, two of them on one user's account, and a transfer between two users; one reader making any sequence of calls, pages of 1 |
| `deployment` | Do migrations run once, whoever boots and dies when? Is an account created once, over both servers and processes? Does a configured process come to serve, and stay? | 2 processes, one with a half-accepted environment, 1 death, 3 calls |

Three requests, two of them under one id, are enough for every two-party race of
`post_via_db` to occur together with a third party: loser against winner, waiter
against holder, and a bystander who moves head and sequence between any two steps. The fourth, balanced in total only,
is there for `TrialBalance`, and the lines in two assets are.
Two entries per posting are enough for a posting to have an inside. In `db_replicas` two requests suffice: replicas share nothing
but the database, and a request that waits for one which holds the id takes, with it, both connections of a pool. In `db_reads`
two postings give every call a moment before, between and after its queries that
differs, and three lines on a page of one make a walk of at least two pages; both requests may read one head and one last number. Its clock
stands still (`MaxNow = 0`): a snapshot is then never replaced by a later one, so that it is as stale as it can be, and a second one in the
same second is dropped, as the code does. Which of several snapshots is the latest is left to the proofs, which hold for any clock. In `deployment`
three calls have a pair that wants one id and a pair that names each other; one death,
next to the exits the processes choose themselves without limit, reaches every
point of the migrations.

What the answers of `db_reads` still mean is weaker than one would like, and the properties say
how far it goes:

- `ViaCountsOnce`: a balance from a snapshot is the balance at some moment plus what came after a
  *later* one. What was committed between the two queries of `write_snapshots` is lost to it until the
  next snapshot, which the plan excludes: `db_snapshot_loss` has that as a violation. Lost are also entries that share their number with another
  one, after a fork. Nothing else is lost and nothing is counted twice. (In the other order of the two queries, it would be.)
- `PageBalanceCoversPage`: the final balance of a page is that of one moment, maybe later than the page.
- `CustodialSumInWindow`: each account counts once, at a moment of its own. The total may be one that
  never was: a transfer between two users, committed between the queries for their balances, is in one of them only.
- `PostingViewWhole`: a posting is shown with all its entries.
- `WalkMissesOnlyTies`: a client that follows the cursor misses no entry, unless another has the same number: a page boundary between the
  two skips the second.

Runs that end in a **violation** state what the repository says and the code does not do:

| Run | Statement | What happens |
|---|---|---|
| `mem_asset_class` | README: asset consistent with the account's definition | a BTC line is booked on an account of class FIAT |
| `db_fork` | README: each entry links to the previous one, no lost updates | two requests read the same head, both commit, verification fails and no replica can start again |
| `db_duplicate` | README: a duplicate returns the original result | at SERIALIZABLE the waiting duplicate gets SQLSTATE 40001, reported as HTTP 400 |
| `db_unaudited` | plan: exactly one audit event per committed posting | lost acknowledgement: the retry is a replay, a replay emits nothing |
| `db_snapshot_loss` | plan: identical results from entries alone and from snapshot + delta; snapshots consistent with the entry sum | a posting committed between the balance query and the last-entry query of `write_snapshots` is behind the snapshot's last entry and not in its balance; `balance_via_snapshot` leaves it out |
| `boot_isolation` | migration 2: the service refuses to boot if isolation is weaker | `assert_isolation` reads an environment variable; the first session of the process that migrates runs at read committed |

More places were found in which the code falls short of its documentation or of what a reader
would expect; they have no run of their own:

- `HeadReadFails` forks the chain without any concurrency (one failed query restarts it at genesis), and so does
  `PoolTimesOut`: a busy pool is enough.
- `Deactivate` after `CheckAccounts` puts entries on an account that is no longer active (README: "exist and are active").
- The running balance of a statement starts at zero on every page and adds up the amounts of all assets, in both stores. So it is a
  balance on the first page of an account with one asset only, while the plan wants "a correct running balance" (171-172), anchored "at the
  latest snapshot at or before `from`" (219-220), and the README statements "with running balance" (70-71). `Statement` has the column as it is
  (`Running`); no property is stated of it.
- The cursor of a statement is a sequence number as if it were unique. After a race in the database it is not (`OnlyForksBreakTheChain`),
  and pages then skip entries: this is what `WalkMissesOnlyTies` leaves room for.
- For asset `""` (all assets) `balance_via_snapshot` adds the snapshot of one asset to the delta of all.
- A failed query of `write_snapshots` becomes a snapshot with balance 0, or without a last entry.
- A process that dies between migration 1 and migrations 2 and 3 leaves a database on which these are never run:
  `ConfiguredServes` holds because later boots skip them, and `MigrationsRunOnce` says "at most once".
- Two processes that start on a new database: the one that loses migration 1 skips 2 and 3 as well, and may serve, and write
  entries, before the other one has created the triggers that keep entries from being changed. `MigrationsRunOnce` says how far that goes.
- `derive_posting_id` gives `("a_b", "c")` and `("a", "b_c")` one id: `OkMeansBooked` is checked for sagas whose steps have ids of
  their own, `OkIsBooked` proves what is left without that.
- The statement's window with a pool compares `created_at` with `to_timestamp` of a text parameter, for which Postgres has no
  such function; this is read off the code, not modelled.

What still holds when the chain forks is `ChainIsATree`: every posting links on to the
end of a whole posting, so every hash still commits to a history of whole postings. And nothing else breaks it
(`OnlyForksBreakTheChain`): as long as no two postings started from one head, the rows are numbered 1, 2, 3... and verify, although head and
number are read one after the other, outside the transaction. The first fork ends this for good, and every later start is refused.

**Deadlock** is checked in `mem`, `mem_service` and `deployment`. The `db_*` runs switch it off because the
system really stops: every request of the instance has ended and nothing is due.

**Fairness.** `FairSpec`: weak fairness of each request's own steps, of each process's boot
steps and of the sends. The runtime polls every task and thread, the database ends
every statement, sqlx times a wait for a connection, an orchestrator restarts a stopped process. Weak fairness suffices, as a waiting request
is enabled as soon as the holder's transaction ended, or, for a connection, at any time (it gets one or times out).
`DeploymentSpec`: weak fairness of each process's steps of `main`, for the same reasons, and of each call that has begun.
A process that another's migration makes exit starts anew; as the migration commits once, this ends. No fairness is assumed of
callers (`Start`, `CreateByRest`, `CreateByGrpc`), of deaths and failures, of `SendFails`, nor of `OpenGrpc`.

**Mutants.** For every property `PROJECT.json` names a plausible bug in one mapped definition
(a dropped idempotency check, an old head in the event, balance checked in total
instead of per asset, ...) that the property catches in its own run. These operators stand
directly before the definition they mutate and are used nowhere else.

## 4. Proofs

TLAPS proves, for every value of the constants (any requests, payloads, accounts, assets, limits, replicas,
failures, page sizes):

| Module | Theorem | Says |
|---|---|---|
| `Journal` | `JournalKeepsItsWord` | `Spec => [](TypeOK /\ AnswerIsBooked)` |
| `MemStoreProofs` | `TypeCorrect` | `Spec => []TypeOK` |
| | `ChainAlwaysVerifies` | `Spec => []ChainVerifies` |
| | `RecordsAgree` | `Spec => []RowsAgree` |
| | `NothingChanges` | `Spec => AppendOnly` |
| | `OneResult` | `Spec => []OneResultPerPosting` |
| | `BooksBalance` | `Spec => []TrialBalance` |
| | `OneEventPerPosting` | `Spec => []AuditMirrorsPostings` |
| | `ImplementsJournal` | `Spec => RefinesJournal` |
| | `StoreKeepsItsWord` | `Spec => []J!AnswerIsBooked`, through the refinement |
| `MemServiceProofs` | `OkIsBooked` | in every state, a treasury call that was told Ok has its own lines booked, or a request with the same id and other lines has its place (`BookedOrTaken`) |
| | `SnapshotsStayReconcilable` | `ServiceSpec => []SnapshotsReconcile` |
| | `SnapshotBalances` | `ServiceSpec => []SnapshotPlusDelta` |
| | `PagesAlwaysFollowOn` | `ServiceSpec => []PagesFollowOn` |
| | `LastPageAlwaysCompletes` | `ServiceSpec => LastPageCompletes` |
| `DbStoreProofs` | `DbInvHolds` | `Spec => []DbInv`, the inductive invariant of the database |
| | `WholePostings` | `Spec => []PostingsWhole` |
| | `CommittedIsFinal` | `Spec => DbAppendOnly` |
| | `ForksNeverDetach` | `Spec => []ChainIsATree` |
| | `AnswersStayTrue` | `Spec => []AnswersDurable` |
| | `AuditTellsTheTruth` | `Spec => []AuditIsTrue` |
| | `DbImplementsJournal` | `Spec => RefinesJournal` |
| | `DbKeepsItsWord` | `Spec => []J!AnswerIsBooked`, through the refinement |
| `DbCacheProofs` | `CacheShowsCommitted` | `Spec => []CacheIsCommitted` |
| | `DbTypeCorrect` | `Spec => []TypeOK` |
| | `DbBalances` | `Spec => []TrialBalance` |
| | `ForksAlone` | `Spec => []OnlyForksBreakTheChain` |
| `DbReadsProofs` | `ReadsTypeCorrect` | `ReadsSpec => []ReadsTypeOK` |
| | `PostingsShownWhole` | `ReadsSpec => []PostingViewWhole` |
| | `WalkMissesNoOther` | `ReadsSpec => []WalkMissesOnlyTies` |
| | `PageBalanceIsLater` | `ReadsSpec => []PageBalanceCoversPage` |
| | `CustodialSumIsOfMoments` | `ReadsSpec => []CustodialSumInWindow` |
| | `SnapshotsCountOnce` | `ReadsSpec => []ViaCountsOnce` |
| `DbAccountsProofs` | `DeploymentTypeCorrect` | `DeploymentSpec => []DeploymentTypeOK` |
| | `MigrationsOnce` | `DeploymentSpec => []MigrationsRunOnce` |
| | `AccountsCreatedOnce` | `DeploymentSpec => []CreatedOnce` |
| | `CommittedCallsSucceed` | `DeploymentSpec => []CommittedIsCreated` |
| | `ParentsTree` | `DeploymentSpec => []ParentsFormATree` |

### Assumptions

Each `ASSUME` is evaluated by TLC in the runs of its module.

- Limits: `LimitsAssumption`, `RegistryAssumption`, `LimitAssumption` (naturals, a page has room for an entry), `NamesAssumption` (`""` names no asset; to
  the balance queries it means all of them).
- Inputs: `PayloadAssumption`, `AccountRequestsAssumption` (typed requests, as the handlers have parsed them),
  `AskedAssumption` (an account that is asked for has a name),
  `TableAssumption` (the accounts table is finite), `TreasuryAssumption` (treasury calls are requests), `LimitsOfPages` (the page sizes
  `ledger` is asked for).
- `None` stands for nothing: `RequestsAssumption`, `NoneAssumption`, `CursorAssumption`.
- Environment: `FaultsAssumption`, `IsolationAssumption`, `ConnectionsAssumption` (a pool has a connection), `MaxFailuresAssumption`.

One theorem has a hypothesis of its own: `JournalConstants` types the constants of `Journal`; both stores discharge it. The others hold for any number of
replicas, requests in progress, readers and failures. Where the code gives less than one would like, the property says so itself:
`WalkMissesOnlyTies` and `ViaCountsOnce` name the entries that share their number; `ViaCountsOnce` is about a balance in one asset, from a
snapshot that names its last entry (`write_snapshots` has none to name when its query for it failed), of a call whose own queries did not fail.
A query for the *balance* of a snapshot that fails is written as 0, which is the balance of the empty ledger: `{}` is in `past`.

### Arguments

*Journal.* "An answer is true" is not inductive, as `Answer` passes on whatever is
booked; the invariant adds that only admissible requests are booked.

*In-memory store.*

- The chain (`ChainInv`): `ChainVerifies` is inductive together with the type invariant because it
  says, besides that every link verifies, that `global_chain_head` is the hash of the last
  entry and `sequence` its number: exactly what `PostCreated` builds on. `NewEntryLinks` shows that a posting's own
  entries verify on top of any head, `LongerLine` that a chain which they go on from stays one.
- The records (`PostingInv == ChainInv /\ RowsAgree`): one lemma, `NewPosting`, says what
  `PostCreated` does to every variable in the terms the proofs use; later proofs
  cite it. `AppendOnly` and `OneResultPerPosting` follow from it, since
  a known id never reaches `PostCreated`.
- The audit trail (`AuditInv`): that the events come in the order of the chain is inductive once one knows that the chain goes
  on from the head of every event to `global_chain_head`, from which the next posting goes on.
- The refinement: the book of the journal is the request in the first entry id of a posting
  (`Booker`), the answer is read off `resp` (`AnswerOf`). `PostingInv` is needed to know that a stored posting has a
  first entry, so that a replay names a request. `StoreKeepsItsWord` then costs only an instance
  of the journal's theorem.

*Sums.* Balances are `MapThenSumSet`, whose definition folds over a set in an order that `CHOOSE` takes. What `AccountingProofs`
proves of it (`SumRules`: the sum over the empty set, and over a set with one more member) it proves by induction over finite sets,
which it derives from natural numbers and the pigeonhole principle, since the library's induction theorems take an operator.
The rest is rearrangement: the lines of a posting cancel per asset (`NetOfPosting`), so the rows of any set of whole postings do
(`NetOfPostings`), so the balances of all accounts do (`BalancesAddUp`).

*Snapshots.* `SnapshotsReconcile` is inductive beside `ChainInv`: a row that is added later has a higher number than
the last entry of any snapshot, so it changes neither the balance up to that entry nor that it is such an entry. Snapshot plus delta is then the balance of
two disjoint parts of the rows (`BalanceParts`).

*Statements (`StatementInv`).* What has been read is the first `Len(read)` rows of the account in sequence, and the cursor is the number of
the last of them. A posting puts rows behind the others and
leaves the beginning alone (`ListGrows`); a page is the next part of what comes after the cursor (`ListWithoutHead`).

*Database store (`DbInv`).*

- What is in the database was put there whole by one request, which has not built anything else since (`Wrote`), and a
  request between its insert and its commit is the only one there with its id (`OneHolder`): the unique key, as the model's `Holders` shows it. So a
  commit puts a whole posting under a free id beside the others, and `PostingsWhole` and `DbAppendOnly` follow.
- `IsHead`: whatever a request has read as head, by an outdated read or for a failed one, is genesis or the end of a whole
  posting, and stays so as postings are only added. That it is what the query returns rests on `SomeRowIsLast` and `LastRowIsHead`: the row with the highest number
  is the last of its posting. So writers fork the chain without detaching it.
- What is told (`ServiceInv`): answers and events are of stored postings, and stored postings do not change; a posting is recorded
  once, because its request passes `audit` once and no other request wrote it. The order of the entry ids is
  `IdsOfPosting`: the place of a row among those of its posting is its line.
- The refinement is that of the in-memory store, with `Booker` read off the rows; every action is a step of the journal or a
  stutter, also a lost acknowledgement (booked and refused) and a failed replay (refused).
- Memory (`CacheInv`): besides `CacheIsCommitted`, that a posting which is about to be added to the maps of a process is not in
  them (otherwise its rows would show twice), and that the rows `hydrate` has read are committed ones in order. That is where `ORDER BY` needs a proof:
  `Places` ranks a finite set by the number of members before each.
- Forks (`ForkInv`): as long as no two rows follow the same one, there is a list of all rows that verifies and is numbered 1, 2, 3...
  (`OnLine`). A request that is about to commit on top of its end has read the number that goes with it (`ReadBy`): the number is read after the head, and
  a posting committed between the two reads would follow that same end, so that this request's own commit forks the chain (`CommitFollowsEnd`).
  A commit therefore makes the list longer or forks it (`CommitLengthens`, `LineGoesOn`). `LineInOrder` shows that the query has only one order to
  return, `HaltedByFork` that a start which verifies such rows is not refused, `VerifiedIsUnforked` the converse: a hash names its entry
  (`HashNamesEntry`), and so has one successor in a chain that verifies.

*Readers.* A step of a reader leaves the variables of `DbStore` alone, so its theorems hold beside any number of readers
(`ReadsRunTheStore`), and what is known of the store (`StoreSound`) may be used for what the readers know.

- Types (`ReadsTypes`): the row a snapshot is made of comes from the last two results before the insert, so the invariant has to follow the order
  of the queries still to be asked (`InTurn`) through the loop over the pairs, whichever queries fail.
- Postings (`Views`): the postings a call has found are committed, and committed postings neither lose nor gain rows.
- Numbers (`NumberInv`): writers that draw from the same last number give numbers twice, but leave none out (`FillsUp`). So a row that
  is added has a higher number than all there are, or one that some row has already (`NewRowsFollow`), and then it shares it. A page that begins after the cursor
  brings every row up to its end that shares its number with no other (`LoneRows`), and what is added later lies behind it or shares its number (`WalkInv`).
- Moments (`PastInv`): the members of `past` only become more, each is still part of the rows, and none leaves out a number. So each
  balance a call has got stays that of a moment not before the call or the page (`BalanceOf`, `CallsSound`). The custodial sum is then rearranged from
  a sum over results into one over accounts (`SumsAgree`).
- Snapshots (`SnapshotInv`): a row of `balance_snapshots` is the balance of one moment with the last entry of a later one (`SnapshotTrue`), which
  needs the balance to be asked for first (`PairsTrue`). Its entry has a number up to which there is all of the account that the later moment
  has (`NumberTrue`; entry ids are unique, `EntryIdsDiffer`). The delta from there has only rows that came after that moment, and of these all
  but such as share their number, since that moment leaves out no number (`AnswerTrue`, `DeltaAsked`). `ViaAt` follows a call through this; that a
  snapshot is never overwritten (`SnapshotsKept`) keeps what the call has read of it true.

*Deployment (`DeploymentInv`).* `StartupInv` says that migrations 2 and 3 are run by one process at a time (`MigrationsAlone`), that without the tables
nothing after them has been done, and that only a process that came through `main` has an open door. That the triggers are on their way when somebody serves without
them is an invariant beside it (`OnTheWay`): until a process has died, some process runs the migrations as soon as the tables are there and
the triggers are not.
`CallInv` ties a call to the process that serves it and says that no two open transactions hold one id, which is what makes the row of a
call that has committed its own, and that such a call's account is not yet in its process's map. `MapsAreCommitted` says that a map holds only
committed accounts, so the insert of a new row finds it in none; that it stays so until the call puts it there rests on a process not
hydrating while it serves. For `ParentsFormATree` the
step that matters is the commit: a set of accounts without the new one has a root by the invariant, one with it has
the new account itself or, as nobody could name it as parent before, the root of the rest.

### Left to TLC

- Liveness: `RequestsEnd`, `AcknowledgedIsAudited`, `ConfiguredServes`.
- `OkMeansBooked`, for sagas whose steps have ids of their own; the theorem `OkIsBooked` says what holds for any.
- What the runs with an expected violation refute.

Every other property of the runs is stated by a theorem.

## 5. Not modelled, and the plan

Not modelled, and why:

- Reads of one query or one look under the mutex (`get_account`, `list_accounts`, `balance`, `entry_count`, `hash_chain_anchor`): they
  return what is there; what they return is the state the invariants are about.
- The `[from, to]` window of a statement: a filter on timestamps, which no other rule reads.
- Sessions a pool opens later, under load or in place of old ones. `Startup` follows the first; `DbStore` lets
  any request run at either level, which covers them all.
- The death of a process in the middle of a read (`DbReads`), see above.
- Token verification (`authtoken.rs`), stateless; its refusal to start is in `Startup`.
- Tracing, metrics, wire formats, the other values of `Config`. `DB_MAX_CONNECTIONS`, `MAX_ENTRIES_PER_POSTING` and `MAX_AMOUNT` are read
  into it and used nowhere: the limits are constants of `store.rs`.
- `validate_scale` and `max_amount_for` decide nothing that is stored; `last_entry_id_before` and `entries_since` have no caller.

What could come next, in this order:

- An account that is deactivated between `CheckAccounts` and the commit: a bound on how late an entry may still arrive, if the code
  is to promise one.
- `list_postings`, `write_snapshots` and `balance_via_snapshot` under failed queries: the code takes the failure for an answer. It is to be decided what
  the caller should see.
- The running balance of a statement: once the code carries it over from page to page and keeps the assets apart, that it is the balance at each entry.
- The head and the number read inside the transaction that commits on them: then `OnlyForksBreakTheChain` becomes `ChainNeverForks`, and the ties go
  from the properties of the readers.
