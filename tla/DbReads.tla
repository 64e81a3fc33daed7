------------------------------- MODULE DbReads -------------------------------
(***************************************************************************)
(* The calls of a store with a pool that read the database in several      *)
(* queries, without a transaction around them: the snapshot writer, the    *)
(* balance from a snapshot, a page of a statement, the sum of the user     *)
(* accounts, postings with their entries.  Between two queries of a call   *)
(* requests of DbStore commit, and the call never knows.                   *)
(*                                                                         *)
(* A call is the list of the queries it still has to ask and what it got   *)
(* for those it has asked.  A query is a tuple that begins with its kind.  *)
(***************************************************************************)
EXTENDS DbStore

CONSTANTS
    Callers,    \* tasks that read: a handler's, the snapshot task's
    Asked,      \* the <<account_id, asset>> they ask for
    Limit,      \* entries on a page
    Failing,    \* kinds of queries that may fail
    MaxNow      \* bound: seconds that pass

ASSUME LimitAssumption == Limit \in Nat \ {0} /\ MaxNow \in Nat
ASSUME AskedAssumption == \A pair \in Asked : pair[1] # None

VARIABLES
    balance_snapshots,  \* committed rows: <<account_id, asset, as_of_ts>> -> [balance, last_entry_id]
    now,                \* the clock, in the seconds of now_iso
    call,               \* caller -> the call it makes
    walk,               \* a client that reads a statement page by page
    past                \* every set of rows that entries has held, for the properties

reading == <<balance_snapshots, now, call, walk>>
store == <<vars, past>>

-----------------------------------------------------------------------------
(* The queries.  Each is the set of results the database may give now.     *)

AccountRows(account_id, asset) ==
    {e \in entries : e.account_id = account_id /\ (asset = "" \/ e.asset = asset)}

NoEntryId == <<None, 0>>
SequenceOf(entry_id) == LastNumber({e \in entries : e.entry_id = entry_id})

\* SELECT DISTINCT account_id, asset FROM entries.  The pairs are treated one by one
\* and alike, so some order will do.
PairsQuery == {SetToSeq({<<e.account_id, e.asset>> : e \in entries})}

\* ORDER BY sequence_number DESC LIMIT 1, of one account and asset (and without its
\* WHERE clause).
LastEntryOfAll(account_id, asset) ==
    IF entries = {} THEN {NoEntryId} ELSE {e.entry_id : e \in LastRows}
LastEntryQuery(account_id, asset) ==
    LET rows == AccountRows(account_id, asset)
    IN  IF rows = {} THEN {NoEntryId}
        ELSE {e.entry_id : e \in {x \in rows : x.sequence_number = LastNumber(rows)}}

\* ORDER BY as_of_ts DESC LIMIT 1: the key of the newest snapshot.
NoKey == <<>>
LatestQuery(account_id, asset) ==
    LET keys == {k \in DOMAIN balance_snapshots :
                    k[1] = account_id /\ (asset = "" \/ k[2] = asset)}
    IN  IF keys = {} THEN {NoKey}
        ELSE {k \in keys : \A x \in keys : x[3] <= k[3]}

\* The entries after last_sequence, summed.
DeltaQuery(account_id, asset, last_sequence) ==
    {compute_balance({e \in entries : e.sequence_number > last_sequence}, account_id, asset)}

\* The entries after the cursor in order, one more than the page shows.
PageQuery(account_id, cursor) ==
    LET rows == {e \in AccountRows(account_id, "") : e.sequence_number > cursor}
    IN  {SubSeq(InOrder(rows, tie), 1, Min({Limit + 1, Cardinality(rows)})) : tie \in TieBreaks}

\* Which accounts the sum of the users' funds is over; all would be too many.
EveryAccount(asset) == {SetToSeq(DOMAIN AccountTable)}
CustodialQuery(asset) ==
    {SetToSeq({a \in DOMAIN AccountTable : AccountTable[a] = "user_custodial"})}

\* At most limit of the postings asked for, in some order: ORDER BY created_at, of which
\* the model has none.
PostingsQuery(ids, limit) ==
    LET found == ids \cap DOMAIN postings
    IN  {SetToSeq(S) : S \in {T \in SUBSET found :
                                 Cardinality(T) = Min({limit, Cardinality(found)})}}

Results(q) ==
    CASE q[1] = "pairs"     -> PairsQuery
      [] q[1] = "balance"   -> {compute_balance(entries, q[2], q[3])}
      [] q[1] = "last"      -> LastEntryQuery(q[2], q[3])
      [] q[1] = "exists"    -> {q[2] \in DOMAIN AccountTable}
      [] q[1] = "latest"    -> LatestQuery(q[2], q[3])
      [] q[1] = "sequence"  -> {SequenceOf(q[4])}
      [] q[1] = "delta"     -> DeltaQuery(q[2], q[3], q[4])
      [] q[1] = "page"      -> PageQuery(q[2], q[3])
      [] q[1] = "custodial" -> CustodialQuery(q[2])
      [] q[1] = "postings"  -> PostingsQuery(q[2], q[3])
      [] q[1] = "entries"   -> {IdsInOrder(RowsOf(q[2]))}

-----------------------------------------------------------------------------
(* The calls: which queries they ask, in which order.                      *)

\* write_snapshots, for one account and asset.  (Or the last entry first, then the
\* balance.)
LastEntryFirst(pair) == << <<"last", pair[1], pair[2]>>, <<"balance", pair[1], pair[2]>>,
                           <<"insert", pair[1], pair[2]>> >>
SnapshotQueries(pair) == << <<"balance", pair[1], pair[2]>>, <<"last", pair[1], pair[2]>>,
                            <<"insert", pair[1], pair[2]>> >>

\* The same for every pair, one after the other.
AllSnapshots(pairs) ==
    [i \in 1..3 * Len(pairs) |->
        SnapshotQueries(pairs[1 + ((i - 1) \div 3)])[1 + ((i - 1) % 3)]]

\* balance_via_snapshot begins with latest_snapshot.
ViaQueries(pair) == << <<"exists", pair[1]>>, <<"latest", pair[1], pair[2]>> >>

\* ledger and ledger_page_from_db: the page, then the balance of all assets.
BalanceFirst(account_id, cursor) ==
    << <<"exists", account_id>>, <<"balance", account_id, "">>, <<"page", account_id, cursor>> >>
PageQueries(account_id, cursor) ==
    << <<"exists", account_id>>, <<"page", account_id, cursor>>, <<"balance", account_id, "">> >>

\* get_posting; the entries could also be read before the posting.
EntriesFirst(id) == << <<"entries", id>>, <<"postings", {id}, 1>> >>
PostingQueries(id) == << <<"postings", {id}, 1>>, <<"entries", id>> >>

\* What is still to be asked once q has given res; todo was left before.
Following(op, q, res, todo) ==
    CASE q[1] = "pairs"     -> AllSnapshots(res)
      [] q[1] = "exists"    -> IF res THEN todo ELSE <<>>
      [] q[1] = "latest"    -> IF res = NoKey THEN << <<"balance", q[2], q[3]>> >>
                               ELSE << <<"sequence", q[2], q[3], balance_snapshots[res].last_entry_id>> >>
      [] q[1] = "sequence"  -> << <<"delta", q[2], q[3], res>> >>
      [] q[1] = "custodial" -> [i \in DOMAIN res |-> <<"balance", res[i], q[2]>>]
      [] q[1] = "postings"  -> CASE op = "list_postings" -> [i \in DOMAIN res |-> <<"entries", res[i]>>]
                                 [] op = "get_posting" /\ res = <<>> -> <<>>
                                 [] OTHER -> todo
      [] OTHER -> todo

\* The same when q has failed: the call gives up, or takes the failure for an
\* answer and goes on (ok, unwrap_or, unwrap_or_default, let _).
FollowingError(q, todo) ==
    CASE q[1] \in {"pairs", "exists", "page", "custodial", "postings"} -> <<>>
      [] q[1] \in {"latest", "sequence"} -> << <<"balance", q[2], q[3]>> >>
      [] OTHER -> todo

\* What the code makes of a failed query (unwrap_or).
Default(kind) == CASE kind = "balance" -> 0
                   [] kind = "last"    -> NoEntryId
                   [] OTHER            -> <<>>

-----------------------------------------------------------------------------
Idle == [op |-> "none", at |-> None, todo |-> <<>>, got |-> <<>>, since |-> {}]
Busy(c) == call[c].op # "none"

ReadsInit == /\ Init
             /\ balance_snapshots = <<>>
             /\ now = 0
             /\ call = [c \in Callers |-> Idle]
             /\ walk = [account |-> None, cursor |-> 0, seen |-> {}, done |-> FALSE]
             /\ past = {entries}

\* A call begins; for the sake of two properties, those that answer with a sum note the
\* entries there were.
AnswersWithSum == {"user_custodial_sum", "balance_via_snapshot"}
Begin(c, op, todo) ==
    /\ ~Busy(c)
    /\ \E p \in Replicas :
          /\ phase[p] = "up"
          /\ call' = [call EXCEPT ![c] = [op |-> op, at |-> p, todo |-> todo, got |-> <<>>,
                                          since |-> IF op \in AnswersWithSum THEN entries ELSE {}]]
    /\ UNCHANGED <<store, balance_snapshots, now>>

WriteSnapshots(c) == Begin(c, "write_snapshots", << <<"pairs">> >>) /\ UNCHANGED walk
BalanceViaSnapshot(c) ==
    \E pair \in Asked : Begin(c, "balance_via_snapshot", ViaQueries(pair)) /\ UNCHANGED walk
UserCustodialSum(c) ==
    \E asset \in {pair[2] : pair \in Asked} :
        Begin(c, "user_custodial_sum", << <<"custodial", asset>> >>) /\ UNCHANGED walk
GetPosting(c) == \E id \in Ids : Begin(c, "get_posting", PostingQueries(id)) /\ UNCHANGED walk
ListPostings(c) ==
    \E limit \in 1..Cardinality(Ids) :
        Begin(c, "list_postings", << <<"postings", Ids, limit>> >>) /\ UNCHANGED walk

\* The client asks for the first page of an account, or for the one its cursor names.
Ledger(c) ==
    /\ ~walk.done
    /\ \E account_id \in IF walk.account = None THEN {pair[1] : pair \in Asked}
                         ELSE {walk.account} :
          /\ Begin(c, "ledger", PageQueries(account_id, walk.cursor))
          /\ walk' = [walk EXCEPT !.account = account_id]

\* Where a call has got something for a query of a kind; the last of it.
Got(c, kind) == {i \in DOMAIN call[c].got : call[c].got[i].q[1] = kind}
LastGot(c, kind) == call[c].got[Max(Got(c, kind))]
NothingFailed(c) == \A i \in DOMAIN call[c].got : call[c].got[i].ok

\* The next query of the call, on a connection of the pool.
Ask(c) ==
    /\ call[c].todo # <<>>
    /\ LET q == Head(call[c].todo)
       IN  /\ q[1] # "insert"
           /\ \E res \in Results(q) :
                 call' = [call EXCEPT
                    ![c].got  = Append(@, [q |-> q, ok |-> TRUE, is |-> res]),
                    ![c].todo = Following(call[c].op, q, res, Tail(@))]
    /\ UNCHANGED <<store, balance_snapshots, now, walk>>

\* It fails, or the pool has no connection for it in time.  (Bound: one failure a call,
\* or a snapshot.)
AskFails(c) ==
    /\ call[c].todo # <<>> /\ NothingFailed(c)
    /\ LET q == Head(call[c].todo)
       IN  /\ q[1] \in Failing
           /\ call' = [call EXCEPT
                 ![c].got  = Append(@, [q |-> q, ok |-> FALSE, is |-> Default(q[1])]),
                 ![c].todo = FollowingError(q, Tail(@))]
    /\ UNCHANGED <<store, balance_snapshots, now, walk>>

\* now_iso, then INSERT INTO balance_snapshots ... ON CONFLICT (account_id, asset,
\* as_of_ts) DO NOTHING.  Nothing else looks at the clock, so it moves here.
InsertSnapshot(c) ==
    /\ call[c].todo # <<>>
    /\ Head(call[c].todo)[1] = "insert"
    /\ now' \in now..MaxNow
    /\ LET q   == Head(call[c].todo)
           key == <<q[2], q[3], now'>>
           row == [balance |-> LastGot(c, "balance").is, last_entry_id |-> LastGot(c, "last").is]
       IN  balance_snapshots' = IF key \in DOMAIN balance_snapshots THEN balance_snapshots
                                ELSE Insert(balance_snapshots, key, row)
    /\ call' = [call EXCEPT ![c].todo = Tail(@), ![c].got = <<>>]
    /\ UNCHANGED <<store, walk>>

\* The cursor the page gives: the number of its last entry, if more follow it.  (Or
\* of the one that follows.)
CursorPastNext(rows) == rows[Limit + 1].sequence_number
CursorOf(rows) == rows[Limit].sequence_number

\* The call returns; the client of a statement takes the page.
Answer(c) ==
    /\ Busy(c) /\ call[c].todo = <<>>
    /\ call' = [call EXCEPT ![c] = Idle]
    /\ IF Got(c, "page") # {} /\ LastGot(c, "page").ok
       THEN LET rows == LastGot(c, "page").is
                page == SubSeq(rows, 1, Min({Limit, Len(rows)}))
            IN  walk' = [walk EXCEPT
                    !.seen = @ \cup ToSet(page),
                    !.cursor = IF Len(rows) > Limit THEN CursorOf(rows) ELSE @,
                    !.done = Len(rows) <= Limit]
       ELSE UNCHANGED walk
    /\ UNCHANGED <<store, balance_snapshots, now>>

\* A process that dies is left out: of its calls only the rows they inserted remain, as
\* of a call that never goes on.
ReadsNext ==
    \/ Serve /\ past' = past \cup {entries'} /\ UNCHANGED reading
    \/ \E c \in Callers :
          \/ WriteSnapshots(c) \/ BalanceViaSnapshot(c) \/ UserCustodialSum(c)
          \/ GetPosting(c) \/ ListPostings(c) \/ Ledger(c)
          \/ Ask(c) \/ AskFails(c) \/ InsertSnapshot(c) \/ Answer(c)

ReadsSpec == ReadsInit /\ [][ReadsNext]_<<store, reading>>

-----------------------------------------------------------------------------
ReadsTypeOK ==
    /\ TypeOK
    /\ \A key \in DOMAIN balance_snapshots :
          /\ key[3] \in 0..MaxNow
          /\ balance_snapshots[key].balance \in Int
          /\ balance_snapshots[key].last_entry_id \in
                {e.entry_id : e \in AccountRows(key[1], key[2])} \cup {NoEntryId}
    /\ walk.cursor \in Nat /\ walk.seen \subseteq entries

\* The call is about to return what it has got.
Answering(c, op) == call[c].op = op /\ call[c].todo = <<>>

\* Another entry has the number of this one: two postings drew theirs from the same last
\* number.
SharesItsNumber(e) == \E x \in entries : x # e /\ x.sequence_number = e.sequence_number

\* What a balance from a snapshot has asked for first, and what it answers.
Latest(c) == LastGot(c, "latest")
ViaAnswer(c) == IF Got(c, "delta") = {} THEN LastGot(c, "balance").is
                ELSE balance_snapshots[Latest(c).is].balance + LastGot(c, "delta").is
AnswersVia(c) ==
    Answering(c, "balance_via_snapshot") /\ NothingFailed(c) /\ Got(c, "latest") # {}

\* What is left of "identical results" when others write: a balance from a snapshot
\* counts no entry twice and misses only what was committed between the two queries of
\* write_snapshots (see BalanceIsOfAMoment), and later entries that share their number.
\* It is the balance up to some moment and of what came after a later one.  That is so of
\* a balance in one asset, from a snapshot that names its last entry: the query for it
\* did not fail.
ViaCountsOnce ==
    \A c \in Callers :
        /\ AnswersVia(c)
        /\ Latest(c).q[3] # ""
        /\ Latest(c).is # NoKey => balance_snapshots[Latest(c).is].last_entry_id # NoEntryId
        => \E before, last, end \in past :
              /\ before \subseteq last /\ last \subseteq end /\ call[c].since \subseteq end
              /\ \E since \in SUBSET (end \ last) :
                    /\ \A e \in (end \ last) \ since : SharesItsNumber(e)
                    /\ ViaAnswer(c) = compute_balance(before \cup since,
                                                     Latest(c).q[2], Latest(c).q[3])

\* A client that follows the cursor while concurrent postings go on being committed has
\* seen every entry of its account up to where it is, and what it has not seen, now or
\* ever, lies behind the cursor; only entries that share their number are skipped
\* (ledger_page_from_db; next_cursor is a sequence number, as if it were unique).
WalkMissesOnlyTies ==
    \A e \in AccountRows(walk.account, "") \ walk.seen :
        \/ SharesItsNumber(e)
        \/ /\ e.sequence_number > walk.cursor
           /\ \A x \in walk.seen : x.sequence_number < e.sequence_number

\* The final balance of a page, a query of its own, is that of one moment and
\* covers every entry the page shows, with any number of writers.
PageBalanceCoversPage ==
    \A c \in Callers :
        Answering(c, "ledger") /\ NothingFailed(c) /\ Got(c, "balance") # {} =>
        LET balance == LastGot(c, "balance")
            page    == ToSet(LastGot(c, "page").is)
        IN  \E rows \in past :
                /\ page \subseteq rows
                /\ balance.is = compute_balance(rows, balance.q[2], "")

\* A posting that is shown is shown whole, although its entries are read after it
\* without a transaction (get_posting, list_postings).
PostingViewWhole ==
    \A c \in Callers :
        \/ Answering(c, "get_posting") \/ Answering(c, "list_postings")
        => \A i \in Got(c, "entries") :
              LET view == call[c].got[i]
              IN  view.ok /\ view.q[2] \in ToSet(LastGot(c, "postings").is) =>
                     /\ view.is # <<>>
                     /\ view.is = IdsInOrder(RowsOf(view.q[2]))

\* The sum of the users' funds is made of balances read one by one: each is counted
\* once, as it was at some moment of the call, with any number of writers.  If nothing is
\* committed meanwhile, the sum is exact (user_custodial_sum).
CustodialSumInWindow ==
    \A c \in Callers : Answering(c, "user_custodial_sum") /\ NothingFailed(c) =>
        LET asset == LastGot(c, "custodial").q[2]
            users == {a \in DOMAIN AccountTable : AccountTable[a] = "user_custodial"}
            total == MapThenSumSet(LAMBDA i : call[c].got[i].is, Got(c, "balance"))
        IN  \E rows \in [users -> {S \in past : call[c].since \subseteq S}] :
                total = MapThenSumSet(LAMBDA a : compute_balance(rows[a], a, asset), users)

-----------------------------------------------------------------------------
(* A statement of the repository that the code does not keep; see README.md.*)

\* PROJECT_PLAN.md:228-229: balance queries return identical results whether computed
\* from entries alone or from snapshot + delta.  From entries alone, an answer is the
\* balance there was at some moment of the call.
BalanceIsOfAMoment ==
    \A c \in Callers : AnswersVia(c) =>
        \E rows \in {S \in past : call[c].since \subseteq S} :
            ViaAnswer(c) = compute_balance(rows, Latest(c).q[2], Latest(c).q[3])
=============================================================================
