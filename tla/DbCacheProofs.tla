---------------------------- MODULE DbCacheProofs ---------------------------
(***************************************************************************)
(* What the processes of the service hold in memory is committed, for      *)
(* every set of requests, replicas, failures and restarts; the types of    *)
(* the whole state; and only a fork breaks the chain.                      *)
(***************************************************************************)
EXTENDS DbStoreProofs

-----------------------------------------------------------------------------
(* ORDER BY sequence_number.                                               *)

\* Every row is one that a request built.
LEMMA RowOfWriter ==
    ASSUME DbInv, NEW e \in entries
    PROVE  \E r \in Requests, k \in Nat :
              /\ Wrote(r) /\ Id(r) = e.posting_id
              /\ e = Created(r)[k] /\ e.entry_id = <<r, k>>
              /\ seq[r] \in Nat /\ e.sequence_number = seq[r] + k
<1>1. PICK r \in Requests : Id(r) = e.posting_id /\ Wrote(r)
  BY DEF DbInv, EveryPostingWritten
<1>2. /\ PostError(Payload[r]) = "none" /\ prev[r] \in Hashes /\ seq[r] \in Nat
      /\ RowsOf(Id(r)) = ToSet(Created(r))
  BY <1>1 DEF Wrote, DbInv, DbTypes
<1> DEFINE n == Len(Payload[r].entries)
<1>3. /\ n \in Nat \ {0} /\ DOMAIN Created(r) = 1..n
      /\ \A k \in 1..n : /\ Created(r)[k].entry_id = EntryId(r, k)
                         /\ Created(r)[k].sequence_number = seq[r] + k
  BY <1>2, Built DEF IsEntry
<1>4. PICK k \in 1..n : e = Created(r)[k]
  <2> HIDE DEF n
  <2> QED BY <1>1, <1>2, <1>3 DEF RowsOf, ToSet
<1>5. e.entry_id = <<r, k>> /\ e.sequence_number = seq[r] + k /\ k \in Nat
  BY <1>3, <1>4 DEF EntryId
<1> QED BY <1>1, <1>2, <1>4, <1>5

\* So a row is known by its number and the request that built it.
LEMMA RowKnown ==
    ASSUME DbInv, NEW e \in entries, NEW x \in entries,
           e.sequence_number = x.sequence_number, e.entry_id[1] = x.entry_id[1]
    PROVE  e = x
<1>1. PICK r \in Requests, k \in Nat :
          /\ e = Created(r)[k] /\ e.entry_id = <<r, k>>
          /\ seq[r] \in Nat /\ e.sequence_number = seq[r] + k
  BY RowOfWriter
<1>2. PICK s \in Requests, l \in Nat :
          /\ x = Created(s)[l] /\ x.entry_id = <<s, l>>
          /\ seq[s] \in Nat /\ x.sequence_number = seq[s] + l
  BY RowOfWriter
<1>3. r = s
  BY <1>1, <1>2
<1> QED BY <1>1, <1>2, <1>3

\* The rows are committed ones, each once, in the order of their numbers.
InSequence(rows) ==
    /\ rows \in Seq(EntryRecords)
    /\ ToSet(rows) \subseteq entries
    /\ \A i, j \in DOMAIN rows :
          i < j => rows[i] # rows[j] /\ rows[i].sequence_number <= rows[j].sequence_number

\* That is what a query for some of the rows returns, whichever way rows with the same
\* number come (hydrate, ledger_page_from_db).
LEMMA InOrderIsInSequence ==
    ASSUME DbInv, IsFiniteSet(entries), NEW S \in SUBSET entries, NEW tie \in TieBreaks
    PROVE  /\ InSequence(InOrder(S, tie))
           /\ Len(InOrder(S, tie)) = Cardinality(S) /\ Cardinality(S) \in Nat
           /\ ToSet(InOrder(S, tie)) = S
<1> DEFINE before(x, e) == \/ x.sequence_number < e.sequence_number
                           \/ /\ x.sequence_number = e.sequence_number
                              /\ tie[x.entry_id[1]] < tie[e.entry_id[1]]
           B == {b \in S \X S : before(b[1], b[2])}
           place(e) == 1 + Cardinality({x \in S : <<x, e>> \in B})
           rows == InOrder(S, tie)
           n == Cardinality(S)
<1>0. IsFiniteSet(S)
  BY FS_Subset
<1>1. /\ \A x \in entries : x \in EntryRecords /\ x.sequence_number \in Nat
      /\ \A x \in entries : tie[x.entry_id[1]] \in Int
      /\ \A x, y \in entries : /\ x.sequence_number = y.sequence_number
                               /\ tie[x.entry_id[1]] = tie[y.entry_id[1]]
                               => x = y
  <2>1. \A x \in entries : x \in EntryRecords /\ x.sequence_number \in Nat
    BY DEF DbInv, DbTypes, EntryRecords
  <2> DEFINE bookers == {e.entry_id[1] : e \in entries}
  <2>2. /\ tie \in [bookers -> 1..Cardinality(bookers)]
        /\ \A r, s \in bookers : tie[r] = tie[s] => r = s
    BY DEF TieBreaks
  <2>3. \A x \in entries : x.entry_id[1] \in bookers
    OBVIOUS
  <2> HIDE DEF bookers
  <2>4. \A r \in bookers : tie[r] \in Int
    BY <2>2
  <2> QED BY <2>1, <2>2, <2>3, <2>4, RowKnown
<1>2. \A x, e \in S : <<x, e>> \in B <=> before(x, e)
  OBVIOUS
<1>3. /\ \A x \in S : ~before(x, x)
      /\ \A x, y, z \in S : before(x, y) /\ before(y, z) => before(x, z)
      /\ \A x, y \in S : x # y => before(x, y) \/ before(y, x)
  BY <1>1
<1>4. /\ n \in Nat
      /\ \A x, y \in S : <<x, y>> \in B => place(x) < place(y)
      /\ \A i \in 1..n : \E e \in S : place(e) = i
  <2>1. /\ \A x \in S : <<x, x>> \notin B
        /\ \A x, y, z \in S : <<x, y>> \in B /\ <<y, z>> \in B => <<x, z>> \in B
        /\ \A x, y \in S : x # y => <<x, y>> \in B \/ <<y, x>> \in B
    <3> HIDE DEF before, B
    <3> QED BY <1>2, <1>3
  <2> HIDE DEF B
  <2>2. Ranked(S, B)
    BY <1>0, <2>1, Places
  <2> QED BY <2>2 DEF Ranked
<1>5. rows = [i \in 1..n |-> CHOOSE e \in S : place(e) = i]
  <2>1. \A e \in S : {x \in S : <<x, e>> \in B} = {x \in S : before(x, e)}
    BY <1>2
  <2>2. \A i \in 1..n : (CHOOSE e \in S : place(e) = i)
                      = (CHOOSE e \in S : 1 + Cardinality({x \in S : before(x, e)}) = i)
    BY <2>1
  <2> QED BY <2>2 DEF InOrder
<1> HIDE DEF rows, place, B, n, before
<1>6. ASSUME NEW i \in 1..n PROVE rows[i] \in S /\ place(rows[i]) = i
  BY <1>4, <1>5
<1>7. /\ rows \in Seq(EntryRecords) /\ DOMAIN rows = 1..n /\ Len(rows) = n /\ n \in Nat
      /\ ToSet(rows) = S
  <2>1. DOMAIN rows = 1..n
    BY <1>5
  <2>2. rows \in [1..n -> EntryRecords]
    BY <1>1, <1>5, <1>6
  <2>3. ToSet(rows) \subseteq S
    BY <1>6, <2>1 DEF ToSet
  <2>4. ASSUME NEW e \in S PROVE e \in ToSet(rows)
    <3>1. Cardinality({rows[k] : k \in 1..n}) = n
      <4>1. \A j, k \in 1..n : rows[j] = rows[k] => j = k
        BY <1>6
      <4> QED BY <1>4, <4>1, Counted
    <3>2. {rows[k] : k \in 1..n} \in SUBSET S
      BY <1>6
    <3>3. {rows[k] : k \in 1..n} = S
      <4>1. n = Cardinality(S)
        BY DEF n
      <4> QED BY <1>0, <3>1, <3>2, <4>1, FS_Subset
    <3> QED BY <2>1, <3>3 DEF ToSet
  <2> QED BY <1>4, <2>1, <2>2, <2>3, <2>4
<1>8. ASSUME NEW i \in 1..n, NEW j \in 1..n, i < j
      PROVE  rows[i] # rows[j] /\ rows[i].sequence_number <= rows[j].sequence_number
  <2>1. rows[i] # rows[j] /\ <<rows[j], rows[i]>> \notin B
    BY <1>4, <1>6, <1>8
  <2>2. before(rows[i], rows[j])
    BY <1>2, <1>3, <1>6, <2>1
  <2> QED BY <1>1, <1>6, <2>1, <2>2 DEF before
<1> QED BY <1>7, <1>8 DEF InSequence, rows, n

-----------------------------------------------------------------------------
(* The maps of a process.                                                  *)

\* What a process that has started shows is committed, each row once; a posting that is
\* about to be added to its maps is not in them yet.
CacheTrue(p) ==
    /\ cache[p].entries \in Seq(EntryRecords)
    /\ cache[p].sequence \in Nat
    /\ cache[p].global_chain_head \in Hashes
    /\ ToSet(cache[p].entries) \subseteq entries
    /\ \A i, j \in DOMAIN cache[p].entries :
          cache[p].entries[i] = cache[p].entries[j] => i = j
    /\ \A id \in DOMAIN cache[p].postings :
          id \in DOMAIN postings /\ cache[p].postings[id].hash_head = postings[id]
    /\ \A r \in Requests : pc[r] = "cache" /\ at[r] = p =>
          \A i \in DOMAIN cache[p].entries : cache[p].entries[i].posting_id # Id(r)

CacheInv ==
    /\ IsFiniteSet(entries)
    /\ inactive \subseteq DOMAIN AccountTable
    /\ cache = [p \in Replicas |-> cache[p]] /\ loaded = [p \in Replicas |-> loaded[p]]
    /\ \A p \in Replicas : InSequence(loaded[p]) /\ CacheTrue(p)

\* A request gets to the critical section by its commit only, before which its id is not
\* in the database.
LEMMA ToTheCache ==
    ASSUME DbInv, [Next]_vars, NEW q \in Requests, pc'[q] = "cache"
    PROVE  at'[q] = at[q] /\ (pc[q] = "cache" \/ Id(q) \notin DOMAIN postings)
<1>1. ASSUME NEW r \in Requests, NEW step, step # "cache", pc' = [pc EXCEPT ![r] = step],
             \A s \in Requests : s # r => at'[s] = at[s]
      PROVE  at'[q] = at[q] /\ pc[q] = "cache"
  BY <1>1 DEF DbInv, DbTypes
<1>2. ASSUME NEW r \in Requests, NEW p \in Replicas, Start(r, p)
      PROVE  at'[q] = at[q] /\ pc[q] = "cache"
  <2>1. /\ \E step : step # "cache" /\ pc' = [pc EXCEPT ![r] = step]
        /\ \A s \in Requests : s # r => at'[s] = at[s]
    BY <1>2 DEF Start, Goto, Return, DbInv, DbTypes
  <2> QED BY <1>1, <2>1
<1>3. ASSUME NEW r \in Requests, Commit(r)
      PROVE  at'[q] = at[q] /\ (pc[q] = "cache" \/ Id(q) \notin DOMAIN postings)
  BY <1>3 DEF Commit, Goto, DbInv, DbTypes, OnItsWay
<1>4. ASSUME NEW r \in Requests, Step(r) \/ Failure(r), ~Commit(r)
      PROVE  at'[q] = at[q] /\ pc[q] = "cache"
  <2>1. at' = at
    BY <1>4 DEF Step, Failure, CheckExisting, FetchExisting, CheckAccounts, ReadHead,
                InsertPosting, Unblock, ReadSequence, PoolTimesOut, UpdateCache,
                AuditAndReturn, HeadReadFails, CommitUnacknowledged, QueryFails
  <2>2. \E step : step # "cache" /\ pc' = [pc EXCEPT ![r] = step]
    <3>1. CASE InsertPosting(r)
      <4>1. \/ Goto(r, "fetch") \/ Goto(r, "blocked") \/ Goto(r, "sequence")
        <5>1. CASE Id(r) \in DOMAIN postings
          BY <3>1, <5>1 DEF InsertPosting
        <5>2. CASE Id(r) \notin DOMAIN postings /\ Holders(Id(r)) # {}
          BY <3>1, <5>2 DEF InsertPosting
        <5>3. CASE Id(r) \notin DOMAIN postings /\ Holders(Id(r)) = {}
          BY <3>1, <5>3 DEF InsertPosting
        <5> QED BY <5>1, <5>2, <5>3
      <4> QED BY <4>1 DEF Goto
    <3>2. CASE ~InsertPosting(r)
      BY <1>4, <3>2 DEF Step, Failure, CheckExisting, FetchExisting, CheckAccounts, ReadHead,
                  Unblock, ReadSequence, PoolTimesOut, UpdateCache,
                  AuditAndReturn, HeadReadFails, CommitUnacknowledged, QueryFails,
                  Goto, Return
    <3> QED BY <3>1, <3>2
  <2> QED BY <1>1, <2>1, <2>2
<1>5. CASE \/ \E o \in outbox : Send(o) \/ SendFails(o)
           \/ \E p \in Replicas : Boot(p)
           \/ \E a \in DOMAIN AccountTable : Deactivate(a)
           \/ UNCHANGED vars
  BY <1>5 DEF Send, SendFails, Boot, HydrateEntries, HydratePostings, VerifyAtStartup,
              Deactivate, calls, vars
<1>6. CASE \E p \in Replicas : Crash(p)
  BY <1>6 DEF Crash
<1> QED BY <1>2, <1>3, <1>4, <1>5, <1>6 DEF Next, Serve

\* Maps that are left alone stay true.
LEMMA CacheStays ==
    ASSUME DbInv, [Next]_vars, NEW p \in Replicas, CacheTrue(p), cache'[p] = cache[p]
    PROVE  CacheTrue(p)'
<1>1. Kept
  BY NextSound DEF Sound
<1>2. \A id \in DOMAIN cache[p].postings :
         id \in DOMAIN postings' /\ cache[p].postings[id].hash_head = postings'[id]
  BY <1>1 DEF Kept, CacheTrue
<1>3. ToSet(cache[p].entries) \subseteq entries'
  BY <1>1 DEF Kept, CacheTrue
<1>4. ASSUME NEW r \in Requests, pc'[r] = "cache", at'[r] = p,
             NEW i \in DOMAIN cache[p].entries
      PROVE  cache[p].entries[i].posting_id # Id(r)
  <2>1. at[r] = p /\ (pc[r] = "cache" \/ Id(r) \notin DOMAIN postings)
    BY <1>4, ToTheCache
  <2>2. cache[p].entries[i].posting_id \in DOMAIN postings
    BY DEF CacheTrue, ToSet, DbInv, EveryPostingWritten
  <2> QED BY <2>1, <2>2 DEF CacheTrue
<1> QED BY <1>2, <1>3, <1>4 DEF CacheTrue, ToSet, Id

\* The rows that are being read stay committed.
LEMMA LoadedStays ==
    ASSUME Kept, NEW p \in Replicas, InSequence(loaded[p]), loaded'[p] = loaded[p]
    PROVE  InSequence(loaded[p])'
<1>1. ToSet(loaded[p]) \subseteq entries'
  BY DEF Kept, InSequence
<1> QED BY <1>1 DEF InSequence, ToSet

\* Nothing read and nothing shown is true of any database.
LEMMA EmptyMaps ==
    ASSUME NEW p \in Replicas
    PROVE  /\ loaded'[p] = <<>> => InSequence(loaded[p])'
           /\ cache'[p] = EmptyState => CacheTrue(p)'
<1>1. <<>> \in Seq(EntryRecords) /\ DOMAIN <<>> = {} /\ ToSet(<<>>) = {}
      /\ GENESIS_HASH \in Hashes
  BY EmptySeq DEF ToSet, GENESIS_HASH, Hashes
<1>2. /\ EmptyState.postings = <<>> /\ EmptyState.entries = <<>>
      /\ EmptyState.sequence = 0 /\ EmptyState.global_chain_head = GENESIS_HASH
  BY DEF EmptyState
<1>3. ASSUME loaded'[p] = <<>> PROVE InSequence(loaded[p])'
  BY <1>1, <1>3 DEF InSequence
<1>4. ASSUME cache'[p] = EmptyState PROVE CacheTrue(p)'
  <2>1. /\ cache'[p].entries = <<>> /\ DOMAIN cache'[p].entries = {}
        /\ ToSet(cache'[p].entries) = {} /\ DOMAIN cache'[p].postings = {}
        /\ cache'[p].sequence = 0 /\ cache'[p].global_chain_head \in Hashes
        /\ cache'[p].entries \in Seq(EntryRecords)
    BY <1>1, <1>2, <1>4
  <2> QED BY <2>1 DEF CacheTrue
<1> QED BY <1>3, <1>4

\* The highest number in a list that is in order is the last one.
LEMMA LastOfList ==
    ASSUME NEW rows, InSequence(rows)
    PROVE  LastNumber(ToSet(rows)) \in Nat /\ global_head(rows) \in Hashes
<1> DEFINE n == Len(rows)
<1>1. rows \in Seq(EntryRecords) /\ n \in Nat /\ DOMAIN rows = 1..n
  BY DEF InSequence
<1>2. CASE rows = <<>>
  BY <1>2, EmptySeq DEF LastNumber, ToSet, global_head, GENESIS_HASH, Hashes
<1>3. CASE rows # <<>>
  <2>1. n \in 1..n
    BY <1>1, <1>3, EmptySeq
  <2>2. \A i \in 1..n : rows[i].sequence_number \in Nat /\ rows[i].this_hash \in Hashes
    <3>1. ASSUME NEW i \in 1..n PROVE rows[i] \in EntryRecords
      <4>1. i \in DOMAIN rows
        BY <1>1, <3>1
      <4> HIDE DEF n
      <4> QED BY <1>1, <4>1
    <3>2. \A e \in EntryRecords : e.sequence_number \in Nat /\ e.this_hash \in Hashes
      BY DEF EntryRecords
    <3> QED BY <3>1, <3>2
  <2> HIDE DEF n
  <2>3. \A i \in 1..n : rows[i].sequence_number <= rows[n].sequence_number
    <3> SUFFICES ASSUME NEW i \in 1..n PROVE rows[i].sequence_number <= rows[n].sequence_number
      OBVIOUS
    <3>1. CASE i = n
      BY <2>1, <2>2, <3>1
    <3>2. CASE i # n
      <4>1. i < n
        BY <1>1, <3>2
      <4> QED BY <1>1, <2>1, <4>1 DEF InSequence
    <3> QED BY <3>1, <3>2
  <2> DEFINE numbers == {e.sequence_number : e \in ToSet(rows)}
  <2>4. rows[n].sequence_number \in numbers /\ numbers # {} /\ ToSet(rows) # {}
    BY <1>1, <2>1 DEF ToSet
  <2>5. \A x \in numbers : x \in Nat /\ rows[n].sequence_number >= x
    BY <1>1, <2>1, <2>2, <2>3 DEF ToSet
  <2>6. Max(numbers) \in numbers
    BY <2>4, <2>5 DEF Max
  <2>7. LastNumber(ToSet(rows)) = Max(numbers)
    BY <2>4 DEF LastNumber
  <2> HIDE DEF numbers
  <2> QED BY <1>3, <2>1, <2>2, <2>5, <2>6, <2>7 DEF global_head, n
<1> QED BY <1>2, <1>3

\* Who touches the maps of a process: a start, its death, and the requests it serves.
LEMMA MapsChange ==
    ASSUME CacheInv, [Next]_vars
    PROVE  /\ inactive' \subseteq DOMAIN AccountTable
           /\ cache' = [p \in Replicas |-> cache'[p]]
           /\ loaded' = [p \in Replicas |-> loaded'[p]]
           /\ \A p \in Replicas :
                 /\ loaded'[p] = loaded[p] \/ loaded'[p] = <<>> \/ HydrateEntries(p)
                 /\ \/ cache'[p] = cache[p] \/ cache'[p] = EmptyState
                    \/ HydratePostings(p)
                    \/ \E r \in Requests : UpdateCache(r) /\ at[r] = p
<1>1. /\ inactive \subseteq DOMAIN AccountTable
      /\ cache = [p \in Replicas |-> cache[p]] /\ loaded = [p \in Replicas |-> loaded[p]]
  BY DEF CacheInv
<1>2. ASSUME UNCHANGED <<cache, loaded>>
      PROVE  /\ cache' = [p \in Replicas |-> cache'[p]]
             /\ loaded' = [p \in Replicas |-> loaded'[p]]
             /\ \A p \in Replicas : loaded'[p] = loaded[p] /\ cache'[p] = cache[p]
  BY <1>1, <1>2
<1>3. ASSUME NEW r \in Requests, Step(r) \/ Failure(r) \/ \E p \in Replicas : Start(r, p),
             ~UpdateCache(r)
      PROVE  UNCHANGED <<inactive, cache, loaded>>
  <2>1. CASE Step(r) /\ ~PoolTimesOut(r)
    BY <1>3, <2>1 DEF Step, CheckExisting, FetchExisting, CheckAccounts, ReadHead,
              InsertPosting, Unblock, ReadSequence, Commit, AuditAndReturn, process
  <2>2. CASE PoolTimesOut(r)
    BY <2>2 DEF PoolTimesOut, process
  <2>3. CASE Failure(r) \/ \E p \in Replicas : Start(r, p)
    BY <2>3 DEF Failure, HeadReadFails, CommitUnacknowledged, QueryFails, Start, process
  <2> QED BY <1>3, <2>1, <2>2, <2>3
<1>4. ASSUME NEW r \in Requests, UpdateCache(r)
      PROVE  /\ UNCHANGED <<inactive, loaded>>
             /\ cache' = [p \in Replicas |-> cache'[p]]
             /\ \A p \in Replicas : cache'[p] = cache[p] \/ at[r] = p
  BY <1>1, <1>4 DEF UpdateCache
<1>5. CASE \E o \in outbox : Send(o) \/ SendFails(o)
  <2>1. UNCHANGED <<inactive, cache, loaded>>
    BY <1>5 DEF Send, SendFails, process
  <2> QED BY <1>1, <1>2, <2>1
<1>6. CASE \E a \in DOMAIN AccountTable : Deactivate(a)
  <2>1. UNCHANGED <<cache, loaded>> /\ inactive' \subseteq DOMAIN AccountTable
    BY <1>1, <1>6 DEF Deactivate, process
  <2> QED BY <1>2, <2>1
<1>7. ASSUME NEW p \in Replicas, Boot(p) \/ Crash(p)
      PROVE  /\ inactive' = inactive
             /\ cache' = [q \in Replicas |-> cache'[q]]
             /\ loaded' = [q \in Replicas |-> loaded'[q]]
             /\ \A q \in Replicas :
                   /\ loaded'[q] = loaded[q] \/ loaded'[q] = <<>> \/ HydrateEntries(q)
                   /\ cache'[q] = cache[q] \/ cache'[q] = EmptyState \/ HydratePostings(q)
  <2>1. CASE HydrateEntries(p)
    <3>1. PICK rows : loaded' = [loaded EXCEPT ![p] = rows]
      BY <2>1 DEF HydrateEntries
    <3>2. inactive' = inactive /\ cache' = cache
      BY <2>1 DEF HydrateEntries
    <3> QED BY <1>1, <2>1, <3>1, <3>2
  <2>2. CASE HydratePostings(p)
    <3>1. PICK map : cache' = [cache EXCEPT ![p] = map]
      BY <2>2 DEF HydratePostings
    <3>2. inactive' = inactive /\ loaded' = [loaded EXCEPT ![p] = <<>>]
      BY <2>2 DEF HydratePostings
    <3> QED BY <1>1, <2>2, <3>1, <3>2
  <2>3. CASE VerifyAtStartup(p)
    <3>1. UNCHANGED <<inactive, cache, loaded>>
      BY <2>3 DEF VerifyAtStartup
    <3> QED BY <1>1, <1>2, <3>1
  <2>4. CASE Crash(p)
    <3>1. /\ inactive' = inactive /\ loaded' = [loaded EXCEPT ![p] = <<>>]
          /\ cache' = [cache EXCEPT ![p] = EmptyState]
      BY <2>4 DEF Crash
    <3> QED BY <1>1, <3>1
  <2> QED BY <1>7, <2>1, <2>2, <2>3, <2>4 DEF Boot
<1>8. CASE UNCHANGED vars
  <2>1. UNCHANGED <<inactive, cache, loaded>>
    BY <1>8 DEF vars, process
  <2> QED BY <1>1, <1>2, <2>1
<1>9. CASE \E r \in Requests : Step(r) \/ Failure(r) \/ \E p \in Replicas : Start(r, p)
  <2>1. PICK r \in Requests : Step(r) \/ Failure(r) \/ \E p \in Replicas : Start(r, p)
    BY <1>9
  <2>2. CASE UpdateCache(r)
    BY <1>1, <1>4, <2>2
  <2>3. CASE ~UpdateCache(r)
    BY <1>1, <1>2, <1>3, <2>1, <2>3
  <2> QED BY <2>2, <2>3
<1>10. CASE \E p \in Replicas : Boot(p) \/ Crash(p)
  BY <1>1, <1>7, <1>10
<1> QED BY <1>5, <1>6, <1>8, <1>9, <1>10 DEF Next, Serve

\* Only commits add rows, finitely many each.
LEMMA RowsFinite ==
    ASSUME DbInv, IsFiniteSet(entries), [Next]_vars
    PROVE  IsFiniteSet(entries')
<1>1. entries' = entries \/ \E r \in Requests : pc[r] = "commit" /\ Publish(r)
  <2>1. ASSUME NEW r \in Requests, Step(r) \/ Failure(r) \/ \E p \in Replicas : Start(r, p)
        PROVE  entries' = entries \/ (pc[r] = "commit" /\ Publish(r))
    <3>1. CASE Step(r) /\ ~PoolTimesOut(r)
      BY <3>1 DEF Step, CheckExisting, FetchExisting, CheckAccounts, ReadHead, UpdateCache,
                InsertPosting, Unblock, ReadSequence, Commit, AuditAndReturn, db
    <3>2. CASE PoolTimesOut(r)
      BY <3>2 DEF PoolTimesOut, db
    <3>3. CASE Failure(r) \/ \E p \in Replicas : Start(r, p)
      BY <3>3 DEF Failure, HeadReadFails, CommitUnacknowledged, QueryFails, Start, db
    <3> QED BY <2>1, <3>1, <3>2, <3>3
  <2>2. CASE \/ \E o \in outbox : Send(o) \/ SendFails(o)
             \/ \E p \in Replicas : Boot(p) \/ Crash(p)
             \/ \E a \in DOMAIN AccountTable : Deactivate(a)
             \/ UNCHANGED vars
    BY <2>2 DEF Send, SendFails, Boot, HydrateEntries, HydratePostings, VerifyAtStartup,
                Crash, Deactivate, vars, db
  <2> QED BY <2>1, <2>2 DEF Next, Serve
<1>2. ASSUME NEW r \in Requests, pc[r] = "commit", Publish(r)
      PROVE  IsFiniteSet(entries')
  <2> DEFINE n == Len(Payload[r].entries)
             f == [k \in 1..n |-> Created(r)[k]]
  <2>1. /\ PostError(Payload[r]) = "none" /\ prev[r] \in Hashes /\ seq[r] \in Nat
        /\ entries' = entries \cup ToSet(Created(r))
    BY <1>2, Published
  <2>2. n \in Nat /\ DOMAIN Created(r) = 1..n
    BY <2>1, Built
  <2>3. f \in Surjection(1..n, ToSet(Created(r)))
    BY <2>2 DEF Surjection, ToSet
  <2>4. IsFiniteSet(1..n)
    BY <2>2, FS_Interval
  <2> HIDE DEF f, n
  <2>5. IsFiniteSet(ToSet(Created(r)))
    BY <2>3, <2>4, FS_Surjection
  <2> QED BY <2>1, <2>5, FS_Union
<1> QED BY <1>1, <1>2

\* What hydrate installs is committed: it read the rows before the postings, neither
\* of which changes, and the process serves nobody meanwhile.
LEMMA HydratedIsTrue ==
    ASSUME DbInv, CacheInv, NEW p \in Replicas, HydratePostings(p)
    PROVE  CacheTrue(p)'
<1>1. PICK rows : rows = loaded[p]
  OBVIOUS
<1>2. /\ UNCHANGED <<postings, entries, hash_chain, pc, at>>
      /\ phase[p] = "hydrating"
  BY DEF HydratePostings, db, calls
<1>3. InSequence(rows)
  BY <1>1 DEF CacheInv
<1>4. /\ cache'[p].entries = rows
      /\ cache'[p].sequence = LastNumber(ToSet(rows))
      /\ cache'[p].global_chain_head = global_head(rows)
      /\ DOMAIN cache'[p].postings = DOMAIN postings
      /\ \A id \in DOMAIN postings : cache'[p].postings[id].hash_head = postings[id]
  <2>1. PICK map : /\ cache' = [cache EXCEPT ![p] = map]
                   /\ map.entries = rows
                   /\ map.sequence = LastNumber(ToSet(rows))
                   /\ map.global_chain_head = global_head(rows)
                   /\ DOMAIN map.postings = DOMAIN postings
                   /\ \A id \in DOMAIN postings : map.postings[id].hash_head = postings[id]
    <3> DEFINE of(id) == SelectSeq(rows, LAMBDA e : e.posting_id = id)
               map == [postings |-> [id \in DOMAIN postings |->
                                        [hash_head |-> postings[id], entries |-> of(id)]],
                       entries  |-> rows,
                       sequence |-> LastNumber(ToSet(rows)),
                       global_chain_head |-> global_head(rows)]
    <3>1. cache' = [cache EXCEPT ![p] = map]
      BY <1>1, Zenon DEF HydratePostings
    <3> HIDE DEF of
    <3>2. /\ map.entries = rows
          /\ map.sequence = LastNumber(ToSet(rows))
          /\ map.global_chain_head = global_head(rows)
          /\ DOMAIN map.postings = DOMAIN postings
          /\ \A id \in DOMAIN postings : map.postings[id].hash_head = postings[id]
      OBVIOUS
    <3> HIDE DEF map
    <3> QED BY <3>1, <3>2
  <2>2. cache'[p] = map
    BY <2>1 DEF CacheInv
  <2> QED BY <2>1, <2>2
<1>5. LastNumber(ToSet(rows)) \in Nat /\ global_head(rows) \in Hashes
  BY <1>3, LastOfList
<1>6. /\ rows \in Seq(EntryRecords) /\ ToSet(rows) \subseteq entries
      /\ \A i, j \in DOMAIN rows : rows[i] = rows[j] => i = j
  <2>1. rows \in Seq(EntryRecords) /\ DOMAIN rows = 1..Len(rows) /\ Len(rows) \in Nat
    BY <1>3 DEF InSequence
  <2>2. ASSUME NEW i \in DOMAIN rows, NEW j \in DOMAIN rows, rows[i] = rows[j]
        PROVE  i = j
    <3>1. ~(i < j) /\ ~(j < i)
      BY <1>3, <2>2 DEF InSequence
    <3> QED BY <2>1, <3>1
  <2> QED BY <1>3, <2>1, <2>2 DEF InSequence
<1>7. ASSUME NEW r \in Requests, pc'[r] = "cache", at'[r] = p PROVE FALSE
  BY <1>2, <1>7 DEF DbInv, OnItsWay, Finished
<1> QED BY <1>2, <1>4, <1>5, <1>6, <1>7 DEF CacheTrue

\* A list and another after it (Vec::extend).
LEMMA Joined ==
    ASSUME NEW T, NEW s \in Seq(T), NEW t \in Seq(T)
    PROVE  /\ s \o t \in Seq(T) /\ DOMAIN (s \o t) = 1..(Len(s) + Len(t))
           /\ \A i \in 1..Len(s) : (s \o t)[i] = s[i]
           /\ \A i \in (Len(s) + 1)..(Len(s) + Len(t)) :
                 i - Len(s) \in 1..Len(t) /\ (s \o t)[i] = t[i - Len(s)]
OBVIOUS

\* Its members are those of both.
LEMMA JoinedSet ==
    ASSUME NEW T, NEW s \in Seq(T), NEW t \in Seq(T)
    PROVE  s \o t \in Seq(T) /\ ToSet(s \o t) = ToSet(s) \cup ToSet(t)
<1> DEFINE all == s \o t
           n == Len(s)
           m == Len(t)
<1>1. /\ all \in Seq(T) /\ DOMAIN all = 1..(n + m)
      /\ \A i \in 1..n : all[i] = s[i]
      /\ \A i \in (n + 1)..(n + m) : i - n \in 1..m /\ all[i] = t[i - n]
  BY Joined
<1>2. n \in Nat /\ m \in Nat /\ DOMAIN s = 1..n /\ DOMAIN t = 1..m
  OBVIOUS
<1> HIDE DEF all, n, m
<1>3. ASSUME NEW i \in 1..(n + m) PROVE all[i] \in ToSet(s) \/ all[i] \in ToSet(t)
  <2>1. i \in 1..n \/ i \in (n + 1)..(n + m)
    BY <1>2
  <2> QED BY <1>1, <1>2, <2>1 DEF ToSet
<1>4. ASSUME NEW i \in 1..n PROVE s[i] \in ToSet(all)
  BY <1>1, <1>2 DEF ToSet
<1>5. ASSUME NEW k \in 1..m PROVE t[k] \in ToSet(all)
  <2>1. n + k \in (n + 1)..(n + m) /\ n + k \in 1..(n + m) /\ (n + k) - n = k
    BY <1>2
  <2> QED BY <1>1, <2>1 DEF ToSet
<1>6. ToSet(all) = ToSet(s) \cup ToSet(t)
  <2>1. ASSUME NEW x \in ToSet(all) PROVE x \in ToSet(s) \cup ToSet(t)
    BY <1>1, <1>3, <2>1 DEF ToSet
  <2>2. ASSUME NEW x \in ToSet(s) \cup ToSet(t) PROVE x \in ToSet(all)
    BY <1>2, <1>4, <1>5, <2>2 DEF ToSet
  <2> QED BY <2>1, <2>2
<1> QED BY <1>1, <1>6 DEF all

\* What a request adds to the maps after its commit is committed and not there yet.
LEMMA UpdatedIsTrue ==
    ASSUME DbInv, CacheInv, NEW r \in Requests, NEW p \in Replicas, UpdateCache(r), at[r] = p
    PROVE  CacheTrue(p)'
<1> DEFINE n == Len(Payload[r].entries)
<1>1. PICK old, new : old = cache[p] /\ new = Created(r)
  OBVIOUS
<1>2. /\ UNCHANGED <<postings, entries, hash_chain, at>>
      /\ pc' = [pc EXCEPT ![r] = "audit"] /\ pc[r] = "cache"
  BY DEF UpdateCache, db, Goto
<1>3. /\ Wrote(r) /\ PostError(Payload[r]) = "none"
      /\ prev[r] \in Hashes /\ seq[r] \in Nat
      /\ pc \in [Requests -> Steps]
  BY <1>2 DEF DbInv, DbTypes, OnItsWay, Finished
<1>4. /\ n \in Nat \ {0} /\ DOMAIN new = 1..n /\ NewHead(r) \in Hashes
      /\ \A k \in 1..n : /\ new[k].sequence_number = seq[r] + k
                         /\ new[k].posting_id = Id(r)
  BY <1>1, <1>3, Built DEF IsEntry, Id
<1>5. CacheTrue(p)
  BY <1>3 DEF CacheInv
<1>6. /\ cache'[p].postings = Insert(old.postings, Id(r), RecordOf(r))
      /\ cache'[p].entries = old.entries \o new
      /\ cache'[p].sequence = seq[r] + n
      /\ cache'[p].global_chain_head = NewHead(r)
  BY <1>1, <1>3 DEF UpdateCache, CacheInv
<1> HIDE DEF n
<1>7. /\ \A k \in 1..n : new[k] \in entries /\ new[k] \in EntryRecords
      /\ \A j, k \in 1..n : new[j] = new[k] => j = k
  <2>1. ASSUME NEW k \in 1..n PROVE new[k] \in entries
    BY <1>1, <1>3, <1>4 DEF Wrote, RowsOf, ToSet
  <2>2. entries \subseteq EntryRecords
    BY DEF DbInv, DbTypes
  <2>3. ASSUME NEW j \in 1..n, NEW k \in 1..n, new[j] = new[k] PROVE j = k
    <3>1. seq[r] + j = seq[r] + k
      BY <1>4, <2>3
    <3> QED BY <1>3, <1>4, <3>1
  <2> QED BY <2>1, <2>2, <2>3
<1>8. PICK m, rows : m = Len(old.entries) /\ rows = old.entries \o new
  OBVIOUS
<1>9. /\ m \in Nat /\ DOMAIN old.entries = 1..m
      /\ \A i \in 1..m : /\ old.entries[i] \in entries
                         /\ old.entries[i].posting_id # Id(r)
      /\ \A i, j \in 1..m : old.entries[i] = old.entries[j] => i = j
  <2>1. m \in Nat /\ DOMAIN old.entries = 1..m
    BY <1>1, <1>5, <1>8 DEF CacheTrue
  <2> QED BY <1>1, <1>2, <1>5, <2>1 DEF CacheTrue, ToSet
<1>10. /\ rows \in Seq(EntryRecords) /\ DOMAIN rows = 1..(m + n)
       /\ \A i \in 1..m : rows[i] = old.entries[i]
       /\ \A i \in (m + 1)..(m + n) : i - m \in 1..n /\ rows[i] = new[i - m]
  <2>1. old.entries \in Seq(EntryRecords)
    BY <1>1, <1>5 DEF CacheTrue
  <2>2. new \in Seq(EntryRecords) /\ Len(new) = n
    <3>1. new = [k \in 1..n |-> new[k]]
      <4>1. new = [k \in 1..Len(Payload[r].entries) |-> new[k]]
        BY <1>1 DEF Created, CreatedEntries
      <4> QED BY <4>1 DEF n
    <3>2. new \in [1..n -> EntryRecords]
      BY <1>7, <3>1
    <3>3. n \in Nat /\ DOMAIN new = 1..n
      BY <1>4
    <3>4. new \in Seq(EntryRecords)
      BY <3>2, <3>3
    <3>5. Len(new) \in Nat /\ 1..Len(new) = 1..n
      BY <3>3, <3>4, LenProperties
    <3>6. Len(new) = n
      <4>1. n \in 1..Len(new) /\ n >= Len(new)
        BY <1>4, <3>5
      <4> QED BY <3>3, <3>5, <4>1
    <3> QED BY <3>4, <3>6
  <2> QED BY <1>8, <2>1, <2>2, Joined, SMTT(60)
<1>11. \A i \in 1..(m + n) : i \in 1..m \/ i \in (m + 1)..(m + n)
  BY <1>4, <1>9
<1>12. ToSet(rows) \subseteq entries
  BY <1>7, <1>9, <1>10, <1>11 DEF ToSet
<1>13. \A i, j \in DOMAIN rows : rows[i] = rows[j] => i = j
  <2> SUFFICES ASSUME NEW i \in 1..(m + n), NEW j \in 1..(m + n), rows[i] = rows[j]
               PROVE  i = j
    BY <1>10
  <2>1. CASE i \in 1..m /\ j \in 1..m
    BY <1>9, <1>10, <2>1
  <2>2. CASE i \in (m + 1)..(m + n) /\ j \in (m + 1)..(m + n)
    <3>1. i - m = j - m
      BY <1>7, <1>10, <2>2
    <3> QED BY <1>4, <1>9, <3>1
  <2>3. ASSUME NEW a \in 1..m, NEW b \in (m + 1)..(m + n) PROVE rows[a] # rows[b]
    <3>1. rows[a].posting_id # Id(r)
      BY <1>9, <1>10
    <3>2. rows[b].posting_id = Id(r)
      BY <1>4, <1>10
    <3> QED BY <3>1, <3>2
  <2> QED BY <1>11, <2>1, <2>2, <2>3
<1>14. \A id \in DOMAIN cache'[p].postings :
          id \in DOMAIN postings' /\ cache'[p].postings[id].hash_head = postings'[id]
  <2>1. RecordOf(r).hash_head = NewHead(r)
    BY DEF RecordOf
  <2>2. Id(r) \in DOMAIN postings /\ postings[Id(r)] = NewHead(r)
    BY <1>3 DEF Wrote
  <2>3. /\ DOMAIN cache'[p].postings = DOMAIN old.postings \cup {Id(r)}
        /\ cache'[p].postings[Id(r)] = RecordOf(r)
        /\ \A id \in DOMAIN old.postings : id # Id(r) =>
              cache'[p].postings[id] = old.postings[id]
    BY <1>6 DEF Insert
  <2> QED BY <1>1, <1>2, <1>5, <2>1, <2>2, <2>3 DEF CacheTrue
<1>15. ASSUME NEW s \in Requests, pc'[s] = "cache", at'[s] = p,
              NEW i \in DOMAIN rows
       PROVE  rows[i].posting_id # Id(s)
  <2>1. s # r /\ pc[s] = "cache" /\ at[s] = p
    BY <1>2, <1>3, <1>15
  <2>2. Wrote(s)
    BY <2>1 DEF DbInv, OnItsWay
  <2>3. Id(s) # Id(r)
    BY <1>3, <2>1, <2>2, OneWriter
  <2>4. CASE i \in 1..m
    BY <1>1, <1>5, <1>9, <1>10, <2>1, <2>4 DEF CacheTrue
  <2>5. CASE i \in (m + 1)..(m + n)
    BY <1>4, <1>10, <2>3, <2>5
  <2> QED BY <1>10, <1>11, <2>4, <2>5
<1>16. seq[r] + n \in Nat
  BY <1>3, <1>4
<1>17. /\ cache'[p].entries = rows
       /\ cache'[p].sequence \in Nat /\ cache'[p].global_chain_head \in Hashes
  BY <1>4, <1>6, <1>8, <1>16
<1>18. ToSet(rows) = ToSet(cache[p].entries)' /\ \A s \in Requests : Id(s)' = Id(s)
  BY <1>17 DEF ToSet, Id
<1>19. rows \in Seq(EntryRecords) /\ entries' = entries
  BY <1>2, <1>10
<1> QED BY <1>12, <1>13, <1>14, <1>15, <1>17, <1>18, <1>19 DEF CacheTrue

\* No step lets a process show what is not committed.
LEMMA CacheStep ==
    ASSUME DbInv, CacheInv, [Next]_vars
    PROVE  CacheInv'
<1>1. Kept
  BY NextSound DEF Sound
<1>2. IsFiniteSet(entries)'
  BY RowsFinite DEF CacheInv
<1>3. ASSUME NEW p \in Replicas PROVE InSequence(loaded[p])'
  <2>1. CASE loaded'[p] = loaded[p]
    BY <1>1, <2>1, LoadedStays DEF CacheInv
  <2>2. CASE loaded'[p] = <<>>
    BY <2>2, EmptyMaps
  <2>3. CASE HydrateEntries(p)
    <3>1. PICK tie \in TieBreaks : loaded' = [loaded EXCEPT ![p] = InOrder(entries, tie)]
      BY <2>3 DEF HydrateEntries
    <3>2. PICK rows : rows = InOrder(entries, tie)
      OBVIOUS
    <3>3. InSequence(rows)
      BY <3>2, InOrderIsInSequence DEF CacheInv
    <3>4. loaded'[p] = rows /\ entries' = entries
      BY <2>3, <3>1, <3>2 DEF HydrateEntries, CacheInv, db
    <3> QED BY <3>3, <3>4 DEF InSequence
  <2> QED BY <2>1, <2>2, <2>3, MapsChange
<1>4. ASSUME NEW p \in Replicas PROVE CacheTrue(p)'
  <2>1. CASE cache'[p] = cache[p]
    BY <2>1, CacheStays DEF CacheInv
  <2>2. CASE cache'[p] = EmptyState
    BY <2>2, EmptyMaps
  <2>3. CASE HydratePostings(p)
    BY <2>3, HydratedIsTrue
  <2>4. CASE \E r \in Requests : UpdateCache(r) /\ at[r] = p
    BY <2>4, UpdatedIsTrue
  <2> QED BY <2>1, <2>2, <2>3, <2>4, MapsChange
<1> QED BY <1>2, <1>3, <1>4, MapsChange DEF CacheInv

EverythingSound == ServiceSound /\ CacheInv

\* Every reachable state is one in which memory holds nothing but what is committed.
THEOREM CacheInvHolds == Spec => []EverythingSound
<1>1. Init => CacheInv
  <2> SUFFICES ASSUME Init PROVE CacheInv
    OBVIOUS
  <2>1. /\ <<>> \in Seq(EntryRecords) /\ DOMAIN <<>> = {} /\ ToSet(<<>>) = {}
        /\ GENESIS_HASH \in Hashes
    BY EmptySeq DEF ToSet, GENESIS_HASH, Hashes
  <2>2. /\ EmptyState.postings = <<>> /\ EmptyState.entries = <<>>
        /\ EmptyState.sequence = 0 /\ EmptyState.global_chain_head = GENESIS_HASH
    BY DEF EmptyState
  <2>3. IsFiniteSet(entries)
    BY FS_EmptySet DEF Init
  <2>4. /\ inactive = {}
        /\ cache = [p \in Replicas |-> EmptyState] /\ loaded = [p \in Replicas |-> <<>>]
        /\ \A r \in Requests : pc[r] = "new"
    BY DEF Init
  <2>5. ASSUME NEW p \in Replicas PROVE InSequence(loaded[p]) /\ CacheTrue(p)
    <3>1. loaded[p] = <<>> /\ cache[p] = EmptyState
      BY <2>4
    <3>2. InSequence(loaded[p])
      BY <2>1, <3>1 DEF InSequence
    <3>3. /\ cache[p].entries = <<>> /\ DOMAIN cache[p].entries = {}
          /\ ToSet(cache[p].entries) = {} /\ DOMAIN cache[p].postings = {}
          /\ cache[p].sequence = 0 /\ cache[p].global_chain_head \in Hashes
          /\ cache[p].entries \in Seq(EntryRecords)
      BY <2>1, <2>2, <3>1
    <3> QED BY <3>2, <3>3 DEF CacheTrue
  <2> QED BY <2>3, <2>4, <2>5 DEF CacheInv
<1>2. ServiceSound /\ CacheInv /\ [Next]_vars => CacheInv'
  BY CacheStep DEF ServiceSound
<1> QED BY <1>1, <1>2, ServiceInvHolds, PTL DEF Spec, EverythingSound

\* A process never shows its readers a row or a head that the database does not have,
\* nor a row twice, whichever requests interleave with its start, whatever fails and
\* however often it dies (the cache update of post_via_db, hydrate).
THEOREM CacheShowsCommitted == Spec => []CacheIsCommitted
<1>1. EverythingSound => CacheIsCommitted
  BY DEF EverythingSound, CacheInv, CacheTrue, CacheIsCommitted
<1> QED BY <1>1, CacheInvHolds, PTL

\* Every variable keeps its type: rows, hashes and answers are well formed, in the
\* database as in memory (post_via_db, hydrate).
THEOREM DbTypeCorrect == Spec => []TypeOK
<1>1. EverythingSound => TypeOK
  BY DEF EverythingSound, ServiceSound, ServiceInv, AnswersTrue, DbInv, DbTypes,
         CacheInv, CacheTrue, InSequence, TypeOK
<1> QED BY <1>1, CacheInvHolds, PTL

\* Each posting in the database cancels out in every asset (post's per_asset check,
\* the transaction of post_via_db).
LEMMA PostingCancels ==
    ASSUME DbInv, NEW id \in DOMAIN postings, NEW asset
    PROVE  Net(RowsOf(id), asset) = 0
<1>1. PICK r \in Requests : Id(r) = id /\ Wrote(r)
  BY DEF DbInv, EveryPostingWritten
<1>2. PostError(Payload[r]) = "none" /\ RowsOf(id) = ToSet(Created(r))
  BY <1>1 DEF Wrote
<1> DEFINE lines == Payload[r].entries
           n == Len(lines)
<1>3. /\ n \in Nat \ {0} /\ DOMAIN lines = 1..n
      /\ \A k \in 1..n : lines[k].amount \in Nat
  <2>1. lines \in Seq(Lines) /\ n \in Nat \ {0} /\ \A k \in 1..n : lines[k] \in Lines
    BY <1>2, ValidLines
  <2> QED BY <2>1 DEF Lines
<1>4. RowsOf(id) = RowSet(Created(r), n)
  BY <1>2 DEF Created, CreatedEntries, ToSet, RowSet
<1>5. Net(RowSet(Created(r), n), asset) = 0
  BY <1>2, <1>3, NewEntriesBalance DEF Created
<1> QED BY <1>4, <1>5

\* In each asset the balances of all accounts cancel out, for any requests, replicas
\* and failures: every posting that is there cancels out, and it is there whole
\* (post, balance_from_db).
THEOREM DbBalances == Spec => []TrialBalance
<1>1. ASSUME EverythingSound, NEW asset \in DOMAIN ASSET_REGISTRY
      PROVE  BalancesOf(entries, asset, DOMAIN AccountTable) = 0
  <2>1. DbInv /\ IsFiniteSet(entries)
    BY <1>1 DEF EverythingSound, ServiceSound, CacheInv
  <2>2. \A e \in entries : /\ e.amount \in Nat
                           /\ e.account_id \in DOMAIN AccountTable
                           /\ e.posting_id \in DOMAIN postings
    BY <2>1 DEF DbInv, DbTypes, EveryPostingWritten, EntryRecords
  <2>3. \A e \in entries : Net(RowsOf(e.posting_id), asset) = 0
    BY <2>1, <2>2, PostingCancels
  <2>4. Net(entries, asset) = 0
    <3>1. \A e \in entries : Net({x \in entries : x.posting_id = e.posting_id}, asset) = 0
      BY <2>3 DEF RowsOf
    <3>2. \A e \in entries : e.amount \in Nat
      BY <2>2
    <3> QED BY ONLY <2>1, <3>1, <3>2, NetOfPostings
  <2>5. BalancesOf(entries, asset, DOMAIN AccountTable) = Net(entries, asset)
    <3>1. asset # ""
      BY NamesAssumption
    <3>2. \A e \in entries : e.amount \in Nat /\ e.account_id \in DOMAIN AccountTable
      BY <2>2
    <3>3. IsFiniteSet(DOMAIN AccountTable)
      BY TableAssumption
    <3> QED BY ONLY <2>1, <3>1, <3>2, <3>3, BalancesAddUp
  <2> QED BY <2>4, <2>5
<1>2. EverythingSound => TrialBalance
  BY <1>1 DEF TrialBalance, BalancesOf
<1> QED BY <1>2, CacheInvHolds, PTL

-----------------------------------------------------------------------------
(***************************************************************************)
(* Forks.  A request commits to the hash it has read as head; the number   *)
(* it goes on from it reads later, when others may have committed.  As     *)
(* long as no two rows follow the same one, the rows are a line, and a     *)
(* request whose head is still its end has read the number that goes with  *)
(* it: the row of any posting committed in between follows that same end,  *)
(* so that its own commit forks the chain.                                 *)
(***************************************************************************)

\* The rows, in the order of their numbers.
OnLine(s) == s \in Seq(EntryRecords) /\ ToSet(s) = entries /\ Line(s)

\* A request that still continues this line has read its last number.
ReadBy(r, s) == pc[r] = "commit" /\ prev[r] = global_head(s) => seq[r] = Len(s)

ForkInv ==
    /\ Unforked => \E s : OnLine(s) /\ \A r \in Requests : ReadBy(r, s)
    /\ \A p \in Replicas : phase[p] = "halted" => ~Unforked

\* The numbers of such rows are their places.
LEMMA OnItsPlace ==
    ASSUME NEW s, OnLine(s)
    PROVE  /\ Len(s) \in Nat /\ entries = {s[k] : k \in 1..Len(s)}
           /\ \A k \in 1..Len(s) : s[k].sequence_number = k
           /\ \A j, k \in 1..Len(s) : s[j] = s[k] => j = k
           /\ Cardinality(entries) = Len(s)
<1> DEFINE n == Len(s)
<1>1. n \in Nat /\ DOMAIN s = 1..n /\ \A k \in 1..n : s[k].sequence_number = k
  BY DEF OnLine, Line
<1> HIDE DEF n
<1>2. entries = {s[k] : k \in 1..n}
  BY <1>1 DEF OnLine, ToSet
<1>3. \A j, k \in 1..n : s[j] = s[k] => j = k
  <2>1. ASSUME NEW j \in 1..n, NEW k \in 1..n, s[j] = s[k] PROVE j = k
    <3>1. s[j].sequence_number = j /\ s[k].sequence_number = k
      BY <1>1
    <3> QED BY <2>1, <3>1
  <2> QED BY <2>1
<1>4. Cardinality(entries) = n
  BY <1>1, <1>2, <1>3, Counted
<1> QED BY <1>1, <1>2, <1>3, <1>4 DEF n

\* The queries that look for the end of the table find the end of the line
\* (last_entry_hash_from_db, next_sequence_from_db).
LEMMA EndOfLine ==
    ASSUME NEW s, OnLine(s)
    PROVE  /\ LastNumber(entries) = Len(s)
           /\ entries = {} => global_head(s) = GENESIS_HASH
           /\ entries # {} => \A e \in LastRows : e.this_hash = global_head(s)
<1> DEFINE n == Len(s)
<1>1. /\ n \in Nat /\ entries = {s[k] : k \in 1..n}
      /\ \A k \in 1..n : s[k].sequence_number = k
  BY OnItsPlace
<1>2. s = <<>> <=> n = 0
  BY EmptySeq DEF OnLine
<1> HIDE DEF n
<1>3. CASE n = 0
  <2>1. entries = {}
    BY <1>1, <1>3
  <2> QED BY <1>2, <1>3, <2>1 DEF LastNumber, global_head, n
<1>4. CASE n # 0
  <2> DEFINE numbers == {e.sequence_number : e \in entries}
  <2>1. n \in 1..n /\ s[n] \in entries
    BY <1>1, <1>4
  <2>2. \A x \in numbers : x \in Nat /\ n >= x
    BY <1>1
  <2>3. n \in numbers
    BY <1>1, <2>1
  <2> HIDE DEF numbers
  <2>4. Max(numbers) = n
    <3>1. Max(numbers) \in numbers /\ Max(numbers) >= n
      BY <2>2, <2>3 DEF Max
    <3> QED BY <1>1, <2>2, <3>1
  <2>5. LastNumber(entries) = n
    BY <2>1, <2>4 DEF LastNumber, numbers
  <2>6. ASSUME NEW e \in LastRows PROVE e.this_hash = s[n].this_hash
    <3>1. e \in entries /\ e.sequence_number = n
      BY <2>5, <2>6 DEF LastRows
    <3>2. PICK k \in 1..n : e = s[k]
      BY <1>1, <3>1
    <3>3. k = n
      BY <1>1, <3>1, <3>2
    <3> QED BY <3>2, <3>3
  <2> QED BY <1>2, <1>4, <2>1, <2>5, <2>6 DEF global_head, n
<1> QED BY <1>3, <1>4

\* Whatever the query does with equal numbers, there are none here (hydrate,
\* verify_chain_at_startup).
LEMMA LineInOrder ==
    ASSUME DbInv, NEW s, OnLine(s), NEW tie \in TieBreaks
    PROVE  InOrder(entries, tie) = s
<1> DEFINE n == Len(s)
           before(x, e) == \/ x.sequence_number < e.sequence_number
                           \/ /\ x.sequence_number = e.sequence_number
                              /\ tie[x.entry_id[1]] < tie[e.entry_id[1]]
           place(e) == 1 + Cardinality({x \in entries : before(x, e)})
<1>1. /\ n \in Nat /\ entries = {s[k] : k \in 1..n} /\ Cardinality(entries) = n
      /\ \A k \in 1..n : s[k].sequence_number = k
      /\ \A j, k \in 1..n : s[j] = s[k] => j = k
  BY OnItsPlace
<1>2. \A x \in entries : tie[x.entry_id[1]] \in Int
  <2> DEFINE bookers == {e.entry_id[1] : e \in entries}
  <2>1. tie \in [bookers -> 1..Cardinality(bookers)]
    BY DEF TieBreaks
  <2>2. \A x \in entries : x.entry_id[1] \in bookers
    OBVIOUS
  <2> HIDE DEF bookers
  <2> QED BY <2>1, <2>2
<1> HIDE DEF n
<1>3. \A j, k \in 1..n : before(s[j], s[k]) <=> j < k
  <2>1. ASSUME NEW j \in 1..n, NEW k \in 1..n PROVE before(s[j], s[k]) <=> j < k
    <3>1. s[j] \in entries /\ s[j].sequence_number = j /\ s[k].sequence_number = k
      BY <1>1
    <3>2. tie[s[j].entry_id[1]] \in Int
      BY <1>2, <3>1
    <3>3. CASE j = k
      BY <1>1, <3>1, <3>2, <3>3
    <3>4. CASE j # k
      BY <3>1, <3>4
    <3> QED BY <3>3, <3>4
  <2> QED BY <2>1
<1> HIDE DEF before
<1>4. ASSUME NEW k \in 1..n PROVE place(s[k]) = k
  <2>1. {x \in entries : before(x, s[k])} = {s[j] : j \in 1..(k - 1)}
    <3>1. \A j \in 1..(k - 1) : j \in 1..n /\ j < k
      BY <1>1
    <3>2. \A j \in 1..n : j < k => j \in 1..(k - 1)
      BY <1>1
    <3> QED BY <1>1, <1>3, <3>1, <3>2
  <2>2. k - 1 \in Nat /\ \A i, j \in 1..(k - 1) : s[i] = s[j] => i = j
    BY <1>1
  <2>3. Cardinality({s[j] : j \in 1..(k - 1)}) = k - 1
    BY <2>2, Counted
  <2>4. Cardinality({x \in entries : before(x, s[k])}) = k - 1
    BY <2>1, <2>3
  <2> QED BY <2>4
<1>5. InOrder(entries, tie) = [i \in 1..n |-> CHOOSE e \in entries : place(e) = i]
  BY <1>1 DEF InOrder, place, before
<1> HIDE DEF place
<1>6. ASSUME NEW k \in 1..n PROVE (CHOOSE e \in entries : place(e) = k) = s[k]
  BY <1>1, <1>4
<1>7. s = [k \in 1..n |-> s[k]]
  BY DEF OnLine, n
<1> QED BY <1>5, <1>6, <1>7

\* A hash says of which entry it is (posting::compute_hash).
LEMMA HashNamesEntry ==
    ASSUME NEW e \in EntryRecords, NEW h \in Hashes, LinkOK(e, h)
    PROVE  /\ e.this_hash # GENESIS_HASH
           /\ e.this_hash[Len(e.this_hash)].canonical.entry_id = e.entry_id
<1> DEFINE canonical == canonical_bytes(e.entry_id, e.account_id, e.direction, e.amount, e.asset)
           line == [salt |-> Salt, canonical |-> canonical]
           S == HashLines \cup {line}
<1>1. e.this_hash = Append(h, line)
  BY DEF LinkOK, compute_hash
<1>2. canonical.entry_id = e.entry_id
  BY DEF canonical_bytes
<1> HIDE DEF canonical
<1>3. line.canonical.entry_id = e.entry_id
  BY <1>2
<1> HIDE DEF line
<1>4. h \in Seq(S) /\ line \in S
  BY DEF Hashes
<1> HIDE DEF S
<1>5. Append(h, line) # <<>> /\ Append(h, line)[Len(Append(h, line))] = line
  BY <1>4
<1> QED BY <1>1, <1>3, <1>5 DEF GENESIS_HASH

\* So the committed rows are known by their entry_ids and by their hashes.
LEMMA HashesOfRows ==
    ASSUME DbInv
    PROVE  /\ \A e \in entries : /\ e \in EntryRecords /\ LinkOK(e, e.prev_hash)
                                 /\ e.this_hash # GENESIS_HASH
           /\ \A e, x \in entries : e.this_hash = x.this_hash => e = x
<1>1. ASSUME NEW e \in entries
      PROVE  /\ e \in EntryRecords /\ LinkOK(e, e.prev_hash) /\ e.this_hash # GENESIS_HASH
             /\ e.this_hash[Len(e.this_hash)].canonical.entry_id = e.entry_id
  <2>1. e \in EntryRecords /\ LinkOK(e, e.prev_hash) /\ e.prev_hash \in Hashes
    BY LinksVerify DEF ChainIsATree, DbInv, DbTypes, EntryRecords
  <2> QED BY <2>1, HashNamesEntry
<1>2. ASSUME NEW e \in entries, NEW x \in entries, e.entry_id = x.entry_id
      PROVE  e = x
  <2>1. PICK r \in Requests, k \in Nat : e = Created(r)[k] /\ e.entry_id = <<r, k>>
    BY RowOfWriter
  <2>2. PICK q \in Requests, l \in Nat : x = Created(q)[l] /\ x.entry_id = <<q, l>>
    BY RowOfWriter
  <2>3. r = q /\ k = l
    BY <1>2, <2>1, <2>2
  <2> QED BY <2>1, <2>2, <2>3
<1>3. ASSUME NEW e \in entries, NEW x \in entries, e.this_hash = x.this_hash
      PROVE  e = x
  BY <1>1, <1>2, <1>3
<1> QED BY <1>1, <1>3

\* What a commit adds follows the head its request has read, link by link; none of it
\* was there, nor has any request read its last hash as head.
LEMMA NewRows ==
    ASSUME DbInv, NEW r \in Requests, pc[r] = "commit", Publish(r)
    PROVE  LET t == Created(r)
               h == [k \in 0..Len(Payload[r].entries) |->
                        HashAfter(r, Payload[r].entries, prev[r], k)]
           IN  /\ t \in Seq(EntryRecords) /\ Len(t) \in Nat \ {0}
               /\ ToSet(t) \cap entries = {} /\ entries' = entries \cup ToSet(t)
               /\ h[0] = prev[r]
               /\ \A k \in 1..Len(t) : /\ t[k].sequence_number = seq[r] + k
                                       /\ t[k].this_hash = h[k]
                                       /\ LinkOK(t[k], h[k - 1])
               /\ \A q \in Requests : prev[q] # t[Len(t)].this_hash
<1> DEFINE m == Len(Payload[r].entries)
           t == Created(r)
           h == [k \in 0..m |-> HashAfter(r, Payload[r].entries, prev[r], k)]
<1>1. /\ PostError(Payload[r]) = "none" /\ AccountsKnown(r)
      /\ prev[r] \in Hashes /\ seq[r] \in Nat /\ Id(r) \notin DOMAIN postings
      /\ entries' = entries \cup ToSet(t)
      /\ \A e \in ToSet(t) : e.posting_id = Id(r)
  BY Published
<1>2. /\ m \in Nat \ {0} /\ DOMAIN t = 1..m
      /\ \A k \in 1..m : IsEntry(t[k], r, Payload[r], prev[r], seq[r], k)
  BY <1>1, Built
<1>3. \A k \in 1..m : t[k] \in EntryRecords
  BY <1>1, BuiltRows
<1>4. h[0] = prev[r]
  <2>1. HashAfter(r, Payload[r].entries, prev[r], 0) = prev[r]
    BY <1>1, RunningHashZero DEF Hashes
  <2> QED BY <1>2, <2>1
<1>5. ASSUME NEW k \in 1..m
      PROVE  /\ t[k].sequence_number = seq[r] + k
             /\ t[k].entry_id = <<r, k>>
             /\ t[k].this_hash = h[k]
             /\ LinkOK(t[k], h[k - 1])
             /\ t[k].prev_hash = h[k - 1]
  <2>1. /\ t[k].sequence_number = seq[r] + k /\ t[k].entry_id = <<r, k>>
        /\ t[k].this_hash = HashAfter(r, Payload[r].entries, prev[r], k)
        /\ t[k].prev_hash = HashAfter(r, Payload[r].entries, prev[r], k - 1)
        /\ LinkOK(t[k], HashAfter(r, Payload[r].entries, prev[r], k - 1))
    BY <1>2 DEF IsEntry, EntryId
  <2>2. k \in 0..m /\ k - 1 \in 0..m
    BY <1>2
  <2> QED BY <2>1, <2>2
<1>6. t = [k \in 1..m |-> t[k]]
  BY DEF Created, CreatedEntries
<1> HIDE DEF t, m, h
<1>7. t \in Seq(EntryRecords) /\ Len(t) = m
  <2>1. t \in [1..m -> EntryRecords]
    BY <1>3, <1>6
  <2> QED BY <1>2, <1>6, <2>1
<1>8. ToSet(t) \cap entries = {}
  BY <1>1 DEF DbInv, EveryPostingWritten
<1>9. ASSUME NEW q \in Requests PROVE prev[q] # t[m].this_hash
  <2>1. m \in 1..m
    BY <1>2
  <2>2. t[m] \in EntryRecords /\ t[m].prev_hash \in Hashes /\ LinkOK(t[m], t[m].prev_hash)
    BY <1>3, <1>5, <2>1 DEF EntryRecords
  <2>3. /\ t[m].this_hash # GENESIS_HASH
        /\ t[m].this_hash[Len(t[m].this_hash)].canonical.entry_id = <<r, m>>
    BY <1>5, <2>1, <2>2, HashNamesEntry
  <2>4. ASSUME NEW x \in entries PROVE x.this_hash # t[m].this_hash
    <3>1. x \in EntryRecords /\ x.prev_hash \in Hashes /\ LinkOK(x, x.prev_hash)
      BY HashesOfRows DEF EntryRecords
    <3>2. x.this_hash[Len(x.this_hash)].canonical.entry_id = x.entry_id
      BY <3>1, HashNamesEntry
    <3>3. PICK p \in Requests, k \in Nat : Wrote(p) /\ x.entry_id = <<p, k>>
      BY RowOfWriter
    <3>4. p # r
      BY <3>3 DEF Wrote
    <3> QED BY <2>3, <3>2, <3>3, <3>4
  <2>5. IsHead(prev[q])
    BY DEF DbInv, OnItsWay
  <2> QED BY <2>3, <2>4, <2>5 DEF IsHead
<1> QED BY <1>1, <1>2, <1>4, <1>5, <1>7, <1>8, <1>9 DEF t, m, h

\* A commit that leaves the chain without a fork has gone on from its end, which only the
\* end of the line is: every other row, and the empty ledger, has its follower.
LEMMA CommitFollowsEnd ==
    ASSUME DbInv, NEW r \in Requests, pc[r] = "commit", Publish(r), Unforked',
           NEW s, OnLine(s)
    PROVE  prev[r] = global_head(s)
<1> DEFINE n == Len(s)
           t == Created(r)
<1>1. /\ n \in Nat /\ entries = {s[k] : k \in 1..n}
  BY OnItsPlace
<1>2. \A k \in 1..n : LinkOK(s[k], IF k = 1 THEN GENESIS_HASH ELSE s[k - 1].this_hash)
  BY DEF OnLine, Line, verify_chain
<1>3. s = <<>> <=> n = 0
  BY EmptySeq DEF OnLine
<1>4. /\ t[1] \in entries' /\ t[1] \notin entries /\ t[1].prev_hash = prev[r]
      /\ entries \subseteq entries'
  <2> DEFINE h == [k \in 0..Len(Payload[r].entries) |->
                        HashAfter(r, Payload[r].entries, prev[r], k)]
  <2>1. /\ t \in Seq(EntryRecords) /\ Len(t) \in Nat \ {0}
        /\ ToSet(t) \cap entries = {} /\ entries' = entries \cup ToSet(t)
        /\ h[0] = prev[r]
        /\ \A k \in 1..Len(t) : LinkOK(t[k], h[k - 1])
    BY NewRows
  <2> HIDE DEF h, t
  <2>2. 1 \in 1..Len(t) /\ 1 - 1 = 0 /\ DOMAIN t = 1..Len(t)
    BY <2>1
  <2>3. t[1] \in ToSet(t)
    BY <2>2 DEF ToSet
  <2>4. LinkOK(t[1], prev[r])
    BY <2>1, <2>2
  <2> QED BY <2>1, <2>3, <2>4 DEF LinkOK
<1> HIDE DEF n, t
<1>5. \A e \in entries : e.prev_hash # prev[r]
  BY <1>4 DEF Unforked
<1>6. IsHead(prev[r])
  BY DEF DbInv, OnItsWay
<1>7. CASE n = 0
  <2>1. entries = {}
    BY <1>1, <1>7
  <2> QED BY <1>3, <1>6, <1>7, <2>1 DEF IsHead, global_head
<1>8. CASE n # 0
  <2>1. prev[r] # GENESIS_HASH
    <3>1. 1 \in 1..n /\ s[1] \in entries
      BY <1>1, <1>8
    <3>2. LinkOK(s[1], GENESIS_HASH)
      BY <1>2, <3>1
    <3> QED BY <1>5, <3>1, <3>2 DEF LinkOK
  <2>2. PICK k \in 1..n : s[k].this_hash = prev[r]
    BY <1>1, <1>6, <2>1 DEF IsHead
  <2>3. k = n
    <3> SUFFICES ASSUME k # n PROVE FALSE
      OBVIOUS
    <3>1. k + 1 \in 1..n /\ k + 1 # 1 /\ (k + 1) - 1 = k
      BY <1>1
    <3>2. LinkOK(s[k + 1], s[k].this_hash)
      BY <1>2, <3>1
    <3>3. s[k + 1] \in entries
      BY <1>1, <3>1
    <3> QED BY <1>5, <2>2, <3>2, <3>3 DEF LinkOK
  <2> QED BY <1>3, <1>8, <2>2, <2>3 DEF global_head, n
<1> QED BY <1>7, <1>8
\* Such a commit makes the line longer by its entries, and no other request continues
\* the longer one yet.
LEMMA CommitLengthens ==
    ASSUME DbInv, NEW r \in Requests, pc[r] = "commit", Publish(r),
           NEW s, OnLine(s), ReadBy(r, s), prev[r] = global_head(s),
           NEW new, new = s \o Created(r)
    PROVE  OnLine(new)' /\ \A q \in Requests : prev[q] # global_head(new)
<1> DEFINE t == Created(r)
           h == [k \in 0..Len(Payload[r].entries) |->
                    HashAfter(r, Payload[r].entries, prev[r], k)]
<1>1. /\ t \in Seq(EntryRecords) /\ Len(t) \in Nat \ {0}
      /\ entries' = entries \cup ToSet(t)
      /\ h[0] = global_head(s)
      /\ \A k \in 1..Len(t) : /\ t[k].sequence_number = seq[r] + k
                              /\ t[k].this_hash = h[k]
                              /\ LinkOK(t[k], h[k - 1])
      /\ \A q \in Requests : prev[q] # t[Len(t)].this_hash
  BY NewRows
<1>2. s \in Seq(EntryRecords) /\ Line(s) /\ ToSet(s) = entries /\ seq[r] = Len(s)
  BY DEF OnLine, ReadBy
<1>3. new = s \o t
  OBVIOUS
<1> HIDE DEF t, h
<1>4. Line(s \o t)
  <2>1. \A k \in 1..Len(t) : /\ t[k].sequence_number = Len(s) + k
                             /\ t[k].this_hash = h[k]
                             /\ LinkOK(t[k], h[k - 1])
    BY <1>1, <1>2
  <2> QED BY ONLY <1>1, <1>2, <2>1, LongerLine
<1>5. ToSet(s \o t) = ToSet(s) \cup ToSet(t) /\ s \o t \in Seq(EntryRecords)
  BY ONLY <1>1, <1>2, JoinedSet
<1>6. global_head(s \o t) = t[Len(t)].this_hash
  <2>1. /\ Len(s \o t) = Len(s) + Len(t) /\ Len(s) \in Nat
        /\ \A k \in 1..Len(t) : (s \o t)[Len(s) + k] = t[k]
    BY <1>1, <1>2, Extended
  <2>2. Len(t) \in 1..Len(t) /\ s \o t # <<>>
    <3>1. Len(s \o t) # 0
      BY <1>1, <2>1
    <3> QED BY <1>1, <1>5, <3>1, EmptySeq
  <2> QED BY <2>1, <2>2 DEF global_head
<1> QED BY <1>1, <1>2, <1>3, <1>4, <1>5, <1>6 DEF OnLine

\* Only next_sequence_from_db brings a request to its commit.
LEMMA ToTheCommit ==
    ASSUME DbInv, [Next]_vars, NEW q \in Requests, pc'[q] = "commit"
    PROVE  \/ pc[q] = "commit" /\ prev'[q] = prev[q] /\ seq'[q] = seq[q]
           \/ ReadSequence(q)
<1>1. ASSUME NEW r \in Requests, NEW step, step # "commit", pc' = [pc EXCEPT ![r] = step],
             prev' = prev \/ \E h : prev' = [prev EXCEPT ![r] = h], seq' = seq
      PROVE  pc[q] = "commit" /\ prev'[q] = prev[q] /\ seq'[q] = seq[q]
  BY <1>1 DEF DbInv, DbTypes
<1>2. ASSUME NEW r \in Requests, NEW p \in Replicas, Start(r, p)
      PROVE  pc[q] = "commit" /\ prev'[q] = prev[q] /\ seq'[q] = seq[q]
  <2>1. /\ \E step : step # "commit" /\ pc' = [pc EXCEPT ![r] = step]
        /\ prev' = prev /\ seq' = seq
    BY <1>2 DEF Start, Goto, Return
  <2> QED BY <1>1, <2>1
<1>3. ASSUME NEW r \in Requests, Step(r) \/ Failure(r), ~ReadSequence(r)
      PROVE  pc[q] = "commit" /\ prev'[q] = prev[q] /\ seq'[q] = seq[q]
  <2>1. seq' = seq /\ (prev' = prev \/ \E h : prev' = [prev EXCEPT ![r] = h])
    BY <1>3 DEF Step, Failure, CheckExisting, FetchExisting, CheckAccounts, ReadHead,
                InsertPosting, Unblock, Commit, PoolTimesOut, UpdateCache,
                AuditAndReturn, HeadReadFails, CommitUnacknowledged, QueryFails
  <2>2. \E step : step # "commit" /\ pc' = [pc EXCEPT ![r] = step]
    <3>1. CASE InsertPosting(r)
      <4>1. \/ Goto(r, "fetch") \/ Goto(r, "blocked") \/ Goto(r, "sequence")
        BY <3>1 DEF InsertPosting
      <4> QED BY <4>1 DEF Goto
    <3>2. CASE ~InsertPosting(r)
      BY <1>3, <3>2 DEF Step, Failure, CheckExisting, FetchExisting, CheckAccounts, ReadHead,
                Unblock, Commit, PoolTimesOut, UpdateCache, AuditAndReturn, HeadReadFails,
                CommitUnacknowledged, QueryFails, Goto, Return
    <3> QED BY <3>1, <3>2
  <2> QED BY <1>1, <2>1, <2>2
<1>4. ASSUME NEW r \in Requests, ReadSequence(r)
      PROVE  \/ pc[q] = "commit" /\ prev'[q] = prev[q] /\ seq'[q] = seq[q]
             \/ ReadSequence(q)
  BY <1>4 DEF ReadSequence, Goto, DbInv, DbTypes
<1>5. ASSUME NEW p \in Replicas, Crash(p)
      PROVE  pc[q] = "commit" /\ prev'[q] = prev[q] /\ seq'[q] = seq[q]
  BY <1>5 DEF Crash
<1>6. CASE \/ \E o \in outbox : Send(o) \/ SendFails(o)
           \/ \E p \in Replicas : Boot(p)
           \/ \E a \in DOMAIN AccountTable : Deactivate(a)
           \/ UNCHANGED vars
  BY <1>6 DEF Send, SendFails, Boot, HydrateEntries, HydratePostings, VerifyAtStartup,
              Deactivate, calls, vars
<1> QED BY <1>2, <1>3, <1>4, <1>5, <1>6 DEF Next, Serve

\* Only a commit adds rows.
LEMMA RowsByCommit ==
    ASSUME [Next]_vars
    PROVE  \/ entries' = entries
           \/ \E r \in Requests : /\ pc[r] = "commit" /\ Publish(r)
                                  /\ Commit(r) \/ CommitUnacknowledged(r)
<1>1. ASSUME NEW r \in Requests, (\E p \in Replicas : Start(r, p)) \/ Step(r) \/ Failure(r),
             ~(Commit(r) \/ CommitUnacknowledged(r))
      PROVE  entries' = entries
  BY <1>1 DEF Start, Step, Failure, CheckExisting, FetchExisting, CheckAccounts, ReadHead,
              InsertPosting, Unblock, ReadSequence, PoolTimesOut, UpdateCache,
              AuditAndReturn, HeadReadFails, QueryFails, db
<1>2. ASSUME NEW r \in Requests, Commit(r) \/ CommitUnacknowledged(r)
      PROVE  pc[r] = "commit" /\ Publish(r)
  BY <1>2 DEF Commit, CommitUnacknowledged
<1>3. CASE \/ \E o \in outbox : Send(o) \/ SendFails(o)
           \/ \E p \in Replicas : Boot(p) \/ Crash(p)
           \/ \E a \in DOMAIN AccountTable : Deactivate(a)
           \/ UNCHANGED vars
  BY <1>3 DEF Send, SendFails, Boot, HydrateEntries, HydratePostings, VerifyAtStartup,
              Crash, Deactivate, db, vars
<1> QED BY <1>1, <1>2, <1>3 DEF Next, Serve

\* Without a fork the rows stay a line, with what each request has read of its end.
LEMMA LineGoesOn ==
    ASSUME DbInv, ForkInv, [Next]_vars, Unforked'
    PROVE  \E s : OnLine(s)' /\ \A q \in Requests : ReadBy(q, s)'
<1>1. Unforked
  BY NextSound DEF Sound, Kept, Unforked
<1>2. PICK s : OnLine(s) /\ \A q \in Requests : ReadBy(q, s)
  BY <1>1 DEF ForkInv
<1>3. CASE entries' = entries
  <2>1. OnLine(s)'
    BY <1>2, <1>3 DEF OnLine
  <2>2. ASSUME NEW q \in Requests PROVE ReadBy(q, s)'
    <3>1. CASE ReadSequence(q)
      <4>1. seq'[q] = LastNumber(entries)
        BY <3>1 DEF ReadSequence, DbInv, DbTypes
      <4>2. LastNumber(entries) = Len(s)
        BY <1>2, EndOfLine
      <4> QED BY <4>1, <4>2 DEF ReadBy
    <3>2. CASE ~ReadSequence(q)
      <4>1. pc'[q] = "commit" => /\ pc[q] = "commit"
                                 /\ prev'[q] = prev[q] /\ seq'[q] = seq[q]
        BY <3>2, ToTheCommit
      <4> QED BY <1>2, <4>1 DEF ReadBy
    <3> QED BY <3>1, <3>2
  <2> QED BY <2>1, <2>2
<1>4. ASSUME NEW r \in Requests, pc[r] = "commit", Publish(r),
             Commit(r) \/ CommitUnacknowledged(r)
      PROVE  \E new : OnLine(new)' /\ \A q \in Requests : ReadBy(q, new)'
  <2>1. prev[r] = global_head(s)
    BY <1>2, <1>4, CommitFollowsEnd
  <2>2. PICK new : new = s \o Created(r)
    OBVIOUS
  <2>3. OnLine(new)' /\ \A q \in Requests : prev[q] # global_head(new)
    BY <1>2, <1>4, <2>1, <2>2, CommitLengthens
  <2>4. prev' = prev
    BY <1>4 DEF Commit, CommitUnacknowledged
  <2> QED BY <2>3, <2>4 DEF ReadBy
<1> QED BY <1>3, <1>4, RowsByCommit

\* A start that finds the chain broken finds a fork.
LEMMA HaltedByFork ==
    ASSUME DbInv, ForkInv, [Next]_vars, NEW p \in Replicas, phase'[p] = "halted"
    PROVE  ~Unforked'
<1>1. Unforked' => Unforked
  BY NextSound DEF Sound, Kept, Unforked
<1>2. phase \in [Replicas -> {"up", "down", "hydrating", "verifying", "halted"}]
  BY DEF DbInv, DbTypes
<1>3. CASE phase[p] = "halted"
  BY <1>1, <1>3 DEF ForkInv
<1>4. CASE phase[p] # "halted"
  <2>1. ASSUME NEW q \in Replicas, NEW to, to # "halted", phase' = [phase EXCEPT ![q] = to]
        PROVE  FALSE
    BY <1>2, <1>4, <2>1
  <2>2. phase' # phase
    BY <1>4
  <2>3. ASSUME NEW r \in Requests, (\E q \in Replicas : Start(r, q)) \/ Step(r) \/ Failure(r)
        PROVE  FALSE
    <3>1. phase' = phase
      BY <2>3 DEF Start, Step, Failure, CheckExisting, FetchExisting, CheckAccounts, ReadHead,
         InsertPosting, Unblock, ReadSequence, Commit, PoolTimesOut, UpdateCache,
         AuditAndReturn, HeadReadFails, CommitUnacknowledged, QueryFails, process
    <3> QED BY <2>2, <3>1
  <2>4. CASE \/ \E o \in outbox : Send(o) \/ SendFails(o)
             \/ \E a \in DOMAIN AccountTable : Deactivate(a)
             \/ UNCHANGED vars
    <3>1. phase' = phase
      BY <2>4 DEF Send, SendFails, Deactivate, process, vars
    <3> QED BY <2>2, <3>1
  <2>5. ASSUME NEW q \in Replicas, HydrateEntries(q) \/ HydratePostings(q) \/ Crash(q)
        PROVE  FALSE
    BY <2>1, <2>5 DEF HydrateEntries, HydratePostings, Crash
  <2>6. ASSUME NEW q \in Replicas, VerifyAtStartup(q) PROVE ~Unforked'
    <3>1. entries' = entries
      BY <2>6 DEF VerifyAtStartup, db
    <3>2. PICK tie \in TieBreaks : ~verify_chain(InOrder(entries, tie))
      BY <2>1, <2>6 DEF VerifyAtStartup
    <3>3. ASSUME Unforked PROVE FALSE
      <4>1. PICK s : OnLine(s)
        BY <3>3 DEF ForkInv
      <4>2. InOrder(entries, tie) = s
        BY <4>1, LineInOrder
      <4> QED BY <3>2, <4>1, <4>2 DEF OnLine, Line
    <3> QED BY <3>1, <3>3 DEF Unforked
  <2> QED BY <2>2, <2>3, <2>4, <2>5, <2>6 DEF Next, Serve, Boot
<1> QED BY <1>3, <1>4

\* Some order the query may return the rows in.
LEMMA SomeOrder ==
    ASSUME IsFiniteSet(entries)
    PROVE  TieBreaks # {}
<1> DEFINE bookers == {e.entry_id[1] : e \in entries}
           m == Cardinality(bookers)
<1>1. IsFiniteSet(bookers)
  <2> DEFINE booker == [e \in entries |-> e.entry_id[1]]
  <2>1. booker \in Surjection(entries, bookers)
    BY DEF Surjection
  <2> HIDE DEF booker, bookers
  <2> QED BY <2>1, FS_Surjection
<1> HIDE DEF bookers
<1>2. ExistsBijection(1..m, bookers)
  BY <1>1, FS_CardinalityType
<1> HIDE DEF m
<1>3. PICK f \in Bijection(1..m, bookers) : TRUE
  BY <1>2 DEF ExistsBijection
<1>4. \A b \in bookers : \E i \in 1..m : f[i] = b
  BY <1>3 DEF Bijection, Surjection
<1> DEFINE tie == [b \in bookers |-> CHOOSE i \in 1..m : f[i] = b]
<1>5. /\ tie \in [bookers -> 1..m]
      /\ \A r, q \in bookers : tie[r] = tie[q] => r = q
  <2>1. \A b \in bookers : tie[b] \in 1..m /\ f[tie[b]] = b
    BY <1>4
  <2>2. tie \in [bookers -> 1..m]
    BY <2>1
  <2> HIDE DEF tie
  <2> QED BY <2>1, <2>2
<1> HIDE DEF tie
<1> QED BY <1>5 DEF TieBreaks, bookers, m

\* A chain that verifies in some order has no fork: each row follows the one before it
\* in that order (hashchain::verify_chain).
LEMMA VerifiedIsUnforked ==
    ASSUME DbInv, IsFiniteSet(entries), NEW tie \in TieBreaks,
           verify_chain(InOrder(entries, tie))
    PROVE  Unforked
<1> DEFINE rows == InOrder(entries, tie)
           n == Len(rows)
<1>1. rows \in Seq(EntryRecords) /\ ToSet(rows) = entries
  BY InOrderIsInSequence DEF InSequence
<1>2. \A i \in 1..n : rows[i].prev_hash = IF i = 1 THEN GENESIS_HASH ELSE rows[i - 1].this_hash
  BY DEF verify_chain, LinkOK
<1>3. \A i, j \in DOMAIN rows : i < j => rows[i] # rows[j]
  BY InOrderIsInSequence DEF InSequence
<1> HIDE DEF rows
<1>4. n \in Nat /\ DOMAIN rows = 1..n /\ \A i \in 1..n : rows[i] \in entries
  BY <1>1 DEF ToSet
<1> HIDE DEF n
<1>5. ASSUME NEW i \in 1..n, NEW j \in 1..n, rows[i].prev_hash = rows[j].prev_hash
      PROVE  i = j
  <2>1. ASSUME NEW k \in 1..n, k # 1 PROVE k - 1 \in 1..n /\ rows[k - 1] \in entries
    BY <1>4, <2>1
  <2>2. CASE i = 1 \/ j = 1
    BY <1>2, <1>5, <2>1, <2>2, HashesOfRows
  <2>3. CASE i # 1 /\ j # 1
    <3>1. rows[i - 1] = rows[j - 1]
      BY <1>2, <1>5, <2>1, <2>3, HashesOfRows
    <3>2. i - 1 \in 1..n /\ j - 1 \in 1..n
      BY <2>1, <2>3
    <3>3. i - 1 = j - 1
      BY <1>3, <1>4, <3>1, <3>2
    <3> QED BY <3>3
  <2> QED BY <2>2, <2>3
<1>6. \A e \in entries : \E i \in 1..n : e = rows[i]
  BY <1>1, <1>4 DEF ToSet
<1> QED BY <1>5, <1>6 DEF Unforked

LEMMA NoForkAtStart == Init => ForkInv
<1> SUFFICES ASSUME Init PROVE ForkInv
  OBVIOUS
<1>1. /\ entries = {} /\ \A q \in Requests : pc[q] = "new"
      /\ \A p \in Replicas : phase[p] # "halted"
  BY DEF Init
<1>2. <<>> \in Seq(EntryRecords) /\ ToSet(<<>>) = {} /\ Len(<<>>) = 0
  BY EmptySeq DEF ToSet
<1>3. Line(<<>>)
  BY <1>2 DEF Line, verify_chain
<1>4. OnLine(<<>>) /\ \A q \in Requests : ReadBy(q, <<>>)
  BY <1>1, <1>2, <1>3 DEF OnLine, ReadBy
<1> QED BY <1>1, <1>4 DEF ForkInv

\* For any requests, replicas, failures and deaths of processes: the chain verifies in
\* every order the query may return, and is numbered without a gap, exactly as long as no
\* two committed rows follow the same one; so that a start is refused after a fork only
\* (last_entry_hash_from_db, next_sequence_from_db, verify_chain_at_startup).
THEOREM ForksAlone == Spec => []OnlyForksBreakTheChain
<1>1. DbInv /\ ForkInv /\ [Next]_vars => ForkInv'
  BY LineGoesOn, HaltedByFork DEF ForkInv
<1>2. EverythingSound /\ DbInv /\ ForkInv => OnlyForksBreakTheChain
  <2> SUFFICES ASSUME EverythingSound, DbInv, ForkInv PROVE OnlyForksBreakTheChain
    OBVIOUS
  <2>1. IsFiniteSet(entries)
    BY DEF EverythingSound, CacheInv
  <2>2. ASSUME Unforked
        PROVE  /\ \A tie \in TieBreaks : verify_chain(InOrder(entries, tie))
               /\ {e.sequence_number : e \in entries} = 1..Cardinality(entries)
    <3>1. PICK s : OnLine(s)
      BY <2>2 DEF ForkInv
    <3>2. \A tie \in TieBreaks : verify_chain(InOrder(entries, tie))
      BY <3>1, LineInOrder DEF OnLine, Line
    <3>3. /\ entries = {s[k] : k \in 1..Len(s)} /\ Cardinality(entries) = Len(s)
          /\ \A k \in 1..Len(s) : s[k].sequence_number = k
      BY <3>1, OnItsPlace
    <3> QED BY <3>2, <3>3
  <2>3. ASSUME \A tie \in TieBreaks : verify_chain(InOrder(entries, tie)) PROVE Unforked
    BY <2>1, <2>3, SomeOrder, VerifiedIsUnforked
  <2> QED BY <2>2, <2>3 DEF OnlyForksBreakTheChain, ForkInv
<1> QED BY <1>1, <1>2, NoForkAtStart, DbInvHolds, CacheInvHolds, PTL DEF Spec
=============================================================================
