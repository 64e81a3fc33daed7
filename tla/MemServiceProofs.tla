-------------------------- MODULE MemServiceProofs ---------------------------
(***************************************************************************)
(* Proofs about what is built on the in-memory store: the treasury         *)
(* wrappers, the snapshots and the statements, the last two while postings *)
(* go on between any two of their calls.                                   *)
(***************************************************************************)
EXTENDS MemStoreProofs, Treasury, MemService

-----------------------------------------------------------------------------
(* Treasury sagas.                                                         *)

\* The lines of the rows on record under id p are those of request s.
LinesOf(rows) == [k \in DOMAIN rows |->
                    [account_id |-> rows[k].account_id, direction |-> rows[k].direction,
                     amount |-> rows[k].amount, asset |-> rows[k].asset]]
StoredAs(p, s) ==
    /\ PostError(Payload[s]) = "none"
    /\ Payload[s].posting_id = p
    /\ Payload[s].entries = LinesOf(postings[p].entries)

\* Every posting is stored as some request asked; post does not say which.
StoredAsAsked == \A p \in DOMAIN postings : \E s \in Requests : StoredAs(p, s)

\* Booking a posting stores it as it was asked (post_via_memory).
LEMMA PostCreatedStoresLines ==
    ASSUME ChainInv, StoredAsAsked, NEW r \in Requests, PostCreated(r)
    PROVE  StoredAsAsked'
<1> DEFINE lines == Payload[r].entries
           id == Payload[r].posting_id
           rows == CreatedEntries(r, Payload[r], global_chain_head, sequence)
<1>1. /\ PostError(Payload[r]) = "none" /\ id \notin DOMAIN postings
      /\ DOMAIN postings' = DOMAIN postings \cup {id}
      /\ postings'[id].entries = rows
      /\ \A p \in DOMAIN postings : postings'[p] = postings[p]
  BY DEF PostCreated, Known, Insert
<1>2. lines \in Seq(Lines) /\ DOMAIN rows = 1..Len(lines)
  BY PayloadAssumption DEF CreatedEntries
<1>3. \A k \in 1..Len(lines) :
         [account_id |-> rows[k].account_id, direction |-> rows[k].direction,
          amount |-> rows[k].amount, asset |-> rows[k].asset] = lines[k]
  <2>1. ASSUME NEW k \in 1..Len(lines)
        PROVE  /\ rows[k].account_id = lines[k].account_id
               /\ rows[k].direction = lines[k].direction
               /\ rows[k].amount = lines[k].amount
               /\ rows[k].asset = lines[k].asset
    BY DEF CreatedEntries
  <2>2. ASSUME NEW k \in 1..Len(lines) PROVE lines[k] \in Lines
    BY <1>2
  <2> HIDE DEF rows, lines
  <2> QED BY <2>1, <2>2 DEF Lines
<1> HIDE DEF rows
<1>4. LinesOf(rows) = lines
  <2>1. DOMAIN lines = 1..Len(lines) /\ lines = [k \in 1..Len(lines) |-> lines[k]]
    BY <1>2
  <2> HIDE DEF lines
  <2> QED BY <1>2, <1>3, <2>1 DEF LinesOf
<1>5. StoredAs(id, r)'
  BY <1>1, <1>4 DEF StoredAs
<1>6. ASSUME NEW p \in DOMAIN postings PROVE \E s \in Requests : StoredAs(p, s)'
  BY <1>1 DEF StoredAsAsked, StoredAs
<1> QED BY <1>1, <1>5, <1>6 DEF StoredAsAsked

\* The lines of a posting are those of request r, or another request has its id and asked
\* for other lines: derive_posting_id does not keep the steps of sagas apart ("a_b", "c"
\* and "a", "b_c"), and post does not compare.
BookedOrTaken(r) ==
    LET id == Payload[r].posting_id
    IN  /\ id \in DOMAIN postings
        /\ \/ LinesOf(postings[id].entries) = Payload[r].entries
           \/ \E s \in Requests :
                 /\ StoredAs(id, s)
                 /\ Payload[s].entries # Payload[r].entries

\* A step of a saga that was told Ok, at once or on a retry, finds its own lines on the
\* books unless another request of the same id was booked in its place, and then it was
\* told Ok for that one's (hedge_entry, rebalance).
THEOREM OkIsBooked == Spec => [](\A r \in TreasuryCalls : Ok(r) => BookedOrTaken(r))
<1>1. Init => StoredAsAsked
  <2>1. DOMAIN <<>> = {}
    OBVIOUS
  <2> QED BY <2>1 DEF Init, StoredAsAsked
<1>2. PostingInv /\ StoredAsAsked /\ [Next]_vars => StoredAsAsked'
  <2> SUFFICES ASSUME PostingInv, StoredAsAsked, [Next]_vars PROVE StoredAsAsked'
    OBVIOUS
  <2>1. ASSUME NEW r \in Requests, PostCreated(r) PROVE StoredAsAsked'
    BY <2>1, PostCreatedStoresLines DEF PostingInv
  <2>2. ASSUME UNCHANGED postings PROVE StoredAsAsked'
    BY <2>2 DEF StoredAsAsked, StoredAs
  <2> QED BY <2>1, <2>2 DEF Next, Post, CreateAccount, PostRefused, PostReplayed,
                            PostAccountRefused, vars
<1>3. OneResultPerPosting /\ StoredAsAsked
      => \A r \in TreasuryCalls : Ok(r) => BookedOrTaken(r)
  <2> SUFFICES ASSUME OneResultPerPosting, StoredAsAsked, NEW r \in TreasuryCalls, Ok(r)
               PROVE  BookedOrTaken(r)
    OBVIOUS
  <2>1. r \in Requests /\ Payload[r].posting_id \in DOMAIN postings
    BY TreasuryAssumption DEF OneResultPerPosting, Ok
  <2>2. PICK s \in Requests : StoredAs(Payload[r].posting_id, s)
    BY <2>1 DEF StoredAsAsked
  <2> QED BY <2>1, <2>2 DEF StoredAs, BookedOrTaken
<1> QED BY <1>1, <1>2, <1>3, PostingInvHolds, OneResult, PTL DEF Spec

-----------------------------------------------------------------------------
(* The rows of the store, which the readers look at.                       *)

Rows == ToSet(entries)

\* The rows are told apart by their numbers, which are those of their positions.
RowsKnown ==
    /\ Len(entries) \in Nat /\ DOMAIN entries = 1..Len(entries)
    /\ Numbered(Rows)
    /\ \A e \in Rows : /\ e.amount \in Nat /\ e.asset # ""
                       /\ e.sequence_number \in 1..Len(entries)
                       /\ entries[e.sequence_number] = e
    /\ \A i \in 1..Len(entries) : entries[i] \in Rows /\ entries[i].sequence_number = i

\* Every row is of an asset with a name.
AssetsNamed == \A i \in DOMAIN entries : entries[i].asset # ""

\* What a booking does to the list of entries (post_via_memory).
LEMMA Appended ==
    ASSUME ChainInv, NEW r \in Requests, PostCreated(r)
    PROVE  LET rows == CreatedEntries(r, Payload[r], global_chain_head, sequence)
           IN  /\ Len(entries) \in Nat /\ Len(rows) \in Nat
               /\ DOMAIN entries = 1..Len(entries)
               /\ DOMAIN entries' = 1..(Len(entries) + Len(rows))
               /\ \A i \in 1..Len(entries) : entries'[i] = entries[i]
               /\ \A k \in 1..Len(rows) :
                     /\ entries'[Len(entries) + k] = rows[k]
                     /\ rows[k].sequence_number = Len(entries) + k
<1> DEFINE rows == CreatedEntries(r, Payload[r], global_chain_head, sequence)
<1>1. /\ rows \in Seq(EntryRecords) /\ Len(rows) \in Nat
      /\ \A k \in 1..Len(rows) : rows[k].sequence_number = Len(entries) + k
      /\ entries \in Seq(EntryRecords) /\ entries' \in Seq(EntryRecords)
      /\ Len(entries') = Len(entries) + Len(rows)
      /\ \A i \in 1..Len(entries) : entries'[i] = entries[i]
      /\ \A k \in 1..Len(rows) : entries'[Len(entries) + k] = rows[k]
  BY NewPosting
<1> HIDE DEF rows
<1>2. Len(entries) \in Nat /\ DOMAIN entries = 1..Len(entries) /\ DOMAIN entries' = 1..Len(entries')
  BY <1>1
<1> QED BY <1>1, <1>2 DEF rows

\* What a booking brings in is of registered assets (validate_amount).
LEMMA NamedByPost ==
    ASSUME ChainInv, AssetsNamed, NEW r \in Requests, PostCreated(r)
    PROVE  AssetsNamed'
<1> DEFINE lines == Payload[r].entries
           rows == CreatedEntries(r, Payload[r], global_chain_head, sequence)
<1>1. /\ Len(entries) \in Nat /\ Len(rows) \in Nat
      /\ \A i \in 1..Len(entries) : entries'[i] = entries[i]
      /\ \A k \in 1..Len(rows) : entries'[Len(entries) + k] = rows[k]
      /\ DOMAIN entries = 1..Len(entries)
      /\ DOMAIN entries' = 1..(Len(entries) + Len(rows))
  BY Appended
<1>2. ASSUME NEW k \in 1..Len(rows) PROVE rows[k].asset # ""
  <2>1. lines \in Seq(Lines)
    BY PayloadAssumption
  <2>2. k \in 1..Len(lines) /\ rows[k].asset = lines[k].asset
    BY <2>1 DEF CreatedEntries
  <2>3. Validated(Payload[r])
    BY DEF PostCreated, PostError
  <2>4. lines[k].asset \in DOMAIN ASSET_REGISTRY
    BY <2>1, <2>2, <2>3 DEF Validated, validate_amount
  <2> QED BY <2>2, <2>4, NamesAssumption
<1> HIDE DEF rows
<1>3. ASSUME NEW i \in DOMAIN entries' PROVE entries'[i].asset # ""
  <2>1. CASE i \in 1..Len(entries)
    BY <1>1, <2>1 DEF AssetsNamed
  <2>2. CASE i \notin 1..Len(entries)
    <3>1. i - Len(entries) \in 1..Len(rows) /\ i = Len(entries) + (i - Len(entries))
      BY <1>1, <2>2
    <3> QED BY <1>1, <1>2, <3>1
  <2> QED BY <2>1, <2>2
<1> QED BY <1>3 DEF AssetsNamed

StoreSound == ChainInv /\ AssetsNamed

\* What holds of the store holds of it inside the service (MemService).
LEMMA StoreInService == ServiceSpec => Spec /\ []StoreSound /\ [][Next]_vars
<1>1. ServiceInit => Init /\ AssetsNamed
  <2>1. DOMAIN <<>> = {}
    OBVIOUS
  <2> QED BY <2>1 DEF ServiceInit, Init, AssetsNamed
<1>2. [ServiceNext]_service => [Next]_vars
  BY DEF ServiceNext, service, write_snapshots, Ask, ReadPage
<1>3. ChainInv /\ AssetsNamed /\ [Next]_vars => AssetsNamed'
  <2> SUFFICES ASSUME ChainInv, AssetsNamed, [Next]_vars PROVE AssetsNamed'
    OBVIOUS
  <2>1. ASSUME NEW r \in Requests, PostCreated(r) PROVE AssetsNamed'
    BY <2>1, NamedByPost
  <2>2. ASSUME UNCHANGED entries PROVE AssetsNamed'
    BY <2>2 DEF AssetsNamed
  <2> QED BY <2>1, <2>2 DEF Next, Post, CreateAccount, PostRefused, PostReplayed,
                            PostAccountRefused, vars
<1>4. Spec => []ChainInv
  BY PostingInvHolds, PTL DEF PostingInv
<1> QED BY <1>1, <1>2, <1>3, <1>4, PTL DEF ServiceSpec, Spec, StoreSound

\* So every row has a number of its own.
LEMMA RowsAreKnown ==
    ASSUME StoreSound
    PROVE  RowsKnown
<1>1. /\ entries \in Seq(EntryRecords) /\ Len(entries) \in Nat
      /\ DOMAIN entries = 1..Len(entries)
      /\ \A i \in 1..Len(entries) : entries[i] \in EntryRecords
      /\ \A i \in 1..Len(entries) : entries[i].sequence_number = i
  BY DEF StoreSound, ChainInv, TypeOK, ChainVerifies
<1>2. \A e \in Rows : \E i \in 1..Len(entries) : e = entries[i]
  BY <1>1 DEF Rows, ToSet
<1>3. \A i \in 1..Len(entries) : entries[i] \in Rows
  BY <1>1 DEF Rows, ToSet
<1>4. \A e \in Rows : /\ e.amount \in Nat /\ e.asset # ""
                      /\ e.sequence_number \in 1..Len(entries)
                      /\ entries[e.sequence_number] = e
  <2>1. \A i \in 1..Len(entries) : entries[i].amount \in Nat
    BY <1>1 DEF EntryRecords
  <2>2. \A i \in 1..Len(entries) : entries[i].asset # ""
    BY <1>1 DEF StoreSound, AssetsNamed
  <2> SUFFICES ASSUME NEW e \in Rows
               PROVE  /\ e.amount \in Nat /\ e.asset # ""
                      /\ e.sequence_number \in 1..Len(entries)
                      /\ entries[e.sequence_number] = e
    OBVIOUS
  <2>3. PICK i \in 1..Len(entries) : e = entries[i]
    BY <1>2
  <2> QED BY <1>1, <2>1, <2>2, <2>3
<1>5. IsFiniteSet(Rows)
  <2>1. entries \in Surjection(1..Len(entries), Rows)
    BY <1>1, <1>2, <1>3 DEF Surjection
  <2>2. IsFiniteSet(1..Len(entries))
    BY <1>1, FS_Interval
  <2> QED BY <2>1, <2>2, FS_Surjection
<1>6. Numbered(Rows)
  BY <1>1, <1>2, <1>5 DEF Numbered
<1> QED BY <1>1, <1>3, <1>4, <1>6 DEF RowsKnown

\* What the proofs use of them most.
LEMMA RowFacts ==
    ASSUME RowsKnown
    PROVE  /\ IsFiniteSet(Rows)
           /\ \A e \in Rows : e.sequence_number \in Int /\ e.amount \in Nat
<1>1. IsFiniteSet(Rows) /\ \A e \in Rows : e.sequence_number \in Int
  BY DEF RowsKnown, Numbered
<1>2. \A e \in Rows : e.amount \in Nat
  BY DEF RowsKnown
<1> QED BY <1>1, <1>2

\* A step of the store adds rows behind those there are (post_via_memory).
LEMMA RowsGrow ==
    ASSUME StoreSound, [Next]_vars
    PROVE  /\ Rows \subseteq Rows'
           /\ \A e \in Rows' \ Rows : e.sequence_number \in Nat /\ e.sequence_number > Len(entries)
<1>1. ASSUME NEW r \in Requests, PostCreated(r)
      PROVE  /\ Rows \subseteq Rows'
             /\ \A e \in Rows' \ Rows : e.sequence_number \in Nat /\ e.sequence_number > Len(entries)
  <2> DEFINE rows == CreatedEntries(r, Payload[r], global_chain_head, sequence)
  <2>0. ChainInv
    BY DEF StoreSound
  <2>1. /\ Len(entries) \in Nat /\ Len(rows) \in Nat
        /\ \A i \in 1..Len(entries) : entries'[i] = entries[i]
        /\ \A k \in 1..Len(rows) : /\ entries'[Len(entries) + k] = rows[k]
                                    /\ rows[k].sequence_number = Len(entries) + k
        /\ DOMAIN entries = 1..Len(entries)
        /\ DOMAIN entries' = 1..(Len(entries) + Len(rows))
    BY <1>1, <2>0, Appended
  <2> HIDE DEF rows
  <2>2. ASSUME NEW e \in Rows PROVE e \in Rows'
    <3>1. PICK i \in 1..Len(entries) : e = entries[i]
      BY <2>1 DEF Rows, ToSet
    <3>2. i \in DOMAIN entries' /\ entries'[i] = e
      BY <2>1, <3>1
    <3> QED BY <3>2 DEF Rows, ToSet
  <2>3. ASSUME NEW e \in Rows' \ Rows
        PROVE  e.sequence_number \in Nat /\ e.sequence_number > Len(entries)
    <3>1. PICK i \in 1..(Len(entries) + Len(rows)) : e = entries'[i]
      BY <2>1 DEF Rows, ToSet
    <3>2. i \notin 1..Len(entries)
      BY <2>1, <2>3, <3>1 DEF Rows, ToSet
    <3>3. i - Len(entries) \in 1..Len(rows) /\ i = Len(entries) + (i - Len(entries))
      BY <2>1, <3>2
    <3>4. e.sequence_number = Len(entries) + (i - Len(entries))
      BY <2>1, <3>1, <3>3
    <3> QED BY <2>1, <3>3, <3>4
  <2> QED BY <2>2, <2>3
<1>2. ASSUME UNCHANGED entries PROVE Rows' = Rows
  BY <1>2 DEF Rows
<1> QED BY <1>1, <1>2 DEF Next, Post, CreateAccount, PostRefused, PostReplayed,
                          PostAccountRefused, vars

-----------------------------------------------------------------------------
(* Snapshots.                                                              *)

\* The rows a snapshot was written from, as far as it can tell.
UpTo(s) == {e \in Rows : e.sequence_number <= s.last_sequence}

SnapshotsListed == DOMAIN snapshots \subseteq Int

\* What SnapshotsReconcile says of one snapshot, and of two.
Reconciles(s) ==
    /\ s.balance = compute_balance(UpTo(s), s.account_id, s.asset)
    /\ \E e \in UpTo(s) : /\ e.sequence_number = s.last_sequence
                          /\ e.account_id = s.account_id /\ e.asset = s.asset
OneOfEach == \A m, n \in DOMAIN snapshots :
                /\ snapshots[m].account_id = snapshots[n].account_id
                /\ snapshots[m].asset = snapshots[n].asset
                => m = n

LEMMA SnapshotsReconcileParts ==
    SnapshotsReconcile <=> OneOfEach /\ \A n \in DOMAIN snapshots : Reconciles(snapshots[n])
BY DEF SnapshotsReconcile, OneOfEach, Reconciles, UpTo, Rows

\* A snapshot that build_snapshot makes of an account and asset with entries is the
\* balance up to the last of these (build_snapshot).
LEMMA BuiltReconciles ==
    ASSUME RowsKnown, NEW x \in Rows
    PROVE  LET s == build_snapshot(entries, x.account_id, x.asset)
           IN  /\ s.account_id = x.account_id /\ s.asset = x.asset
               /\ Reconciles(s)
<1> DEFINE a == x.account_id
           asset == x.asset
           mine == Of(entries, a, asset)
           s == build_snapshot(entries, a, asset)
           last == Max(mine)
<1>1. asset # "" /\ \A e \in Rows : e.asset # ""
  BY DEF RowsKnown
<1>2. mine = {i \in 1..Len(entries) : entries[i].account_id = a /\ entries[i].asset = asset}
  BY <1>1 DEF Of, RowsKnown
<1>3. IsFiniteSet(mine) /\ mine # {} /\ \A i \in mine : i \in Int
  <2>1. Len(entries) \in Nat
    BY DEF RowsKnown
  <2>2. IsFiniteSet(1..Len(entries))
    BY <2>1, FS_Interval
  <2>3. mine \in SUBSET (1..Len(entries))
    BY <1>2
  <2>4. x.sequence_number \in mine
    BY <1>2 DEF RowsKnown
  <2> HIDE DEF mine
  <2>5. IsFiniteSet(mine)
    BY <2>2, <2>3, FS_Subset
  <2> QED BY <2>1, <2>3, <2>4, <2>5
<1>4. last \in mine /\ \A i \in mine : last >= i
  <2> HIDE DEF mine
  <2> QED BY <1>3, MaxOfSet
<1>5. /\ s.account_id = a /\ s.asset = asset
      /\ s.balance = compute_balance(Rows, a, asset)
      /\ s.last_sequence = last
  <2>1. mine # {} /\ entries[last].sequence_number = last
    BY <1>2, <1>3, <1>4 DEF RowsKnown
  <2> HIDE DEF mine, last
  <2> QED BY <1>1, <2>1 DEF build_snapshot, LastSequence, Rows, mine, last
<1>6. entries[last] \in UpTo(s)
      /\ entries[last].sequence_number = s.last_sequence
      /\ entries[last].account_id = a /\ entries[last].asset = asset
  <2>1. last \in 1..Len(entries) /\ entries[last].account_id = a /\ entries[last].asset = asset
    BY <1>2, <1>4
  <2>2. entries[last] \in Rows /\ entries[last].sequence_number = last /\ last <= last
    <3>1. last \in Int
      BY <1>3, <1>4
    <3>2. last <= last
      <4> HIDE DEF last
      <4> QED BY <3>1
    <3>3. \A i \in 1..Len(entries) : entries[i] \in Rows /\ entries[i].sequence_number = i
      BY DEF RowsKnown
    <3> HIDE DEF last
    <3> QED BY <2>1, <3>2, <3>3
  <2> HIDE DEF last, s
  <2> QED BY <1>5, <2>1, <2>2 DEF UpTo
<1>7. compute_balance(UpTo(s), a, asset) = compute_balance(Rows, a, asset)
  <2>1. ASSUME NEW e \in Rows, e.account_id = a, asset = "" \/ e.asset = asset
        PROVE  e \in UpTo(s)
    <3>1. e.asset = asset
      BY <1>1, <2>1
    <3>2. e.sequence_number \in mine
      <4>1. e.sequence_number \in 1..Len(entries) /\ entries[e.sequence_number] = e
        BY DEF RowsKnown
      <4> HIDE DEF mine
      <4> QED BY <1>2, <2>1, <3>1, <4>1
    <3>3. last >= e.sequence_number /\ last \in Int /\ e.sequence_number \in Int
      BY <1>3, <1>4, <3>2
    <3> HIDE DEF last, s
    <3> QED BY <1>5, <3>3 DEF UpTo
  <2>2. {e \in UpTo(s) : e.account_id = a /\ (asset = "" \/ e.asset = asset)}
      = {e \in Rows : e.account_id = a /\ (asset = "" \/ e.asset = asset)}
    <3>1. UpTo(s) \subseteq Rows
      BY DEF UpTo
    <3> HIDE DEF s, a, asset
    <3> QED BY <2>1, <3>1
  <2> HIDE DEF s, a, asset
  <2> QED BY <2>2 DEF compute_balance
<1> HIDE DEF s, last, mine
<1> QED BY <1>5, <1>6, <1>7 DEF Reconciles, s

\* A run of the task leaves one reconcilable snapshot per account and asset
\* (write_snapshots, snapshot_all).
LEMMA WrittenReconcile ==
    ASSUME RowsKnown, write_snapshots
    PROVE  SnapshotsReconcile'
<1> DEFINE first == {e \in Rows : \A x \in Rows :
                        x.account_id = e.account_id /\ x.asset = e.asset
                        => x.sequence_number >= e.sequence_number}
           order == BySequence(first)
<1>1. Numbered(first)
  <2>1. first \in SUBSET Rows
    OBVIOUS
  <2> HIDE DEF first
  <2> QED BY <2>1, FS_Subset DEF RowsKnown, Numbered
<1>2. /\ \A n \in DOMAIN order : order[n] \in first
      /\ \A m, n \in DOMAIN order : /\ order[m].sequence_number \in Int
                                    /\ order[m] = order[n] => m = n
  <2>1. Listed(first, order, Cardinality(first))
    <3> HIDE DEF first
    <3> QED BY <1>1, ListedInSequence
  <2> HIDE DEF first, order
  <2>2. \A n \in DOMAIN order : order[n] \in first
    BY <2>1 DEF Listed
  <2>3. \A n \in DOMAIN order : order[n].sequence_number \in Int
    BY <1>1, <2>2 DEF Numbered
  <2>4. ASSUME NEW m \in DOMAIN order, NEW n \in DOMAIN order, order[m] = order[n] PROVE m = n
    <3>1. m \in Int /\ n \in Int
      BY <2>1 DEF Listed
    <3>2. ~(m < n) /\ ~(n < m)
      BY <2>1, <2>3, <2>4 DEF Listed
    <3> QED BY <3>1, <3>2
  <2> QED BY <2>2, <2>3, <2>4
<1>3. snapshots' = [n \in DOMAIN order |->
                      build_snapshot(entries, order[n].account_id, order[n].asset)]
      /\ UNCHANGED entries
  BY DEF write_snapshots, snapshot_all, vars, Rows
<1>4. \A m, n \in DOMAIN order :
         order[m].account_id = order[n].account_id /\ order[m].asset = order[n].asset => m = n
  <2> SUFFICES ASSUME NEW m \in DOMAIN order, NEW n \in DOMAIN order,
                      order[m].account_id = order[n].account_id, order[m].asset = order[n].asset
               PROVE  m = n
    OBVIOUS
  <2>1. order[m] \in first /\ order[n] \in first
    BY <1>2
  <2>2. /\ order[m].sequence_number >= order[n].sequence_number
        /\ order[n].sequence_number >= order[m].sequence_number
    <3> HIDE DEF order
    <3> QED BY <2>1
  <2>3. order[m].sequence_number = order[n].sequence_number
    BY <1>2, <2>2
  <2>4. order[m] = order[n]
    <3> HIDE DEF order, first
    <3> QED BY <1>1, <2>1, <2>3 DEF Numbered
  <2> QED BY <1>2, <2>4
<1>5. \A n \in DOMAIN order : order[n] \in Rows
  <2> HIDE DEF order
  <2> QED BY <1>2
<1> HIDE DEF order, first
<1>6. \A n \in DOMAIN order :
         /\ snapshots'[n].account_id = order[n].account_id
         /\ snapshots'[n].asset = order[n].asset
         /\ Reconciles(snapshots'[n])
  BY <1>3, <1>5, BuiltReconciles
<1>7. OneOfEach'
  BY <1>3, <1>4, <1>6 DEF OneOfEach
<1>8. \A n \in DOMAIN snapshots' : Reconciles(snapshots[n])'
  <2>1. Rows' = Rows
    BY <1>3 DEF Rows
  <2> QED BY <1>3, <1>6, <2>1 DEF Reconciles, UpTo
<1> QED BY <1>7, <1>8, SnapshotsReconcileParts DEF SnapshotsReconcile, OneOfEach, Reconciles, UpTo, Rows

\* A snapshot that was written earlier stays reconcilable, since what comes later has
\* higher numbers than its last entry.
LEMMA StaysReconcilable ==
    ASSUME RowsKnown, SnapshotsReconcile, UNCHANGED snapshots,
           Rows \subseteq Rows',
           \A e \in Rows' \ Rows : e.sequence_number \in Nat /\ e.sequence_number > Len(entries)
    PROVE  SnapshotsReconcile'
<1>1. ASSUME NEW n \in DOMAIN snapshots PROVE UpTo(snapshots[n])' = UpTo(snapshots[n])
  <2> DEFINE s == snapshots[n]
  <2>1. PICK e \in UpTo(s) : e.sequence_number = s.last_sequence
    BY SnapshotsReconcileParts DEF Reconciles
  <2>2. Len(entries) \in Nat /\ s.last_sequence \in 1..Len(entries)
    BY <2>1 DEF RowsKnown, UpTo
  <2>3. ASSUME NEW x \in Rows' \ Rows PROVE ~(x.sequence_number <= s.last_sequence)
    <3>1. x.sequence_number \in Nat /\ x.sequence_number > Len(entries)
      OBVIOUS
    <3> QED BY <2>2, <3>1
  <2> QED BY <2>3 DEF UpTo
<1>2. ASSUME NEW n \in DOMAIN snapshots PROVE Reconciles(snapshots[n])'
  <2>1. Reconciles(snapshots[n]) /\ snapshots'[n] = snapshots[n]
    BY SnapshotsReconcileParts
  <2> QED BY <1>1, <2>1 DEF Reconciles
<1>3. OneOfEach'
  BY SnapshotsReconcileParts DEF OneOfEach
<1> QED BY <1>2, <1>3 DEF SnapshotsReconcile, OneOfEach, Reconciles, UpTo, Rows

\* However postings and runs of the task interleave, every snapshot stays reconcilable:
\* it is the balance up to its last entry, and the only one of its account and asset
\* (write_snapshots, post_via_memory).
THEOREM SnapshotsStayReconcilable == ServiceSpec => []SnapshotsReconcile
<1>1. ServiceInit => SnapshotsReconcile
  <2>1. DOMAIN <<>> = {}
    OBVIOUS
  <2> QED BY <2>1 DEF ServiceInit, SnapshotsReconcile
<1>2. StoreSound /\ [Next]_vars /\ SnapshotsReconcile /\ [ServiceNext]_service
      => SnapshotsReconcile'
  <2> SUFFICES ASSUME StoreSound, [Next]_vars, SnapshotsReconcile, [ServiceNext]_service
               PROVE  SnapshotsReconcile'
    OBVIOUS
  <2>1. RowsKnown
    BY RowsAreKnown
  <2>2. CASE UNCHANGED snapshots
    BY <2>1, <2>2, RowsGrow, StaysReconcilable
  <2>3. CASE write_snapshots
    BY <2>1, <2>3, WrittenReconcile
  <2> QED BY <2>2, <2>3 DEF ServiceNext, service
<1> QED BY <1>1, <1>2, StoreInService, PTL DEF ServiceSpec

\* What a snapshot contains and what came since is all there is (balance_via_snapshot).
LEMMA SnapshotAndDelta ==
    ASSUME RowsKnown, NEW s, Reconciles(s)
    PROVE  compute_balance(Rows, s.account_id, s.asset)
           = s.balance + compute_balance(Since(s), s.account_id, s.asset)
<1>1. s.last_sequence \in Int /\ \A e \in Rows : e.sequence_number \in Int
  BY RowFacts DEF Reconciles, UpTo
<1>2. \A e \in Rows : e.sequence_number > s.last_sequence
                      <=> ~(e.sequence_number <= s.last_sequence)
  BY <1>1
<1>3. PICK A, B : A = UpTo(s) /\ B = Since(s)
  OBVIOUS
<1>4. A \cup B = Rows /\ A \cap B = {}
  BY <1>2, <1>3 DEF Since, UpTo, Rows
<1>5. IsFiniteSet(A) /\ IsFiniteSet(B) /\ \A e \in A \cup B : e.amount \in Nat
  <2>1. A \in SUBSET Rows /\ B \in SUBSET Rows
    BY <1>4
  <2> QED BY <1>4, <2>1, RowFacts, FS_Subset
<1>6. PICK a, asset : a = s.account_id /\ asset = s.asset
  OBVIOUS
<1>7. /\ compute_balance(A \cup B, a, asset)
           = compute_balance(A, a, asset) + compute_balance(B, a, asset)
      /\ compute_balance(A, a, asset) \in Int
      /\ compute_balance(B, a, asset) \in Int
  BY ONLY <1>4, <1>5, BalanceParts, Z3
<1> QED BY <1>3, <1>4, <1>6, <1>7 DEF Reconciles

\* Computed from the snapshots and the entries since, every balance is the one computed
\* from all entries, at every moment (balance_via_snapshot).
THEOREM SnapshotBalances == ServiceSpec => []SnapshotPlusDelta
<1>1. StoreSound /\ SnapshotsListed /\ SnapshotsReconcile => SnapshotPlusDelta
  <2> SUFFICES ASSUME StoreSound, SnapshotsListed, SnapshotsReconcile,
                      NEW a \in DOMAIN accounts, NEW asset \in DOMAIN ASSET_REGISTRY
               PROVE  balance_via_snapshot(a, asset) = compute_balance(Rows, a, asset)
    BY DEF SnapshotPlusDelta, Rows
  <2> DEFINE fits == {n \in DOMAIN snapshots :
                         /\ snapshots[n].account_id = a
                         /\ asset = "" \/ snapshots[n].asset = asset}
  <2>1. asset # "" /\ RowsKnown
    BY NamesAssumption, RowsAreKnown
  <2>2. CASE fits = {}
    BY <2>2 DEF balance_via_snapshot, Rows
  <2>3. CASE fits # {}
    <3>1. PICK n \in fits : TRUE
      BY <2>3
    <3>2. PICK s : s = snapshots[n]
      OBVIOUS
    <3>3. /\ s.account_id = a /\ s.asset = asset
          /\ Reconciles(s)
      BY <2>1, <3>1, <3>2, SnapshotsReconcileParts
    <3>4. fits = {n}
      BY <2>1, <3>1, SnapshotsReconcileParts DEF OneOfEach
    <3>5. snapshots[Max(fits)] = s
      <4>1. Max({n}) = n
        <5>1. n \in Int
          BY <3>1 DEF SnapshotsListed
        <5>2. IsFiniteSet({n})
          BY FS_Singleton
        <5>3. Max({n}) \in {n}
          BY ONLY <5>1, <5>2, MaxOfSet
        <5> QED BY <5>3
      <4> QED BY <3>2, <3>4, <4>1
    <3>6. balance_via_snapshot(a, asset) = s.balance + compute_balance(Since(s), a, asset)
      <4> HIDE DEF fits
      <4>1. balance_via_snapshot(a, asset)
            = IF fits = {} THEN compute_balance(Rows, a, asset)
              ELSE snapshots[Max(fits)].balance + compute_balance(Since(snapshots[Max(fits)]), a, asset)
        BY DEF balance_via_snapshot, fits, Rows
      <4> QED BY <2>3, <3>5, <4>1
    <3>7. compute_balance(Rows, a, asset) = s.balance + compute_balance(Since(s), a, asset)
      BY <2>1, <3>3, SnapshotAndDelta
    <3> QED BY <3>6, <3>7
  <2> QED BY <2>2, <2>3
<1>2. ServiceInit => SnapshotsListed
  <2>1. DOMAIN <<>> = {}
    OBVIOUS
  <2> QED BY <2>1 DEF ServiceInit, SnapshotsListed
<1>3. SnapshotsListed /\ [ServiceNext]_service => SnapshotsListed'
  <2>1. write_snapshots => SnapshotsListed'
    BY DEF write_snapshots, snapshot_all, BySequence, SnapshotsListed
  <2> QED BY <2>1 DEF ServiceNext, service, SnapshotsListed
<1> QED BY <1>1, <1>2, <1>3, SnapshotsStayReconcilable, StoreInService, PTL DEF ServiceSpec

-----------------------------------------------------------------------------
(* Statements.                                                             *)

\* The rows of the account that is being read.
Mine == {e \in Rows : e.account_id = asked}

\* What has been read is the beginning of the statement; the cursor is where it ends.
ReaderTypes == read \in Seq([entry : EntryRecords, running_balance : Int])
ReadInOrder ==
    /\ Len(read) <= Cardinality(Mine)
    /\ \A k \in 1..Len(read) : read[k].entry = BySequence(Mine)[k]
CursorAtEnd ==
    more => IF cursor = None THEN read = <<>>
            ELSE Len(read) >= 1 /\ cursor = read[Len(read)].entry.sequence_number
StatementInv == ReaderTypes /\ ReadInOrder /\ CursorAtEnd

LEMMA RowsTyped ==
    ASSUME StoreSound
    PROVE  Rows \subseteq EntryRecords
<1>1. entries \in Seq(EntryRecords)
  BY DEF StoreSound, ChainInv, TypeOK
<1> QED BY <1>1 DEF Rows, ToSet

\* The statement lists the rows of its account.
LEMMA StatementListed ==
    ASSUME StoreSound
    PROVE  /\ Numbered(Mine)
           /\ Listed(Mine, BySequence(Mine), Cardinality(Mine))
<1>1. RowsKnown
  BY RowsAreKnown
<1>2. Mine \in SUBSET Rows
  BY DEF Mine
<1>3. Numbered(Mine)
  BY <1>1, <1>2, FS_Subset DEF RowsKnown, Numbered
<1> QED BY <1>3, ListedInSequence

\* What a page is cut from is the statement without what has been read (Store::ledger,
\* the cursor filter).
LEMMA RestOfStatement ==
    ASSUME StoreSound, StatementInv, more
    PROVE  LET rows == After(asked, cursor)
               left == Cardinality(Mine) - Len(read)
           IN  /\ left \in Nat /\ Len(rows) = left /\ DOMAIN rows = 1..left
               /\ rows \in Seq(EntryRecords)
               /\ \A j \in 1..left : rows[j] = BySequence(Mine)[Len(read) + j]
<1> DEFINE rest == {e \in Mine : cursor = None \/ e.sequence_number > cursor}
           all == BySequence(Mine)
           n == Cardinality(Mine)
           k == Len(read)
<1>1. Numbered(Mine) /\ Listed(Mine, all, n)
  BY StatementListed
<1>2. k \in Nat /\ n \in Nat /\ k \in 0..n
  <2>1. k \in Nat /\ k <= n
    BY DEF StatementInv, ReaderTypes, ReadInOrder
  <2> QED BY <1>1, <2>1 DEF Listed
<1>3. After(asked, cursor) = BySequence(rest)
  <2>1. {e \in ToSet(entries) : /\ e.account_id = asked
                                /\ cursor = None \/ e.sequence_number > cursor} = rest
    BY DEF Mine, Rows
  <2> HIDE DEF rest
  <2> QED BY <2>1 DEF After
<1>4. ASSUME NEW i \in 1..n PROVE all[i] \in rest <=> i > k
  <2>1. all[i] \in Mine /\ i \in Int
    BY <1>1, <1>2 DEF Listed
  <2>2. CASE cursor = None
    <3>1. k = 0
      BY <2>2 DEF StatementInv, CursorAtEnd
    <3> QED BY <2>1, <2>2, <3>1
  <2>3. CASE cursor # None
    <3>1. k \in 1..n /\ cursor = all[k].sequence_number
      BY <1>2, <2>3 DEF StatementInv, CursorAtEnd, ReadInOrder
    <3>2. k < i <=> all[k].sequence_number < all[i].sequence_number
      <4> HIDE DEF all, n, k
      <4> QED BY <1>1, <3>1 DEF Listed
    <3>3. all[i].sequence_number > cursor <=> i > k
      <4> HIDE DEF all, k
      <4> QED BY <3>1, <3>2
    <3> HIDE DEF all, k
    <3> QED BY <2>1, <2>3, <3>3
  <2> QED BY <2>2, <2>3
<1>5. rest \in SUBSET Mine
  OBVIOUS
<1> HIDE DEF rest
<1>6. /\ Cardinality(rest) = n - k
      /\ \A j \in 1..Cardinality(rest) : BySequence(rest)[j] = all[k + j]
  BY <1>1, <1>2, <1>4, <1>5, ListWithoutHead
<1> HIDE DEF all, n, k
<1>7. Listed(rest, BySequence(rest), Cardinality(rest))
  <2>1. Numbered(rest)
    BY <1>1, <1>5, FS_Subset DEF Numbered
  <2> QED BY <2>1, ListedInSequence
<1>8. n - k \in Nat
  BY <1>2
<1>9. DOMAIN BySequence(rest) = 1..(n - k) /\ Len(BySequence(rest)) = n - k
  BY <1>6, <1>7 DEF Listed
<1>10. BySequence(rest) \in Seq(EntryRecords)
  <2>1. \A j \in 1..(n - k) : BySequence(rest)[j] \in EntryRecords
    <3>1. rest \subseteq EntryRecords
      BY <1>5, RowsTyped DEF Mine
    <3> QED BY <1>6, <1>7, <3>1 DEF Listed
  <2>2. BySequence(rest) = [j \in 1..(n - k) |-> BySequence(rest)[j]]
    BY <1>6 DEF BySequence
  <2> QED BY <1>8, <2>1, <2>2
<1> QED BY <1>3, <1>6, <1>8, <1>9, <1>10 DEF n, k, all

\* The first k members of a list.
LEMMA FirstOfList ==
    ASSUME NEW S, NEW s \in Seq(S), NEW k \in 0..Len(s)
    PROVE  /\ SubSeq(s, 1, k) \in Seq(S) /\ Len(SubSeq(s, 1, k)) = k
           /\ DOMAIN SubSeq(s, 1, k) = 1..k
           /\ \A i \in 1..k : SubSeq(s, 1, k)[i] = s[i]
           /\ ToSet(SubSeq(s, 1, k)) = {s[i] : i \in 1..k}
<1>1. /\ SubSeq(s, 1, k) \in Seq(S) /\ Len(SubSeq(s, 1, k)) = k
      /\ DOMAIN SubSeq(s, 1, k) = 1..k
      /\ \A i \in 1..k : SubSeq(s, 1, k)[i] = s[i]
  OBVIOUS
<1>2. ToSet(SubSeq(s, 1, k)) = {s[i] : i \in 1..k}
  BY <1>1 DEF ToSet
<1> QED BY <1>1, <1>2

\* A list and one behind it.
LEMMA JoinedLists ==
    ASSUME NEW S, NEW s \in Seq(S), NEW t \in Seq(S)
    PROVE  /\ s \o t \in Seq(S) /\ Len(s \o t) = Len(s) + Len(t)
           /\ \A i \in 1..Len(s) : (s \o t)[i] = s[i]
           /\ \A j \in 1..Len(t) : (s \o t)[Len(s) + j] = t[j]
OBVIOUS

\* What the next page adds to what has been read (Store::ledger).
LEMMA NextPage ==
    ASSUME StoreSound, StatementInv, NEW limit \in Limits, ReadPage(limit)
    PROVE  LET k    == Len(read)
               left == Cardinality(Mine) - k
               m    == IF left > limit THEN limit ELSE left
               all  == BySequence(Mine)
           IN  /\ m \in 0..left /\ left \in Nat
               /\ read' \in Seq([entry : EntryRecords, running_balance : Int])
               /\ Len(read') = k + m
               /\ \A i \in 1..k : read'[i] = read[i]
               /\ \A j \in 1..m : read'[k + j].entry = all[k + j]
               /\ cursor' = IF left > limit THEN all[k + limit].sequence_number ELSE None
               /\ more' = (cursor' # None)
               /\ UNCHANGED <<entries, asked>>
<1> DEFINE k == Len(read)
           left == Cardinality(Mine) - k
           m == IF left > limit THEN limit ELSE left
           all == BySequence(Mine)
           rows == After(asked, cursor)
           page == SubSeq(rows, 1, m)
           items == [i \in 1..m |-> [entry |-> page[i], running_balance |-> Running(page, i)]]
<1>1. /\ left \in Nat /\ Len(rows) = left /\ rows \in Seq(EntryRecords)
      /\ \A j \in 1..left : rows[j] = all[k + j]
  BY RestOfStatement DEF ReadPage
<1>2. limit \in Nat /\ limit >= 1 /\ m \in 0..left
  <2>1. limit \in Nat /\ limit >= 1
    BY LimitsOfPages
  <2> HIDE DEF left
  <2> QED BY <1>1, <2>1
<1>3. /\ read' = read \o ledger(asked, limit, cursor).entries
      /\ cursor' = ledger(asked, limit, cursor).next_cursor
      /\ more' = (ledger(asked, limit, cursor).next_cursor # None)
      /\ UNCHANGED <<entries, asked>>
  BY DEF ReadPage, vars
<1> HIDE DEF rows, left
<1>4. /\ page \in Seq(EntryRecords) /\ Len(page) = m /\ DOMAIN page = 1..m
      /\ \A i \in 1..m : page[i] = all[k + i]
  <2>1. m \in 0..Len(rows)
    BY <1>1, <1>2
  <2> HIDE DEF m
  <2>2. /\ page \in Seq(EntryRecords) /\ Len(page) = m /\ DOMAIN page = 1..m
        /\ \A i \in 1..m : page[i] = rows[i]
    BY <1>1, <2>1, FirstOfList
  <2>3. \A i \in 1..m : i \in 1..left
    BY <1>1, <1>2
  <2> HIDE DEF page
  <2> QED BY <1>1, <2>2, <2>3
<1>5. /\ ledger(asked, limit, cursor).entries = items
      /\ ledger(asked, limit, cursor).next_cursor
            = IF left > limit THEN rows[limit].sequence_number ELSE None
  <2>1. SubSeq(rows, 1, IF Len(rows) > limit THEN limit ELSE Len(rows)) = page
    BY <1>1
  <2> HIDE DEF page, m
  <2>2. [i \in DOMAIN page |-> [entry |-> page[i], running_balance |-> Running(page, i)]] = items
    BY <1>4 DEF items
  <2> HIDE DEF items
  <2> DEFINE given == ledger(asked, limit, cursor)
             next  == NextCursor(rows, limit)
  <2>3. given.entries = items /\ given.next_cursor = next
    <3>1. PICK f : f = compute_balance(Rows, asked, "")
      OBVIOUS
    <3>2. given = [entries |-> items, next_cursor |-> next, final_balance |-> f]
      BY <2>1, <2>2, <3>1, Zenon DEF ledger, rows, Rows
    <3> HIDE DEF given, next
    <3> QED BY ONLY <3>2
  <2>4. NextCursor(rows, limit) = IF left > limit THEN rows[limit].sequence_number ELSE None
    BY <1>1 DEF NextCursor
  <2> QED BY <2>3, <2>4
<1>6. \A i \in 1..m : all[k + i] \in Rows /\ all[k + i].account_id = asked
  <2>1. left = Cardinality(Mine) - k /\ Cardinality(Mine) \in Nat /\ k \in Nat
    BY StatementListed DEF Listed, left, StatementInv, ReaderTypes
  <2>2. \A i \in 1..m : k + i \in 1..Cardinality(Mine)
    <3> HIDE DEF m, k
    <3> QED BY <1>1, <1>2, <2>1
  <2>3. \A i \in 1..Cardinality(Mine) : all[i] \in Mine
    BY StatementListed DEF Listed
  <2> HIDE DEF all, m, k
  <2> QED BY <2>2, <2>3 DEF Mine
<1> HIDE DEF m, all, k, page
<1>7. ASSUME NEW i \in 1..m
      PROVE  Running(page, i) \in Int
  <2>1. PICK X : X = ToSet(SubSeq(page, 1, i))
    OBVIOUS
  <2>2. X \in SUBSET Rows
    <3>1. i \in 0..Len(page) /\ \A j \in 1..i : j \in 1..m
      BY <1>2, <1>4
    <3>2. X = {page[j] : j \in 1..i}
      BY <1>4, <2>1, <3>1, FirstOfList
    <3> QED BY <1>4, <1>6, <3>1, <3>2
  <2>3. IsFiniteSet(X) /\ \A e \in X : e.amount \in Nat
    BY <2>2, RowsAreKnown, RowFacts, FS_Subset
  <2>4. PICK asset : asset = ""
    OBVIOUS
  <2>5. compute_balance(X, page[i].account_id, asset) \in Int
    BY <2>3, BalanceType
  <2> QED BY <2>1, <2>4, <2>5, Zenon DEF Running
<1>8. items \in Seq([entry : EntryRecords, running_balance : Int]) /\ Len(items) = m
      /\ \A j \in 1..m : items[j].entry = all[k + j]
  <2>1. \A i \in 1..m : page[i] \in EntryRecords /\ Running(page, i) \in Int
    <3>1. \A i \in 1..m : page[i] \in EntryRecords
      BY <1>4
    <3>2. \A i \in 1..m : Running(page, i) \in Int
      BY <1>7
    <3> QED BY <3>1, <3>2
  <2>2. \A i \in 1..m : items[i] \in [entry : EntryRecords, running_balance : Int]
    BY <2>1
  <2>3. m \in Nat
    BY <1>1, <1>2
  <2> QED BY <1>4, <2>2, <2>3
<1>10. /\ read' \in Seq([entry : EntryRecords, running_balance : Int])
       /\ Len(read') = k + m
       /\ \A i \in 1..k : read'[i] = read[i]
       /\ \A j \in 1..m : read'[k + j] = items[j]
  <2>1. read \in Seq([entry : EntryRecords, running_balance : Int])
    BY DEF StatementInv, ReaderTypes
  <2> HIDE DEF items
  <2>2. read' = read \o items
    BY <1>3, <1>5
  <2>3. items \in Seq([entry : EntryRecords, running_balance : Int]) /\ Len(items) = m
    BY <1>8
  <2>4. /\ read \o items \in Seq([entry : EntryRecords, running_balance : Int])
        /\ Len(read \o items) = Len(read) + Len(items)
        /\ \A i \in 1..Len(read) : (read \o items)[i] = read[i]
        /\ \A j \in 1..Len(items) : (read \o items)[Len(read) + j] = items[j]
    <3>1. PICK S, s, t : /\ S = [entry : EntryRecords, running_balance : Int]
                         /\ s = read /\ t = items
      OBVIOUS
    <3>2. s \in Seq(S) /\ t \in Seq(S)
      BY <2>1, <2>3, <3>1, Zenon
    <3>3. /\ s \o t \in Seq(S) /\ Len(s \o t) = Len(s) + Len(t)
          /\ \A i \in 1..Len(s) : (s \o t)[i] = s[i]
          /\ \A j \in 1..Len(t) : (s \o t)[Len(s) + j] = t[j]
      BY ONLY <3>2, JoinedLists
    <3> QED BY <3>1, <3>3, Zenon
  <2> QED BY <2>2, <2>3, <2>4, Zenon DEF k
<1>11. cursor' = IF left > limit THEN all[k + limit].sequence_number ELSE None
  <2>1. left > limit => rows[limit] = all[k + limit]
    BY <1>1, <1>2
  <2> QED BY <1>3, <1>5, <2>1
<1>12. /\ m \in 0..left /\ left \in Nat
       /\ \A j \in 1..m : read'[k + j].entry = all[k + j]
       /\ more' = (cursor' # None)
       /\ UNCHANGED <<entries, asked>>
  <2> HIDE DEF items
  <2> QED BY <1>1, <1>2, <1>3, <1>5, <1>8, <1>10
<1> QED BY <1>10, <1>11, <1>12 DEF k, left, m, all

\* A page leaves the reader with the beginning of the statement (Store::ledger).
LEMMA PageKeeps ==
    ASSUME StoreSound, StatementInv, NEW limit \in Limits, ReadPage(limit)
    PROVE  /\ StatementInv'
           /\ ~more' => Len(read') = Cardinality(Mine')
<1> DEFINE k == Len(read)
           n == Cardinality(Mine)
           left == n - k
           m == IF left > limit THEN limit ELSE left
           all == BySequence(Mine)
<1>1. /\ m \in 0..left /\ left \in Nat
      /\ read' \in Seq([entry : EntryRecords, running_balance : Int])
      /\ Len(read') = k + m
      /\ \A i \in 1..k : read'[i] = read[i]
      /\ \A j \in 1..m : read'[k + j].entry = all[k + j]
      /\ cursor' = IF left > limit THEN all[k + limit].sequence_number ELSE None
      /\ more' = (cursor' # None)
      /\ UNCHANGED <<entries, asked>>
  BY NextPage
<1>2. /\ k \in Nat /\ n \in Nat
      /\ \A i \in 1..k : read[i].entry = all[i]
  <2>1. n \in Nat
    BY StatementListed DEF Listed
  <2> HIDE DEF n
  <2> QED BY <2>1 DEF StatementInv, ReaderTypes, ReadInOrder
<1>3. Mine' = Mine /\ Rows' = Rows /\ Mine \in SUBSET Rows
  BY <1>1 DEF Mine, Rows
<1>4. limit \in Nat /\ limit >= 1
  BY LimitsOfPages
<1>5. Listed(Mine, all, n) /\ Numbered(Mine)
  BY StatementListed
<1> HIDE DEF all, n
<1>6. k + m \in Nat /\ k + m <= n /\ m \in Nat /\ (m = left => k + m = n)
  BY <1>1, <1>2
<1>7. ASSUME NEW i \in 1..(k + m) PROVE read'[i].entry = all[i]
  <2> HIDE DEF m, k
  <2>1. CASE i \in 1..k
    BY <1>1, <1>2, <2>1
  <2>2. CASE i \notin 1..k
    <3>1. i - k \in 1..m /\ k + (i - k) = i
      BY <1>2, <1>6, <2>2
    <3> QED BY <1>1, <3>1
  <2> QED BY <2>1, <2>2
<1>11. ASSUME left > limit
       PROVE  /\ cursor' # None /\ Len(read') >= 1
              /\ cursor' = read'[Len(read')].entry.sequence_number
  <2>1. /\ m = limit /\ k + limit \in 1..n /\ k + limit \in 1..(k + m)
        /\ cursor' = all[k + limit].sequence_number
    BY <1>1, <1>2, <1>4, <1>11
  <2>2. all[k + limit] \in EntryRecords
    <3> HIDE DEF k
    <3> QED BY <1>3, <1>5, <2>1, RowsTyped DEF Listed
  <2>3. cursor' # None
    BY <2>1, <2>2, CursorAssumption DEF EntryRecords
  <2>4. Len(read') >= 1 /\ cursor' = read'[Len(read')].entry.sequence_number
    <3>1. read'[k + limit].entry = all[k + limit]
      BY <1>7, <2>1
    <3>2. Len(read') = k + limit
      BY <1>1, <2>1
    <3> HIDE DEF k
    <3> QED BY <1>2, <1>4, <2>1, <3>1, <3>2
  <2> QED BY <2>3, <2>4
<1>12. ReaderTypes'
  BY <1>1 DEF ReaderTypes
<1>13. ReadInOrder' /\ Len(read') = k + m /\ Cardinality(Mine') = n /\ BySequence(Mine') = all
  <2>1. Cardinality(Mine') = n /\ BySequence(Mine') = all
    BY <1>3 DEF n, all
  <2> HIDE DEF k, m
  <2> QED BY <1>1, <1>6, <1>7, <2>1 DEF ReadInOrder
<1>14. CursorAtEnd'
  <2>1. more' => left > limit
    BY <1>1
  <2> HIDE DEF left
  <2> QED BY <1>1, <1>11, <2>1 DEF CursorAtEnd
<1>15. ASSUME ~more' PROVE Len(read') = n
  <2>1. ~(left > limit)
    BY <1>1, <1>11, <1>15
  <2>2. k + m = n
    BY <1>6, <2>1
  <2> HIDE DEF k, m
  <2> QED BY <1>1, <2>2
<1> QED BY <1>12, <1>13, <1>14, <1>15 DEF StatementInv

\* A posting between two pages comes behind what has been read (post_via_memory).
LEMMA PostKeeps ==
    ASSUME StoreSound, Numbered(Rows)', StatementInv, [Next]_vars, UNCHANGED reader
    PROVE  StatementInv'
<1>1. /\ read' = read /\ asked' = asked /\ cursor' = cursor /\ more' = more
  BY DEF reader
<1>2. /\ Rows \subseteq Rows'
      /\ \A e \in Rows' \ Rows : e.sequence_number \in Nat /\ e.sequence_number > Len(entries)
  BY RowsGrow
<1>3. RowsKnown
  BY RowsAreKnown
<1>4. PICK early, rows : early = Mine /\ rows = Mine'
  OBVIOUS
<1>5. early \in SUBSET rows /\ rows \in SUBSET Rows'
  BY <1>1, <1>2, <1>4 DEF Mine
<1>6. Numbered(rows)
  BY <1>5, FS_Subset DEF Numbered
<1>7. \A e \in early, x \in rows \ early : e.sequence_number < x.sequence_number
  <2> SUFFICES ASSUME NEW e \in early, NEW x \in rows \ early
               PROVE  e.sequence_number < x.sequence_number
    OBVIOUS
  <2>1. e \in Rows /\ x \in Rows' \ Rows
    BY <1>1, <1>2, <1>4 DEF Mine
  <2>2. Len(entries) \in Nat /\ e.sequence_number \in 1..Len(entries)
    BY <1>3, <2>1 DEF RowsKnown
  <2>3. x.sequence_number \in Nat /\ x.sequence_number > Len(entries)
    BY <1>2, <2>1
  <2> QED BY <2>2, <2>3
<1>8. \A i \in 1..Cardinality(early) : BySequence(rows)[i] = BySequence(early)[i]
  BY <1>5, <1>6, <1>7, ListGrows
<1>9. Cardinality(early) \in Nat /\ Cardinality(rows) \in Nat
      /\ Cardinality(early) <= Cardinality(rows)
  <2>1. IsFiniteSet(rows)
    BY <1>6 DEF Numbered
  <2> QED BY <1>5, <2>1, FS_Subset, FS_CardinalityType
<1>10. Len(read) \in Nat /\ Len(read) <= Cardinality(early)
       /\ \A k \in 1..Len(read) : read[k].entry = BySequence(early)[k]
  BY <1>4 DEF StatementInv, ReaderTypes, ReadInOrder
<1>11. ReadInOrder'
  <2>1. \A k \in 1..Len(read) : k \in 1..Cardinality(early)
    BY <1>9, <1>10
  <2>2. \A k \in 1..Len(read) : read[k].entry = BySequence(rows)[k]
    BY <1>8, <1>10, <2>1
  <2>3. Len(read) <= Cardinality(rows)
    BY <1>9, <1>10
  <2> QED BY <1>1, <1>4, <2>2, <2>3 DEF ReadInOrder
<1>12. ReaderTypes' /\ CursorAtEnd'
  BY <1>1 DEF StatementInv, ReaderTypes, CursorAtEnd
<1> QED BY <1>11, <1>12 DEF StatementInv

\* A reader starts over with nothing read.
Started == read = <<>> /\ cursor = None

LEMMA StartKeeps == Numbered(Rows) /\ Started => StatementInv
<1> SUFFICES ASSUME Numbered(Rows), read = <<>>, cursor = None
             PROVE  StatementInv
  BY DEF Started
<1>3. Cardinality(Mine) \in Nat
  <2>1. IsFiniteSet(Rows) /\ Mine \in SUBSET Rows
    BY DEF Numbered, Mine
  <2> QED BY <2>1, FS_Subset, FS_CardinalityType
<1>4. ReaderTypes /\ ReadInOrder /\ CursorAtEnd
  BY <1>3 DEF ReaderTypes, ReadInOrder, CursorAtEnd
<1> QED BY <1>4 DEF StatementInv

LEMMA StatementIsSound == ServiceSpec => []StoreSound /\ [][Next]_vars /\ []StatementInv
<1>1. ServiceInit => Numbered(Rows) /\ StatementInv
  <2>1. ServiceInit => Rows = {}
    BY DEF ServiceInit, Init, Rows, ToSet
  <2>2. Rows = {} => Numbered(Rows)
    BY FS_EmptySet DEF Numbered
  <2> QED BY <2>1, <2>2, StartKeeps DEF ServiceInit, Started
<1>2. StoreSound => Numbered(Rows)
  BY RowsAreKnown DEF RowsKnown
<1>3. StoreSound /\ Numbered(Rows)' /\ [Next]_vars /\ StatementInv /\ [ServiceNext]_service
      /\ (Numbered(Rows) /\ Started => StatementInv)'
      => StatementInv'
  <2> SUFFICES ASSUME StoreSound, Numbered(Rows)', [Next]_vars, StatementInv,
                      [ServiceNext]_service, (Numbered(Rows) /\ Started => StatementInv)'
               PROVE  StatementInv'
    OBVIOUS
  <2>1. CASE UNCHANGED reader
    BY <2>1, PostKeeps
  <2>2. ASSUME NEW limit \in Limits, ReadPage(limit) PROVE StatementInv'
    BY <2>2, PageKeeps
  <2>3. ASSUME NEW a, Ask(a) PROVE StatementInv'
    BY <2>3 DEF Ask, Started
  <2> QED BY <2>1, <2>2, <2>3 DEF ServiceNext, service
<1> QED BY <1>1, <1>2, <1>3, StartKeeps, StoreInService, PTL DEF ServiceSpec

\* The statement of the account as it is now.
LEMMA WholeStatement == After(asked, None) = BySequence(Mine)
<1>1. {e \in ToSet(entries) : /\ e.account_id = asked
                              /\ None = None \/ e.sequence_number > None} = Mine
  BY DEF Mine, Rows
<1> QED BY <1>1 DEF After

LEMMA ReadSoFar ==
    ASSUME StoreSound, StatementInv
    PROVE  /\ IsPrefix(EntriesRead, After(asked, None))
           /\ Len(read) = Cardinality(Mine) => EntriesRead = After(asked, None)
<1> DEFINE k == Len(read)
           n == Cardinality(Mine)
           all == BySequence(Mine)
<1>1. Listed(Mine, all, n) /\ Mine \in SUBSET Rows
  BY StatementListed DEF Mine
<1>2. /\ k \in Nat /\ n \in Nat /\ k <= n /\ DOMAIN read = 1..k
      /\ \A i \in 1..k : read[i].entry = all[i]
  <2>1. n \in Nat
    BY <1>1 DEF Listed
  <2> QED BY <2>1 DEF StatementInv, ReaderTypes, ReadInOrder
<1> HIDE DEF k, n, all
<1>3. \A i \in 1..n : all[i] \in EntryRecords
  BY <1>1, RowsTyped DEF Listed
<1>4. all = [i \in 1..n |-> all[i]] /\ DOMAIN all = 1..n /\ Len(all) = n
  BY <1>1 DEF Listed, BySequence, all
<1>5. all \in Seq(EntryRecords)
  BY <1>2, <1>3, <1>4
<1>6. EntriesRead = [i \in 1..k |-> all[i]]
  BY <1>2 DEF EntriesRead
<1>7. \A i \in 1..k : all[i] \in EntryRecords
  BY <1>2, <1>3
<1>8. /\ EntriesRead \in Seq(EntryRecords) /\ Len(EntriesRead) = k
      /\ \A i \in 1..k : EntriesRead[i] = all[i]
  BY <1>2, <1>6, <1>7
<1>9. IsPrefix(EntriesRead, all)
  BY <1>2, <1>4, <1>5, <1>8, PrefixByElements
<1>10. k = n => EntriesRead = all
  BY <1>4, <1>6
<1> QED BY <1>9, <1>10, WholeStatement DEF k, n, all

\* However a statement is cut into pages and whatever is posted between them, what has
\* been read is the beginning of the statement (Store::ledger, cursor and limit).
THEOREM PagesAlwaysFollowOn == ServiceSpec => []PagesFollowOn
<1>1. StoreSound /\ StatementInv => PagesFollowOn
  BY ReadSoFar DEF PagesFollowOn
<1> QED BY <1>1, StatementIsSound, PTL

\* Who is told that there is no further page has read every entry the account has then
\* (Store::ledger, next_cursor).
THEOREM LastPageAlwaysCompletes == ServiceSpec => LastPageCompletes
<1>1. StoreSound /\ StatementInv
      => (Len(read) = Cardinality(Mine) => EntriesRead = After(asked, None))
  BY ReadSoFar
<1>2. /\ StoreSound /\ StatementInv /\ [ServiceNext]_service
      /\ (Len(read) = Cardinality(Mine) => EntriesRead = After(asked, None))'
      => [more /\ ~more' => EntriesRead' = After(asked, None)']_<<vars, reader>>
  <2> SUFFICES ASSUME StoreSound, StatementInv, [ServiceNext]_service, more, ~more',
                      (Len(read) = Cardinality(Mine) => EntriesRead = After(asked, None))'
               PROVE  EntriesRead' = After(asked, None)'
    OBVIOUS
  <2>1. PICK limit \in Limits : ReadPage(limit)
    BY DEF ServiceNext, service, reader, Ask
  <2>2. (Len(read) = Cardinality(Mine))'
    BY <2>1, PageKeeps
  <2> QED BY <2>2
<1> QED BY <1>1, <1>2, StatementIsSound, PTL DEF ServiceSpec, LastPageCompletes
=============================================================================
