--------------------------- MODULE MemStoreProofs ---------------------------
(***************************************************************************)
(* Proofs about the in-memory store, for every set of requests, payloads,  *)
(* accounts and limits: that its state is well typed and its chain always  *)
(* verifies, that the records of a posting agree and stay, that callers    *)
(* are told the truth, so that the store implements the journal, that the  *)
(* books balance and that every posting has its event.                     *)
(***************************************************************************)
EXTENDS MemStore, AccountingProofs

-----------------------------------------------------------------------------
(* The loop that hashes the entries of a posting.                          *)

\* The line that an entry adds to the chain.
LEMMA ChainedLineType ==
    ASSUME NEW r \in Requests, NEW lines \in Seq(Lines), NEW j \in 1..Len(lines)
    PROVE  ChainedLine(r, lines, j) \in HashLines
<1>1. lines[j] \in Lines
  OBVIOUS
<1>2. EntryId(r, j) \in EntryIds
  BY DEF EntryId, EntryIds
<1> QED BY <1>1, <1>2 DEF ChainedLine, canonical_bytes, HashLines, Lines

\* The running hash of the posting loop is a hash (posting::compute_hash in
\* post_via_memory).
LEMMA HashAfterType ==
    ASSUME NEW r \in Requests, NEW lines \in Seq(Lines), NEW prev \in Hashes,
           NEW k \in 0..Len(lines)
    PROVE  HashAfter(r, lines, prev, k) \in Hashes
<1>1. k \in Nat /\ \A j \in 1..k : j \in 1..Len(lines)
  OBVIOUS
<1>2. \A j \in 1..k : ChainedLine(r, lines, j) \in HashLines
  BY <1>1, ChainedLineType
<1> QED BY <1>1, <1>2, RunningHashType DEF Hashes

\* What a validated posting creates: one well-formed entry per line, numbered and
\* chained on from the sequence number and the head it was given.
LEMMA CreatedEntriesType ==
    ASSUME NEW r \in Requests, NEW prev \in Hashes, NEW seq \in Nat
    PROVE  LET created == CreatedEntries(r, Payload[r], prev, seq)
           IN  /\ created \in Seq(EntryRecords)
               /\ Len(created) = Len(Payload[r].entries)
<1> DEFINE lines == Payload[r].entries
           n == Len(lines)
           row(k) == [entry_id        |-> EntryId(r, k),
                      posting_id      |-> Payload[r].posting_id,
                      account_id      |-> lines[k].account_id,
                      direction       |-> lines[k].direction,
                      amount          |-> lines[k].amount,
                      asset           |-> lines[k].asset,
                      sequence_number |-> seq + k,
                      prev_hash       |-> HashAfter(r, lines, prev, k - 1),
                      this_hash       |-> HashAfter(r, lines, prev, k)]
<1>1. lines \in Seq(Lines) /\ Payload[r].posting_id \in STRING /\ n \in Nat
  BY PayloadAssumption
<1>2. ASSUME NEW k \in 1..n PROVE row(k) \in EntryRecords
  <2>1. lines[k] \in Lines
    BY <1>1
  <2>2. EntryId(r, k) \in EntryIds
    BY DEF EntryId, EntryIds
  <2>3. /\ HashAfter(r, lines, prev, k - 1) \in Hashes
        /\ HashAfter(r, lines, prev, k) \in Hashes
    <3>1. k - 1 \in 0..Len(lines) /\ k \in 0..Len(lines)
      BY <1>1
    <3> QED BY <1>1, <3>1, HashAfterType
  <2> QED BY <1>1, <2>1, <2>2, <2>3 DEF EntryRecords, Lines
<1>3. CreatedEntries(r, Payload[r], prev, seq) = [k \in 1..n |-> row(k)]
  BY DEF CreatedEntries
<1> HIDE DEF row
<1>4. [k \in 1..n |-> row(k)] \in [1..n -> EntryRecords]
  BY <1>2
<1> QED BY <1>1, <1>3, <1>4

-----------------------------------------------------------------------------
(* Type correctness.                                                       *)

\* The list of entry_ids in an answer or an event.
LEMMA IdsOfType ==
    ASSUME NEW rows \in Seq(EntryRecords)
    PROVE  IdsOf(rows) \in Seq(EntryIds)
<1>1. ASSUME NEW k \in 1..Len(rows) PROVE rows[k].entry_id \in EntryIds
  <2>1. rows[k] \in EntryRecords
    OBVIOUS
  <2> QED BY <2>1 DEF EntryRecords
<1>2. IdsOf(rows) \in [1..Len(rows) -> EntryIds]
  BY <1>1 DEF IdsOf
<1> QED BY <1>2

\* account::validate lets through only types of the chart and known classes.
LEMMA ChartClasses ==
    ASSUME NEW req, validate(req)
    PROVE  req.type_name \in DOMAIN CHART /\ req.asset_class \in AssetClass
BY DEF validate, find_type

\* An answer without a result.
LEMMA EmptyType ==
    ASSUME NEW kind \in {"none", "Validation", "Unbalanced"}
    PROVE  Empty(kind) \in Responses
<1>1. <<>> \in Seq(EntryIds) /\ <<>> \in Seq(HashLines)
  BY EmptySeq
<1> QED BY <1>1 DEF Empty, Responses, Hashes, GENESIS_HASH

\* The outcomes of post's own checks.
LEMMA PostErrorKinds ==
    ASSUME NEW r \in Requests
    PROVE  PostError(Payload[r]) \in {"none", "Validation", "Unbalanced"}
BY DEF PostError

\* Every state of the store is well-formed: a step of create_account or of any
\* outcome of post keeps every map, list and answer within its type.
THEOREM TypeCorrect == Spec => []TypeOK
<1>1. Init => TypeOK
  <2> SUFFICES ASSUME Init PROVE TypeOK
    OBVIOUS
  <2>1. DOMAIN <<>> = {}
    OBVIOUS
  <2>2. entries \in Seq(EntryRecords) /\ audit_events \in Seq(AuditEvents)
    BY EmptySeq DEF Init
  <2>3. global_chain_head \in Hashes
    BY EmptySeq DEF Init, Hashes, GENESIS_HASH
  <2>4. resp \in [Requests -> Responses]
    BY EmptyType DEF Init
  <2> QED BY <2>1, <2>2, <2>3, <2>4 DEF Init, TypeOK
<1>2. TypeOK /\ [Next]_vars => TypeOK'
  <2> SUFFICES ASSUME TypeOK, [Next]_vars PROVE TypeOK'
    OBVIOUS
  <2>1. ASSUME NEW req \in AccountRequests, CreateAccount(req) PROVE TypeOK'
    <3>1. PICK id \in IF req.account_id = None THEN GeneratedIds ELSE {req.account_id} :
              accounts' = Insert(accounts, id, [type_name   |-> req.type_name,
                                                asset_class |-> req.asset_class,
                                                status      |-> "ACTIVE"])
      BY <2>1 DEF CreateAccount
    <3>2. id \in STRING
      BY <3>1, AccountRequestsAssumption
    <3>3. [type_name |-> req.type_name, asset_class |-> req.asset_class,
           status |-> "ACTIVE"] \in Accounts
      BY <2>1, ChartClasses DEF CreateAccount, Accounts
    <3>4. /\ DOMAIN accounts' \subseteq STRING
          /\ \A a \in DOMAIN accounts' : accounts'[a] \in Accounts
      BY <3>1, <3>2, <3>3 DEF TypeOK, Insert
    <3> QED BY <2>1, <3>4 DEF TypeOK, CreateAccount
  <2>2. ASSUME NEW r \in Requests, PostRefused(r) PROVE TypeOK'
    <3>1. Empty(PostError(Payload[r])) \in Responses
      BY PostErrorKinds, EmptyType
    <3> QED BY <2>2, <3>1 DEF TypeOK, PostRefused
  <2>3. ASSUME NEW r \in Requests, PostReplayed(r) PROVE TypeOK'
    <3>1. postings[Payload[r].posting_id] \in PostingRecords
      BY <2>3 DEF TypeOK, PostReplayed, Known
    <3>2. ReplayOf(Payload[r].posting_id) \in Responses
      BY <3>1, IdsOfType DEF ReplayOf, PostingRecords, Responses
    <3> QED BY <2>3, <3>2 DEF TypeOK, PostReplayed
  <2>4. ASSUME NEW r \in Requests, PostAccountRefused(r) PROVE TypeOK'
    <3>1. Empty("Validation") \in Responses
      BY EmptyType
    <3> QED BY <2>4, <3>1 DEF TypeOK, PostAccountRefused
  <2>5. ASSUME NEW r \in Requests, PostCreated(r) PROVE TypeOK'
    <3> DEFINE id == Payload[r].posting_id
               created == CreatedEntries(r, Payload[r], global_chain_head, sequence)
               head == HashAfter(r, Payload[r].entries, global_chain_head,
                                 Len(Payload[r].entries))
    <3>1. id \in STRING /\ Payload[r].entries \in Seq(Lines)
      BY PayloadAssumption
    <3>2. created \in Seq(EntryRecords) /\ Len(created) = Len(Payload[r].entries)
      BY CreatedEntriesType DEF TypeOK
    <3>3. head \in Hashes
      BY <3>1, HashAfterType DEF TypeOK
    <3>4. IdsOf(created) \in Seq(EntryIds)
      BY <3>2, IdsOfType
    <3>5. /\ sequence' = sequence + Len(Payload[r].entries)
          /\ postings' = Insert(postings, id, [hash_head |-> head, entries |-> created])
          /\ entries' = entries \o created
          /\ hash_chain_anchors' =
                Insert(hash_chain_anchors, id,
                       [head_hash |-> head, global_sequence_head |-> head])
          /\ global_chain_head' = head
          /\ audit_events' = Append(audit_events, EventOf(id, IdsOf(created), head))
          /\ resp' = [resp EXCEPT ![r] = [kind |-> "created",
                                          entry_ids |-> IdsOf(created),
                                          hash_head |-> head]]
          /\ accounts' = accounts
      BY <2>5 DEF PostCreated
    <3> HIDE DEF id, created, head
    <3>6. /\ DOMAIN accounts' \subseteq STRING
          /\ \A a \in DOMAIN accounts' : accounts'[a] \in Accounts
      BY <3>5 DEF TypeOK
    <3>7. /\ DOMAIN postings' \subseteq STRING
          /\ \A p \in DOMAIN postings' : postings'[p] \in PostingRecords
      BY <3>1, <3>2, <3>3, <3>5 DEF TypeOK, Insert, PostingRecords
    <3>8. entries' \in Seq(EntryRecords) /\ sequence' \in Nat
      BY <3>1, <3>2, <3>5, ConcatProperties DEF TypeOK
    <3>9. audit_events' \in Seq(AuditEvents)
      <4>1. EventOf(id, IdsOf(created), head) \in AuditEvents
        BY <3>1, <3>3, <3>4 DEF EventOf, AuditEvents, id
      <4> QED BY <3>5, <4>1 DEF TypeOK
    <3>10. /\ DOMAIN hash_chain_anchors' \subseteq STRING
           /\ \A p \in DOMAIN hash_chain_anchors' : hash_chain_anchors'[p] \in Anchors
      BY <3>1, <3>3, <3>5 DEF TypeOK, Insert, Anchors
    <3>11. global_chain_head' \in Hashes /\ resp' \in [Requests -> Responses]
      BY <3>3, <3>4, <3>5 DEF TypeOK, Responses
    <3> QED BY <3>6, <3>7, <3>8, <3>9, <3>10, <3>11 DEF TypeOK
  <2>6. CASE UNCHANGED vars
    BY <2>6 DEF vars, TypeOK
  <2> QED BY <2>1, <2>2, <2>3, <2>4, <2>5, <2>6 DEF Next, Post
<1> QED BY <1>1, <1>2, PTL DEF Spec

-----------------------------------------------------------------------------
(* The hash chain.                                                         *)

\* Entry k of a new posting: its link to the entry before it is the running hash
\* of the loop, and verify_chain would accept it after that hash.
LEMMA CreatedEntryLinks ==
    ASSUME NEW r \in Requests, NEW prev \in Hashes, NEW seq \in Nat,
           PostError(Payload[r]) = "none",
           NEW k \in 1..Len(Payload[r].entries)
    PROVE  LET row == CreatedEntries(r, Payload[r], prev, seq)[k]
           IN  /\ row.entry_id = EntryId(r, k)
               /\ row.posting_id = Payload[r].posting_id
               /\ row.sequence_number = seq + k
               /\ row.this_hash = HashAfter(r, Payload[r].entries, prev, k)
               /\ LinkOK(row, HashAfter(r, Payload[r].entries, prev, k - 1))
<1>1. Payload[r].entries \in Seq(Lines) /\ prev \in Seq(HashLines)
  BY PayloadAssumption DEF Hashes
<1>2. Hashable(HashLines, r, Payload[r].entries)
  BY <1>1, ChainedLineType DEF Hashable
<1>3. IsEntry(CreatedEntries(r, Payload[r], prev, seq)[k], r, Payload[r], prev, seq, k)
  BY <1>1, <1>2, NewEntryLinks
<1> QED BY <1>3 DEF IsEntry

\* The part of the invariant that the chain needs: types and the chain itself.
ChainInv == TypeOK /\ ChainVerifies

\* Booking a posting keeps the chain unbroken, its head current and the numbering
\* without gap (post_via_memory, hashchain::verify_chain).
LEMMA PostCreatedKeepsChain ==
    ASSUME ChainInv, NEW r \in Requests, PostCreated(r)
    PROVE  ChainVerifies'
<1> DEFINE lines == Payload[r].entries
           m == Len(lines)
           n == Len(entries)
           created == CreatedEntries(r, Payload[r], global_chain_head, sequence)
           hash(k) == HashAfter(r, lines, global_chain_head, k)
<1>1. /\ lines \in Seq(Lines) /\ m \in Nat /\ m >= 1
      /\ entries \in Seq(EntryRecords) /\ n \in Nat
      /\ global_chain_head \in Hashes /\ sequence \in Nat
      /\ sequence = n /\ global_chain_head = global_head(entries)
      /\ PostError(Payload[r]) = "none"
  <2>1. lines \in Seq(Lines) /\ lines # <<>>
    BY PayloadAssumption DEF PostCreated, PostError, Validated
  <2>2. m \in Nat /\ m >= 1
    BY <2>1, EmptySeq
  <2> QED BY <2>1, <2>2 DEF ChainInv, TypeOK, ChainVerifies, PostCreated
<1>2. created \in Seq(EntryRecords) /\ Len(created) = m
  BY <1>1, CreatedEntriesType
<1>3. \A k \in 1..m : /\ created[k].sequence_number = n + k
                     /\ created[k].this_hash = hash(k)
                     /\ LinkOK(created[k], hash(k - 1))
  BY <1>1, CreatedEntryLinks
<1>4. hash(0) = global_chain_head
  BY <1>1, RunningHashZero DEF Hashes
<1>5. /\ entries' = entries \o created
      /\ sequence' = sequence + m
      /\ global_chain_head' = hash(m)
  BY DEF PostCreated
<1> HIDE DEF created, hash, lines, m
<1>6. /\ Len(entries') = n + m
      /\ entries' \in Seq(EntryRecords)
      /\ \A i \in 1..n : entries'[i] = entries[i]
      /\ \A k \in 1..m : entries'[n + k] = created[k]
  <2>0. entries \in Seq(EntryRecords) /\ created \in Seq(EntryRecords)
    BY <1>1, <1>2
  <2>1. /\ entries \o created \in Seq(EntryRecords)
        /\ Len(entries \o created) = Len(entries) + Len(created)
        /\ \A i \in 1..Len(entries) : (entries \o created)[i] = entries[i]
        /\ \A k \in 1..Len(created) :
              (entries \o created)[Len(entries) + k] = created[k]
    BY <2>0, Extended
  <2> QED BY <2>1, <1>2, <1>5
<1>7. Line(entries')
  <2> DEFINE h == [k \in 0..m |-> hash(k)]
  <2>1. Line(entries)
    BY <1>1 DEF Line, ChainInv, ChainVerifies
  <2>2. h[0] = global_head(entries)
    BY <1>1, <1>4
  <2>3. \A k \in 1..Len(created) : /\ created[k].sequence_number = Len(entries) + k
                                   /\ created[k].this_hash = h[k]
                                   /\ LinkOK(created[k], h[k - 1])
    <3>1. ASSUME NEW k \in 1..m
          PROVE  /\ created[k].sequence_number = n + k
                 /\ created[k].this_hash = h[k] /\ LinkOK(created[k], h[k - 1])
      <4>1. k \in 0..m /\ k - 1 \in 0..m
        BY <1>1
      <4> QED BY <1>3, <4>1
    <3> QED BY <1>2, <3>1
  <2>4. entries \in Seq(EntryRecords) /\ created \in Seq(EntryRecords)
    BY <1>1, <1>2
  <2> HIDE DEF h
  <2>5. Line(entries \o created)
    BY ONLY <2>1, <2>2, <2>3, <2>4, LongerLine
  <2> QED BY <1>5, <2>5
<1>8. (global_chain_head = global_head(entries))'
  <2>1. m \in 1..m /\ entries'[n + m] = created[m] /\ created[m].this_hash = hash(m)
    BY <1>1, <1>3, <1>6
  <2>2. entries' # <<>>
    BY <1>1, <1>6, EmptySeq
  <2> QED BY <1>5, <1>6, <2>1, <2>2 DEF global_head
<1>9. DOMAIN entries' = 1..Len(entries')
  BY <1>6
<1> QED BY <1>1, <1>5, <1>6, <1>7, <1>8, <1>9 DEF ChainVerifies, Line

\* A step that books nothing leaves entries, sequence and head alone.
LEMMA OthersKeepChain ==
    ASSUME ChainVerifies, UNCHANGED <<entries, sequence, global_chain_head>>
    PROVE  ChainVerifies'
BY DEF ChainVerifies

\* However requests and retries arrive, the chain verifies in every state, the
\* head is its last hash and the numbering has no gap.
THEOREM ChainAlwaysVerifies == Spec => []ChainVerifies
<1>1. Init => ChainVerifies
  BY DEF Init, ChainVerifies, verify_chain, global_head, GENESIS_HASH
<1>2. ChainInv /\ [Next]_vars => ChainVerifies'
  <2> SUFFICES ASSUME ChainInv, [Next]_vars PROVE ChainVerifies'
    OBVIOUS
  <2>1. ASSUME NEW r \in Requests, PostCreated(r) PROVE ChainVerifies'
    BY <2>1, PostCreatedKeepsChain
  <2>2. ASSUME NEW req \in AccountRequests, CreateAccount(req) PROVE ChainVerifies'
    BY <2>2, OthersKeepChain DEF ChainInv, CreateAccount
  <2>3. ASSUME NEW r \in Requests,
               PostRefused(r) \/ PostReplayed(r) \/ PostAccountRefused(r)
        PROVE  ChainVerifies'
    BY <2>3, OthersKeepChain DEF ChainInv, PostRefused, PostReplayed, PostAccountRefused
  <2>4. CASE UNCHANGED vars
    BY <2>4, OthersKeepChain DEF ChainInv, vars
  <2> QED BY <2>1, <2>2, <2>3, <2>4 DEF Next, Post
<1> QED BY <1>1, <1>2, TypeCorrect, PTL DEF Spec, ChainInv

-----------------------------------------------------------------------------
(* Postings.                                                               *)

\* Everything post_via_memory does when it books a posting, in the terms the proofs
\* need: what it creates, where that goes and what it leaves as it was.
LEMMA NewPosting ==
    ASSUME ChainInv, NEW r \in Requests, PostCreated(r)
    PROVE  LET id   == Payload[r].posting_id
               rows == CreatedEntries(r, Payload[r], global_chain_head, sequence)
               head == HashAfter(r, Payload[r].entries, global_chain_head,
                                 Len(Payload[r].entries))
           IN  /\ id \in STRING /\ id \notin DOMAIN postings
               /\ PostError(Payload[r]) = "none"
               /\ rows \in Seq(EntryRecords) /\ Len(rows) \in Nat /\ Len(rows) >= 1
               /\ \A k \in 1..Len(rows) :
                     /\ rows[k].entry_id = EntryId(r, k)
                     /\ rows[k].posting_id = id
                     /\ rows[k].sequence_number = Len(entries) + k
               /\ rows[Len(rows)].this_hash = head
               /\ entries \in Seq(EntryRecords) /\ entries' \in Seq(EntryRecords)
               /\ Len(entries') = Len(entries) + Len(rows)
               /\ \A i \in 1..Len(entries) : entries'[i] = entries[i]
               /\ \A k \in 1..Len(rows) : entries'[Len(entries) + k] = rows[k]
               /\ postings' = Insert(postings, id, [hash_head |-> head, entries |-> rows])
               /\ hash_chain_anchors' =
                     Insert(hash_chain_anchors, id,
                            [head_hash |-> head, global_sequence_head |-> head])
               /\ resp' = [resp EXCEPT ![r] = [kind |-> "created",
                                               entry_ids |-> IdsOf(rows),
                                               hash_head |-> head]]
<1> DEFINE lines == Payload[r].entries
           m == Len(lines)
           id == Payload[r].posting_id
           rows == CreatedEntries(r, Payload[r], global_chain_head, sequence)
           head == HashAfter(r, lines, global_chain_head, m)
<1>1. /\ lines \in Seq(Lines) /\ m \in Nat /\ m >= 1 /\ id \in STRING
      /\ PostError(Payload[r]) = "none" /\ id \notin DOMAIN postings
  <2>1. lines \in Seq(Lines) /\ id \in STRING
    BY PayloadAssumption
  <2>2. lines # <<>> /\ PostError(Payload[r]) = "none" /\ id \notin DOMAIN postings
    BY DEF PostCreated, PostError, Validated, Known
  <2> QED BY <2>1, <2>2, EmptySeq
<1>2. /\ global_chain_head \in Hashes /\ sequence \in Nat /\ sequence = Len(entries)
      /\ entries \in Seq(EntryRecords)
  BY DEF ChainInv, TypeOK, ChainVerifies
<1>3. rows \in Seq(EntryRecords) /\ Len(rows) = m
  BY <1>2, CreatedEntriesType
<1>4. \A k \in 1..m : /\ rows[k].entry_id = EntryId(r, k)
                     /\ rows[k].posting_id = id
                     /\ rows[k].sequence_number = Len(entries) + k
                     /\ rows[k].this_hash = HashAfter(r, lines, global_chain_head, k)
  <2>1. ASSUME NEW k \in 1..m
        PROVE  /\ rows[k].entry_id = EntryId(r, k)
               /\ rows[k].posting_id = id
               /\ rows[k].sequence_number = sequence + k
               /\ rows[k].this_hash = HashAfter(r, lines, global_chain_head, k)
    BY <1>1, <1>2, CreatedEntryLinks
  <2> HIDE DEF rows, lines, m, id
  <2> QED BY <1>2, <2>1
<1>5. rows[Len(rows)].this_hash = head
  BY <1>1, <1>3, <1>4
<1>6. /\ entries' = entries \o rows
      /\ postings' = Insert(postings, id, [hash_head |-> head, entries |-> rows])
      /\ hash_chain_anchors' = Insert(hash_chain_anchors, id,
                                      [head_hash |-> head, global_sequence_head |-> head])
      /\ resp' = [resp EXCEPT ![r] = [kind |-> "created", entry_ids |-> IdsOf(rows),
                                      hash_head |-> head]]
  BY DEF PostCreated
<1> HIDE DEF rows, head, lines, m, id
<1>7. /\ entries' \in Seq(EntryRecords)
      /\ Len(entries') = Len(entries) + Len(rows)
      /\ \A i \in 1..Len(entries) : entries'[i] = entries[i]
      /\ \A k \in 1..Len(rows) : entries'[Len(entries) + k] = rows[k]
  <2>1. /\ entries \o rows \in Seq(EntryRecords)
        /\ Len(entries \o rows) = Len(entries) + Len(rows)
        /\ \A i \in 1..Len(entries) : (entries \o rows)[i] = entries[i]
        /\ \A k \in 1..Len(rows) : (entries \o rows)[Len(entries) + k] = rows[k]
    BY <1>2, <1>3, Extended
  <2> QED BY <2>1, <1>6
<1> QED BY <1>1, <1>2, <1>3, <1>4, <1>5, <1>6, <1>7 DEF rows, head, lines, m, id

-----------------------------------------------------------------------------
(* The records of a posting agree.                                         *)

\* The conjuncts of RowsAgree: about one record, and about one entry.
RecordAgrees(p) ==
    LET rows == postings[p].entries
    IN  /\ rows # <<>>
        /\ \A k \in DOMAIN rows :
              /\ rows[k].posting_id = p
              /\ rows[k].sequence_number = rows[1].sequence_number + k - 1
              /\ rows[k].sequence_number \in DOMAIN entries
              /\ entries[rows[k].sequence_number] = rows[k]
        /\ postings[p].hash_head = rows[Len(rows)].this_hash
        /\ hash_chain_anchors[p] = [head_hash            |-> postings[p].hash_head,
                                    global_sequence_head |-> postings[p].hash_head]
EntryAgrees(i) ==
    /\ entries[i].posting_id \in DOMAIN postings
    /\ \E k \in DOMAIN postings[entries[i].posting_id].entries :
          postings[entries[i].posting_id].entries[k] = entries[i]

\* RowsAgree is the conjunction of them.
LEMMA RowsAgreeParts ==
    RowsAgree <=> /\ DOMAIN hash_chain_anchors = DOMAIN postings
                  /\ \A p \in DOMAIN postings : RecordAgrees(p)
                  /\ \A i \in DOMAIN entries : EntryAgrees(i)
BY DEF RowsAgree, RecordAgrees, EntryAgrees

\* Booking a posting adds its block at the end of the journal and its record and
\* anchor beside the others (post_via_memory).
LEMMA PostCreatedKeepsRows ==
    ASSUME ChainInv, RowsAgree, NEW r \in Requests, PostCreated(r)
    PROVE  RowsAgree'
<1> DEFINE id == Payload[r].posting_id
           rows == CreatedEntries(r, Payload[r], global_chain_head, sequence)
           head == HashAfter(r, Payload[r].entries, global_chain_head,
                             Len(Payload[r].entries))
           n == Len(entries)
           m == Len(rows)
<1>1. /\ id \notin DOMAIN postings
      /\ rows \in Seq(EntryRecords) /\ m \in Nat /\ m >= 1
      /\ \A k \in 1..m : /\ rows[k].posting_id = id
                         /\ rows[k].sequence_number = n + k
      /\ rows[m].this_hash = head
      /\ entries \in Seq(EntryRecords) /\ entries' \in Seq(EntryRecords)
      /\ Len(entries') = n + m
      /\ \A i \in 1..n : entries'[i] = entries[i]
      /\ \A k \in 1..m : entries'[n + k] = rows[k]
      /\ postings' = Insert(postings, id, [hash_head |-> head, entries |-> rows])
      /\ hash_chain_anchors' =
            Insert(hash_chain_anchors, id,
                   [head_hash |-> head, global_sequence_head |-> head])
  BY NewPosting
<1> HIDE DEF id, rows, head
<1>2. n \in Nat /\ DOMAIN entries = 1..n /\ DOMAIN entries' = 1..(n + m)
  BY <1>1
<1> HIDE DEF n, m
<1>3. /\ DOMAIN hash_chain_anchors = DOMAIN postings
      /\ \A p \in DOMAIN postings : RecordAgrees(p)
      /\ \A i \in DOMAIN entries : EntryAgrees(i)
  BY RowsAgreeParts
<1>4. /\ DOMAIN postings' = DOMAIN postings \cup {id}
      /\ DOMAIN hash_chain_anchors' = DOMAIN postings'
      /\ postings'[id] = [hash_head |-> head, entries |-> rows]
      /\ hash_chain_anchors'[id] = [head_hash |-> head, global_sequence_head |-> head]
      /\ \A p \in DOMAIN postings : /\ postings'[p] = postings[p]
                                    /\ hash_chain_anchors'[p] = hash_chain_anchors[p]
  BY <1>1, <1>3 DEF Insert
<1>5. ASSUME NEW p \in DOMAIN postings' PROVE RecordAgrees(p)'
  <2>1. CASE p = id
    <3>1. rows # <<>> /\ DOMAIN rows = 1..m /\ 1 \in 1..m
      BY <1>1, EmptySeq DEF m
    <3>2. \A k \in DOMAIN rows :
             /\ rows[k].posting_id = p
             /\ rows[k].sequence_number = rows[1].sequence_number + k - 1
             /\ rows[k].sequence_number \in DOMAIN entries'
             /\ entries'[rows[k].sequence_number] = rows[k]
      BY <1>1, <1>2, <2>1, <3>1
    <3>3. postings'[p].entries = rows /\ postings'[p].hash_head = head
      BY <1>4, <2>1
    <3>4. head = rows[Len(rows)].this_hash
      BY <1>1 DEF m
    <3> QED BY <1>4, <2>1, <3>1, <3>2, <3>3, <3>4 DEF RecordAgrees
  <2>2. CASE p # id
    <3>1. p \in DOMAIN postings /\ RecordAgrees(p)
      BY <1>3, <1>4, <2>2
    <3>2. /\ postings'[p] = postings[p]
          /\ hash_chain_anchors'[p] = hash_chain_anchors[p]
      BY <1>4, <3>1
    <3>3. \A s \in DOMAIN entries : s \in DOMAIN entries' /\ entries'[s] = entries[s]
      BY <1>1, <1>2
    <3> QED BY <3>1, <3>2, <3>3 DEF RecordAgrees
  <2> QED BY <2>1, <2>2
<1>6. ASSUME NEW i \in DOMAIN entries' PROVE EntryAgrees(i)'
  <2>1. CASE i \in 1..n
    <3>1. EntryAgrees(i) /\ entries'[i] = entries[i]
      BY <1>1, <1>2, <1>3, <2>1
    <3>2. /\ entries[i].posting_id \in DOMAIN postings'
          /\ postings'[entries[i].posting_id] = postings[entries[i].posting_id]
      BY <1>4, <3>1 DEF EntryAgrees
    <3> QED BY <3>1, <3>2 DEF EntryAgrees
  <2>2. CASE i \in (n + 1)..(n + m)
    <3> DEFINE k == i - n
    <3>1. k \in 1..m /\ entries'[i] = rows[k]
      BY <1>1, <1>2, <2>2
    <3>2. k \in DOMAIN rows
      BY <1>1, <3>1 DEF m
    <3> HIDE DEF k
    <3>3. entries'[i].posting_id = id
      BY <1>1, <3>1
    <3> QED BY <1>4, <3>1, <3>2, <3>3 DEF EntryAgrees
  <2> QED BY <1>1, <1>2, <2>1, <2>2
<1>7. RowsAgree' <=> /\ (DOMAIN hash_chain_anchors)' = (DOMAIN postings)'
                     /\ \A p \in DOMAIN postings' : RecordAgrees(p)'
                     /\ \A i \in DOMAIN entries' : EntryAgrees(i)'
  BY DEF RowsAgree, RecordAgrees, EntryAgrees
<1> QED BY <1>4, <1>5, <1>6, <1>7

\* A step that books nothing leaves the records and the journal alone.
LEMMA OthersKeepRows ==
    ASSUME RowsAgree, UNCHANGED <<postings, entries, hash_chain_anchors>>
    PROVE  RowsAgree'
BY DEF RowsAgree

\* The three records of a posting agree in every state: its own entries are a block
\* of the journal, and its head and its anchor are that block's last hash.
THEOREM RecordsAgree == Spec => []RowsAgree
<1>1. Init => RowsAgree
  <2>1. DOMAIN <<>> = {}
    OBVIOUS
  <2> QED BY <2>1 DEF Init, RowsAgree
<1>2. ChainInv /\ RowsAgree /\ [Next]_vars => RowsAgree'
  <2> SUFFICES ASSUME ChainInv, RowsAgree, [Next]_vars PROVE RowsAgree'
    OBVIOUS
  <2>1. ASSUME NEW r \in Requests, PostCreated(r) PROVE RowsAgree'
    BY <2>1, PostCreatedKeepsRows
  <2>2. ASSUME NEW req \in AccountRequests, CreateAccount(req) PROVE RowsAgree'
    BY <2>2, OthersKeepRows DEF CreateAccount
  <2>3. ASSUME NEW r \in Requests,
               PostRefused(r) \/ PostReplayed(r) \/ PostAccountRefused(r)
        PROVE  RowsAgree'
    BY <2>3, OthersKeepRows DEF PostRefused, PostReplayed, PostAccountRefused
  <2>4. CASE UNCHANGED vars
    BY <2>4, OthersKeepRows DEF vars
  <2> QED BY <2>1, <2>2, <2>3, <2>4 DEF Next, Post
<1> QED BY <1>1, <1>2, TypeCorrect, ChainAlwaysVerifies, PTL DEF Spec, ChainInv

-----------------------------------------------------------------------------
(* Nothing that is stored changes.                                         *)

\* The invariant the remaining theorems build on.
PostingInv == ChainInv /\ RowsAgree

\* It holds in every state (post_via_memory).
LEMMA PostingInvHolds == Spec => []PostingInv
BY TypeCorrect, ChainAlwaysVerifies, RecordsAgree, PTL DEF PostingInv, ChainInv

\* A sequence is a prefix of one that is at least as long and agrees with it.
LEMMA PrefixByElements ==
    ASSUME NEW S, NEW s \in Seq(S), NEW t \in Seq(S), Len(s) <= Len(t),
           \A i \in 1..Len(s) : t[i] = s[i]
    PROVE  IsPrefix(s, t)
<1> DEFINE n == Len(s)
           front == SubSeq(t, 1, n)
<1>1. n \in Nat /\ n \in Int /\ 1 \in Int
  OBVIOUS
<1>2. \A i \in 1..n : i \in 1..Len(t)
  BY <1>1
<1>3. front = [i \in 1..n |-> t[i]]
  BY <1>1
<1>4. SubSeq(s, 1, n) = [i \in 1..n |-> s[i]]
  BY <1>1
<1> QED BY <1>3, <1>4 DEF IsPrefix

\* Entries are only added at the end, a booked posting and its anchor never change,
\* whatever is submitted under its id (post_via_memory).
THEOREM NothingChanges == Spec => AppendOnly
<1>1. PostingInv /\ [Next]_vars =>
        [/\ IsPrefix(entries, entries')
         /\ \A p \in DOMAIN postings :
               /\ p \in DOMAIN postings'
               /\ postings'[p] = postings[p]
               /\ hash_chain_anchors'[p] = hash_chain_anchors[p]]_vars
  <2> SUFFICES ASSUME PostingInv, Next
               PROVE  /\ IsPrefix(entries, entries')
                      /\ \A p \in DOMAIN postings :
                            /\ p \in DOMAIN postings'
                            /\ postings'[p] = postings[p]
                            /\ hash_chain_anchors'[p] = hash_chain_anchors[p]
    OBVIOUS
  <2>1. entries \in Seq(EntryRecords)
    BY DEF PostingInv, ChainInv, TypeOK
  <2>2. ASSUME NEW r \in Requests, PostCreated(r)
        PROVE  /\ IsPrefix(entries, entries')
               /\ \A p \in DOMAIN postings :
                     /\ p \in DOMAIN postings'
                     /\ postings'[p] = postings[p]
                     /\ hash_chain_anchors'[p] = hash_chain_anchors[p]
    <3> DEFINE id == Payload[r].posting_id
               rows == CreatedEntries(r, Payload[r], global_chain_head, sequence)
               head == HashAfter(r, Payload[r].entries, global_chain_head,
                                 Len(Payload[r].entries))
    <3>1. /\ id \notin DOMAIN postings
          /\ entries' \in Seq(EntryRecords)
          /\ Len(rows) \in Nat /\ Len(entries') = Len(entries) + Len(rows)
          /\ \A i \in 1..Len(entries) : entries'[i] = entries[i]
          /\ postings' = Insert(postings, id, [hash_head |-> head, entries |-> rows])
          /\ hash_chain_anchors' =
                Insert(hash_chain_anchors, id,
                       [head_hash |-> head, global_sequence_head |-> head])
      BY <2>2, NewPosting DEF PostingInv
    <3> HIDE DEF id, rows, head
    <3>2. Len(entries) <= Len(entries')
      BY <2>1, <3>1
    <3>3. IsPrefix(entries, entries')
      BY <2>1, <3>1, <3>2, PrefixByElements
    <3>4. DOMAIN hash_chain_anchors = DOMAIN postings
      BY DEF PostingInv, RowsAgree
    <3>5. \A p \in DOMAIN postings : /\ p \in DOMAIN postings'
                                     /\ postings'[p] = postings[p]
                                     /\ hash_chain_anchors'[p] = hash_chain_anchors[p]
      BY <3>1, <3>4 DEF Insert
    <3> QED BY <3>3, <3>5
  <2>3. ASSUME UNCHANGED <<postings, entries, hash_chain_anchors>>
        PROVE  /\ IsPrefix(entries, entries')
               /\ \A p \in DOMAIN postings :
                     /\ p \in DOMAIN postings'
                     /\ postings'[p] = postings[p]
                     /\ hash_chain_anchors'[p] = hash_chain_anchors[p]
    <3>1. IsPrefix(entries, entries')
      BY <2>1, <2>3, PrefixByElements
    <3> QED BY <2>3, <3>1
  <2> QED BY <2>2, <2>3 DEF Next, Post, CreateAccount, PostRefused, PostReplayed,
                            PostAccountRefused
<1> QED BY <1>1, PostingInvHolds, PTL DEF Spec, AppendOnly

-----------------------------------------------------------------------------
(* What callers are told.                                                  *)

\* Every caller with a result holds the one of the stored posting, for ever, and
\* "created" was told only to the request whose entries were booked
\* (post_via_memory).
THEOREM OneResult == Spec => []OneResultPerPosting
<1> DEFINE Good(r) ==
      resp[r].kind \in {"created", "replayed"} =>
        LET id == Payload[r].posting_id
        IN  /\ id \in DOMAIN postings
            /\ resp[r].entry_ids = IdsOf(postings[id].entries)
            /\ resp[r].hash_head = postings[id].hash_head
            /\ resp[r].kind = "created" => resp[r].entry_ids[1] = EntryId(r, 1)
<1>1. Init => OneResultPerPosting
  BY DEF Init, OneResultPerPosting, Empty
<1>2. PostingInv /\ OneResultPerPosting /\ [Next]_vars => OneResultPerPosting'
  <2> SUFFICES ASSUME PostingInv, OneResultPerPosting, [Next]_vars,
                      NEW q \in Requests
               PROVE  Good(q)'
    BY DEF OneResultPerPosting
  <2>1. Good(q) /\ resp \in [Requests -> Responses]
    BY DEF OneResultPerPosting, PostingInv, ChainInv, TypeOK
  <2>2. ASSUME NEW r \in Requests, PostCreated(r) PROVE Good(q)'
    <3> DEFINE id == Payload[r].posting_id
               rows == CreatedEntries(r, Payload[r], global_chain_head, sequence)
               head == HashAfter(r, Payload[r].entries, global_chain_head,
                                 Len(Payload[r].entries))
    <3>1. /\ id \notin DOMAIN postings
          /\ Len(rows) \in Nat /\ Len(rows) >= 1
          /\ \A k \in 1..Len(rows) : rows[k].entry_id = EntryId(r, k)
          /\ postings' = Insert(postings, id, [hash_head |-> head, entries |-> rows])
          /\ resp' = [resp EXCEPT ![r] = [kind |-> "created", entry_ids |-> IdsOf(rows),
                                          hash_head |-> head]]
      BY <2>2, NewPosting DEF PostingInv
    <3> HIDE DEF rows, head
    <3>2. CASE q = r
      <4>1. /\ resp'[q] = [kind |-> "created", entry_ids |-> IdsOf(rows), hash_head |-> head]
            /\ postings'[id] = [hash_head |-> head, entries |-> rows]
            /\ id \in DOMAIN postings'
        BY <2>1, <3>1, <3>2 DEF Insert
      <4>2. IdsOf(rows)[1] = EntryId(r, 1)
        BY <3>1 DEF IdsOf
      <4> QED BY <3>2, <4>1, <4>2
    <3>3. CASE q # r
      <4>1. resp'[q] = resp[q]
        BY <2>1, <3>1, <3>3
      <4>2. \A p \in DOMAIN postings : p \in DOMAIN postings' /\ postings'[p] = postings[p]
        BY <3>1 DEF Insert
      <4> QED BY <2>1, <4>1, <4>2
    <3> QED BY <3>2, <3>3
  <2>3. ASSUME NEW r \in Requests, PostReplayed(r) PROVE Good(q)'
    <3>1. /\ Payload[r].posting_id \in DOMAIN postings
          /\ resp' = [resp EXCEPT ![r] = ReplayOf(Payload[r].posting_id)]
          /\ postings' = postings
      BY <2>3 DEF PostReplayed, Known
    <3>2. CASE q = r
      <4>1. resp'[q] = ReplayOf(Payload[r].posting_id)
        BY <2>1, <3>1, <3>2
      <4> QED BY <3>1, <3>2, <4>1 DEF ReplayOf
    <3>3. CASE q # r
      BY <2>1, <3>1, <3>3
    <3> QED BY <3>2, <3>3
  <2>4. ASSUME NEW r \in Requests, PostRefused(r) \/ PostAccountRefused(r) PROVE Good(q)'
    <3>1. /\ postings' = postings
          /\ \E kind \in {"Validation", "Unbalanced"} :
                resp' = [resp EXCEPT ![r] = Empty(kind)]
      BY <2>4, PostErrorKinds DEF PostRefused, PostAccountRefused
    <3>2. CASE q = r
      BY <2>1, <3>1, <3>2 DEF Empty
    <3>3. CASE q # r
      BY <2>1, <3>1, <3>3
    <3> QED BY <3>2, <3>3
  <2>5. ASSUME NEW req \in AccountRequests, CreateAccount(req) PROVE Good(q)'
    BY <2>1, <2>5 DEF CreateAccount
  <2>6. CASE UNCHANGED vars
    BY <2>1, <2>6 DEF vars
  <2> QED BY <2>2, <2>3, <2>4, <2>5, <2>6 DEF Next, Post
<1> QED BY <1>1, <1>2, PostingInvHolds, PTL DEF Spec

-----------------------------------------------------------------------------
(* The store implements Journal.                                           *)

Book == [p \in Ids |-> Booker(p)]
Told == [r \in Requests |-> AnswerOf(r)]

\* A stored posting names the request that booked it: its first entry does.
LEMMA BookerOfPosting ==
    ASSUME PostingInv, NEW p \in DOMAIN postings
    PROVE  /\ Len(postings[p].entries) >= 1
           /\ IdsOf(postings[p].entries)[1][1] = Booker(p)
           /\ Booker(p) \in Requests
<1>1. postings[p].entries # <<>>
  BY DEF PostingInv, RowsAgree
<1>2. postings[p].entries \in Seq(EntryRecords)
  BY DEF PostingInv, ChainInv, TypeOK, PostingRecords
<1>3. Len(postings[p].entries) \in Nat /\ Len(postings[p].entries) >= 1
  BY <1>1, <1>2, EmptySeq
<1>4. postings[p].entries[1] \in EntryRecords
  BY <1>2, <1>3
<1>5. postings[p].entries[1].entry_id \in Requests \X Nat
  BY <1>4 DEF EntryRecords, EntryIds
<1>6. IdsOf(postings[p].entries)[1] = postings[p].entries[1].entry_id
  BY <1>3 DEF IdsOf
<1> QED BY <1>3, <1>5, <1>6 DEF Booker

\* A step that stores no posting leaves the journal's book as it is.
LEMMA SameBook ==
    ASSUME UNCHANGED postings
    PROVE  Book' = Book
BY DEF Book, Booker

\* A call that answers one caller changes what the journal says of that caller only.
LEMMA OneAnswer ==
    ASSUME PostingInv, NEW r \in Requests, NEW a,
           resp' = [resp EXCEPT ![r] = a]
    PROVE  Told' = [Told EXCEPT ![r] = AnswerOf(r)'] /\ resp'[r] = a
<1>1. resp \in [Requests -> Responses]
  BY DEF PostingInv, ChainInv, TypeOK
<1>2. \A q \in Requests : q # r => resp'[q] = resp[q]
  BY <1>1
<1>3. \A q \in Requests : q # r => AnswerOf(q)' = AnswerOf(q)
  BY <1>2 DEF AnswerOf
<1>4. resp'[r] = a
  BY <1>1
<1> QED BY <1>3, <1>4 DEF Told

\* Every step of the store is a step of the journal or leaves it alone: an id is
\* booked once, by an admissible request, and every answer names the booked one
\* (Store::post, post_via_memory).
THEOREM ImplementsJournal == Spec => RefinesJournal
<1>1. Init => J!Init
  <2> SUFFICES ASSUME Init PROVE J!Init
    OBVIOUS
  <2>1. \A p \in Ids : Booker(p) = None
    BY DEF Init, Booker
  <2>2. \A r \in Requests : AnswerOf(r) = [what |-> "nothing", by |-> None]
    BY DEF Init, AnswerOf, Empty
  <2> QED BY <2>1, <2>2 DEF J!Init, J!Told
<1>2. PostingInv /\ [Next]_vars => [J!Next]_(J!vars)
  <2> SUFFICES ASSUME PostingInv, [Next]_vars
               PROVE  \/ J!Next
                      \/ Book' = Book /\ Told' = Told
    BY DEF J!vars, Book, Told
  <2>1. ASSUME NEW r \in Requests, PostCreated(r) PROVE J!Book(r)
    <3> DEFINE id == Payload[r].posting_id
               rows == CreatedEntries(r, Payload[r], global_chain_head, sequence)
               head == HashAfter(r, Payload[r].entries, global_chain_head,
                                 Len(Payload[r].entries))
               answer == [kind |-> "created", entry_ids |-> IdsOf(rows), hash_head |-> head]
    <3>1. /\ id \notin DOMAIN postings
          /\ PostError(Payload[r]) = "none"
          /\ Len(rows) \in Nat /\ Len(rows) >= 1
          /\ \A k \in 1..Len(rows) : rows[k].entry_id = EntryId(r, k)
          /\ postings' = Insert(postings, id, [hash_head |-> head, entries |-> rows])
          /\ resp' = [resp EXCEPT ![r] = answer]
      BY <2>1, NewPosting DEF PostingInv
    <3>2. id \in Ids
      BY DEF Ids
    <3>3. rows[1].entry_id = <<r, 1>> /\ IdsOf(rows)[1] = <<r, 1>>
      BY <3>1 DEF EntryId, IdsOf
    <3> HIDE DEF id, rows, head
    <3>4. Book[id] = None
      BY <3>1, <3>2 DEF Book, Booker
    <3>5. Book' = [Book EXCEPT ![id] = r]
      <4>1. \A p \in Ids : p # id => Booker(p)' = Booker(p)
        BY <3>1 DEF Booker, Insert
      <4>2. Booker(id)' = r
        BY <3>1, <3>3 DEF Booker, Insert
      <4> QED BY <4>1, <4>2 DEF Book
    <3>6. Told' = [Told EXCEPT ![r] = [what |-> "booked", by |-> r]]
      <4>1. Told' = [Told EXCEPT ![r] = AnswerOf(r)'] /\ resp'[r] = answer
        BY <3>1, OneAnswer
      <4>2. AnswerOf(r)' = [what |-> "booked", by |-> r]
        BY <3>3, <4>1 DEF AnswerOf
      <4> QED BY <4>1, <4>2
    <3> QED BY <3>1, <3>4, <3>5, <3>6 DEF J!Book, J!Told, Book, Told, id
  <2>2. ASSUME NEW r \in Requests, PostReplayed(r) PROVE J!Answer(r)
    <3> DEFINE id == Payload[r].posting_id
    <3>1. /\ id \in DOMAIN postings /\ id \in Ids
          /\ resp' = [resp EXCEPT ![r] = ReplayOf(id)]
          /\ UNCHANGED postings
      BY <2>2 DEF PostReplayed, Known, Ids
    <3> HIDE DEF id
    <3>2. /\ IdsOf(postings[id].entries)[1][1] = Booker(id)
          /\ Booker(id) \in Requests
      BY <3>1, BookerOfPosting
    <3>3. Book[id] = Booker(id) /\ Book[id] # None
      BY <3>1, <3>2, RequestsAssumption DEF Book
    <3>4. Told' = [Told EXCEPT ![r] = [what |-> "booked", by |-> Book[id]]]
      <4>1. Told' = [Told EXCEPT ![r] = AnswerOf(r)'] /\ resp'[r] = ReplayOf(id)
        BY <3>1, OneAnswer
      <4>2. AnswerOf(r)' = [what |-> "booked", by |-> Booker(id)]
        BY <3>2, <4>1 DEF AnswerOf, ReplayOf
      <4> QED BY <3>3, <4>1, <4>2
    <3>5. Book' = Book
      BY <3>1, SameBook
    <3> QED BY <3>3, <3>4, <3>5 DEF J!Answer, J!Told, Book, Told, id
  <2>3. ASSUME NEW r \in Requests, PostRefused(r) \/ PostAccountRefused(r)
        PROVE  J!Refuse(r)
    <3>1. PICK kind \in {"Validation", "Unbalanced"} :
              resp' = [resp EXCEPT ![r] = Empty(kind)]
      BY <2>3, PostErrorKinds DEF PostRefused, PostAccountRefused
    <3>2. Told' = [Told EXCEPT ![r] = [what |-> "refused", by |-> None]]
      <4>1. Told' = [Told EXCEPT ![r] = AnswerOf(r)'] /\ resp'[r] = Empty(kind)
        BY <3>1, OneAnswer
      <4>2. AnswerOf(r)' = [what |-> "refused", by |-> None]
        BY <4>1 DEF AnswerOf, Empty
      <4> QED BY <4>1, <4>2
    <3>3. Book' = Book
      BY <2>3, SameBook DEF PostRefused, PostAccountRefused
    <3> QED BY <3>2, <3>3 DEF J!Refuse, J!Told, Book, Told
  <2>4. ASSUME UNCHANGED <<postings, resp>> PROVE Book' = Book /\ Told' = Told
    BY <2>4, SameBook DEF Told, AnswerOf
  <2> QED BY <2>1, <2>2, <2>3, <2>4 DEF Next, Post, J!Next, CreateAccount, vars
<1> QED BY <1>1, <1>2, PostingInvHolds, PTL DEF Spec, RefinesJournal, J!Spec

-----------------------------------------------------------------------------
\* So the journal's theorem is the store's: a caller that has been told its posting
\* is booked was told of the posting that holds the id, and that posting passed
\* validation (Store::post).
COROLLARY StoreKeepsItsWord == Spec => []J!AnswerIsBooked
<1>1. J!JournalConstants
  BY RequestsAssumption DEF J!JournalConstants, Ids
<1>2. J!Spec => [](J!TypeOK /\ J!AnswerIsBooked)
  BY <1>1, J!JournalKeepsItsWord
<1> QED BY <1>2, ImplementsJournal, PTL DEF RefinesJournal

-----------------------------------------------------------------------------
(* Double entry.                                                           *)

\* What is on record of posting p has two entries or more, all on known accounts, and
\* cancels out in every asset.
RecordBalances(p) ==
    LET rows == postings[p].entries
    IN  /\ Len(rows) >= 2
        /\ \A k \in DOMAIN rows : rows[k].account_id \in DOMAIN accounts
        /\ \A asset \in DOMAIN ASSET_REGISTRY :
              Net(RowSet(rows, Len(rows)), asset) = 0

\* So does every record; and there are finitely many accounts to sum over.
BalanceInv ==
    /\ IsFiniteSet(DOMAIN accounts)
    /\ \A p \in DOMAIN postings : RecordBalances(p)

\* A record is not disturbed as long as it stays and no account goes.
LEMMA StaysBalanced ==
    ASSUME NEW p, RecordBalances(p), postings'[p] = postings[p],
           DOMAIN accounts \subseteq DOMAIN accounts'
    PROVE  RecordBalances(p)'
BY DEF RecordBalances

\* Booking a posting adds a record that balances: post has checked its lines and
\* post_via_memory its accounts.
LEMMA PostCreatedKeepsBalance ==
    ASSUME ChainInv, BalanceInv, NEW r \in Requests, PostCreated(r)
    PROVE  BalanceInv'
<1> DEFINE lines == Payload[r].entries
           n == Len(lines)
           id == Payload[r].posting_id
           rows == CreatedEntries(r, Payload[r], global_chain_head, sequence)
<1>1. /\ PostError(Payload[r]) = "none" /\ AccountsAccept(lines)
      /\ accounts' = accounts /\ id \notin DOMAIN postings
      /\ DOMAIN postings' = DOMAIN postings \cup {id}
      /\ postings'[id].entries = rows
      /\ \A p \in DOMAIN postings : postings'[p] = postings[p]
  BY DEF PostCreated, Known, Insert
<1>2. /\ n \in Nat \ {0} /\ DOMAIN lines = 1..n
      /\ \A k \in 1..n : lines[k].amount \in Nat
  <2>1. lines \in Seq(Lines) /\ lines # <<>>
    BY <1>1, PayloadAssumption DEF PostError, Validated
  <2>2. n \in Nat \ {0} /\ DOMAIN lines = 1..n
    BY <2>1, EmptySeq
  <2> HIDE DEF lines
  <2>3. \A k \in 1..n : lines[k] \in Lines
    BY <2>1, <2>2
  <2> QED BY <2>2, <2>3 DEF Lines
<1>3. Len(rows) = n /\ DOMAIN rows = 1..n
  <2>1. rows \in Seq(EntryRecords) /\ Len(rows) = n
    BY CreatedEntriesType DEF ChainInv, TypeOK
  <2> QED BY <2>1
<1>4. ASSUME NEW asset PROVE n >= 2 /\ Net(RowSet(rows, n), asset) = 0
  <2>1. PICK req, head, seq : req = Payload[r] /\ head = global_chain_head /\ seq = sequence
    OBVIOUS
  <2>2. /\ PostError(req) = "none" /\ Len(req.entries) \in Nat \ {0}
        /\ DOMAIN req.entries = 1..Len(req.entries)
        /\ \A k \in 1..Len(req.entries) : req.entries[k].amount \in Nat
    BY <1>1, <1>2, <2>1
  <2>3. /\ Len(req.entries) >= 2
        /\ Net(RowSet(CreatedEntries(r, req, head, seq), Len(req.entries)), asset) = 0
    BY ONLY <2>2, NewEntriesBalance
  <2> QED BY <2>1, <2>3
<1>5. \A k \in 1..n : rows[k].account_id \in DOMAIN accounts
  BY <1>1, <1>2 DEF AccountsAccept, CreatedEntries
<1> HIDE DEF rows, n, lines
<1>6. RecordBalances(id)'
  BY <1>1, <1>3, <1>4, <1>5 DEF RecordBalances
<1>7. \A p \in DOMAIN postings : RecordBalances(p)'
  BY <1>1, StaysBalanced DEF BalanceInv
<1> QED BY <1>1, <1>6, <1>7 DEF BalanceInv

\* A set of records balances whenever all of its postings do: the sums that
\* TrialBalance takes over all accounts are those of the postings.
LEMMA RecordsBalance ==
    ASSUME PostingInv, BalanceInv, NEW asset \in DOMAIN ASSET_REGISTRY
    PROVE  BalancesOf(ToSet(entries), asset, DOMAIN accounts) = 0
<1> DEFINE X == ToSet(entries)
<1>1. /\ entries \in Seq(EntryRecords) /\ X = {entries[i] : i \in DOMAIN entries}
      /\ DOMAIN entries = 1..Len(entries) /\ Len(entries) \in Nat
  BY DEF PostingInv, ChainInv, TypeOK, ToSet
<1>2. IsFiniteSet(X)
  <2>1. entries \in Surjection(1..Len(entries), X)
    BY <1>1 DEF Surjection
  <2>2. IsFiniteSet(1..Len(entries))
    BY <1>1, FS_Interval
  <2> HIDE DEF X
  <2> QED BY <2>1, <2>2, FS_Surjection
<1>3. ASSUME NEW e \in X
      PROVE  /\ e.amount \in Nat /\ e.posting_id \in DOMAIN postings
             /\ \E k \in DOMAIN postings[e.posting_id].entries :
                   postings[e.posting_id].entries[k] = e
  <2>1. PICK i \in DOMAIN entries : e = entries[i]
    BY <1>1
  <2>2. e \in EntryRecords
    BY <1>1, <2>1
  <2>3. EntryAgrees(i)
    BY <2>1, RowsAgreeParts DEF PostingInv
  <2> QED BY <2>1, <2>2, <2>3 DEF EntryRecords, EntryAgrees
<1>4. ASSUME NEW p \in DOMAIN postings
      PROVE  {x \in X : x.posting_id = p}
                = RowSet(postings[p].entries, Len(postings[p].entries))
  <2> DEFINE rows == postings[p].entries
  <2>1. /\ rows \in Seq(EntryRecords) /\ DOMAIN rows = 1..Len(rows)
    BY DEF PostingInv, ChainInv, TypeOK, PostingRecords
  <2>2. \A k \in 1..Len(rows) : /\ rows[k].posting_id = p
                               /\ rows[k].sequence_number \in DOMAIN entries
                               /\ entries[rows[k].sequence_number] = rows[k]
    BY <2>1, RowsAgreeParts DEF PostingInv, RecordAgrees
  <2>3. \A k \in 1..Len(rows) : rows[k] \in X /\ rows[k].posting_id = p
    BY <1>1, <2>2
  <2>4. \A x \in X : x.posting_id = p => \E k \in 1..Len(rows) : x = rows[k]
    BY <1>3, <2>1
  <2> HIDE DEF X, rows
  <2> QED BY <2>3, <2>4 DEF RowSet, rows
<1> HIDE DEF X
<1>5. ASSUME NEW e \in X PROVE Net({x \in X : x.posting_id = e.posting_id}, asset) = 0
  <2>1. PICK p \in DOMAIN postings : p = e.posting_id
    BY <1>3
  <2>2. Net(RowSet(postings[p].entries, Len(postings[p].entries)), asset) = 0
    BY DEF BalanceInv, RecordBalances
  <2>3. {x \in X : x.posting_id = e.posting_id}
            = RowSet(postings[p].entries, Len(postings[p].entries))
    BY <1>4, <2>1
  <2> QED BY <2>2, <2>3
<1>6. Net(X, asset) = 0
  <2>1. \A e \in X : e.amount \in Nat
    BY <1>3
  <2> QED BY ONLY <1>2, <1>5, <2>1, NetOfPostings
<1>7. BalancesOf(X, asset, DOMAIN accounts) = Net(X, asset)
  <2>1. asset # "" /\ IsFiniteSet(DOMAIN accounts)
    BY NamesAssumption DEF BalanceInv
  <2>2. \A e \in X : e.amount \in Nat /\ e.account_id \in DOMAIN accounts
    BY <1>3 DEF BalanceInv, RecordBalances
  <2> QED BY ONLY <1>2, <2>1, <2>2, BalancesAddUp
<1> QED BY <1>6, <1>7 DEF X

\* Whatever is posted, in whatever order: every entry is on a known account, a posting
\* has two entries or more, and in each asset the balances of all accounts cancel
\* out (post, post_via_memory, compute_balance).
THEOREM BooksBalance == Spec => []TrialBalance
<1>1. Init => BalanceInv
  <2>1. DOMAIN <<>> = {}
    OBVIOUS
  <2> QED BY <2>1, FS_EmptySet DEF Init, BalanceInv
<1>2. PostingInv /\ BalanceInv /\ [Next]_vars => BalanceInv'
  <2> SUFFICES ASSUME PostingInv, BalanceInv, [Next]_vars PROVE BalanceInv'
    OBVIOUS
  <2>1. ASSUME NEW r \in Requests, PostCreated(r) PROVE BalanceInv'
    BY <2>1, PostCreatedKeepsBalance DEF PostingInv
  <2>2. ASSUME NEW req \in AccountRequests, CreateAccount(req) PROVE BalanceInv'
    <3>1. PICK id : DOMAIN accounts' = DOMAIN accounts \cup {id}
      BY <2>2 DEF CreateAccount, Insert
    <3>2. IsFiniteSet(DOMAIN accounts')
      BY <3>1, FS_AddElement DEF BalanceInv
    <3>3. postings' = postings
      BY <2>2 DEF CreateAccount
    <3> QED BY <3>1, <3>2, <3>3, StaysBalanced DEF BalanceInv
  <2>3. ASSUME UNCHANGED <<accounts, postings>> PROVE BalanceInv'
    BY <2>3 DEF BalanceInv, RecordBalances
  <2> QED BY <2>1, <2>2, <2>3 DEF Next, Post, PostRefused, PostReplayed,
                                  PostAccountRefused, vars
<1>3. PostingInv /\ BalanceInv => TrialBalance
  <2> SUFFICES ASSUME PostingInv, BalanceInv PROVE TrialBalance
    OBVIOUS
  <2>1. \A p \in DOMAIN postings : Len(postings[p].entries) >= 2
    BY DEF BalanceInv, RecordBalances
  <2>2. \A i \in DOMAIN entries : entries[i].account_id \in DOMAIN accounts
    BY RowsAgreeParts DEF PostingInv, EntryAgrees, BalanceInv, RecordBalances
  <2>3. \A asset \in DOMAIN ASSET_REGISTRY :
           BalancesOf(ToSet(entries), asset, DOMAIN accounts) = 0
    BY RecordsBalance
  <2> QED BY <2>1, <2>2, <2>3 DEF TrialBalance, BalancesOf
<1> QED BY <1>1, <1>2, <1>3, PostingInvHolds, PTL DEF Spec

-----------------------------------------------------------------------------
(* The audit events.                                                       *)

\* t goes on where s ends.
GoesOn(s, t) == Len(s) <= Len(t) /\ \A i \in 1..Len(s) : t[i] = s[i]

\* The head of a posting goes on from the head it was given, and is longer: it has a
\* line more for each entry (posting::compute_hash).
LEMMA HashGoesOn ==
    ASSUME NEW r \in Requests, NEW prev \in Hashes, Payload[r].entries # <<>>
    PROVE  LET head == HashAfter(r, Payload[r].entries, prev, Len(Payload[r].entries))
           IN  head \in Hashes /\ GoesOn(prev, head) /\ Len(prev) < Len(head)
<1> DEFINE lines == Payload[r].entries
           n == Len(lines)
           tail == [j \in 1..n |-> ChainedLine(r, lines, j)]
<1>1. lines \in Seq(Lines) /\ n \in Nat /\ n >= 1
  <2>1. lines \in Seq(Lines) /\ lines # <<>>
    BY PayloadAssumption
  <2> QED BY <2>1, EmptySeq
<1>2. \A j \in 1..n : ChainedLine(r, lines, j) \in HashLines
  BY <1>1, ChainedLineType
<1>3. tail \in Seq(HashLines) /\ Len(tail) = n
  <2>1. tail \in [1..n -> HashLines]
    BY <1>2
  <2> HIDE DEF n, lines
  <2> QED BY <1>1, <2>1
<1>4. HashAfter(r, lines, prev, n) = prev \o tail
  BY DEF HashAfter
<1>5. prev \in Seq(HashLines) /\ Len(prev) \in Nat
  BY DEF Hashes
<1> HIDE DEF tail, n, lines
<1>6. /\ prev \o tail \in Seq(HashLines) /\ Len(prev \o tail) = Len(prev) + n
      /\ \A i \in 1..Len(prev) : (prev \o tail)[i] = prev[i]
  BY <1>3, <1>5, Extended
<1>7. GoesOn(prev, prev \o tail) /\ Len(prev) < Len(prev \o tail)
  BY <1>1, <1>5, <1>6 DEF GoesOn
<1> QED BY <1>4, <1>6, <1>7 DEF Hashes, n, lines

\* Event i tells what is stored of its posting, and the chain goes on from its head.
EventTrue(i) ==
    LET event == audit_events[i]
        p     == event.posting_id
    IN  /\ p \in DOMAIN postings
        /\ event = [posting_id |-> p,
                    entry_ids  |-> IdsOf(postings[p].entries),
                    hash_head  |-> postings[p].hash_head]
        /\ GoesOn(event.hash_head, global_chain_head)

\* Event i came before event j: it is of another posting, and the chain went on from
\* its head to the other's.
EventBefore(i, j) ==
    /\ audit_events[i].posting_id # audit_events[j].posting_id
    /\ GoesOn(audit_events[i].hash_head, audit_events[j].hash_head)
    /\ Len(audit_events[i].hash_head) < Len(audit_events[j].hash_head)

\* To know that the next event goes on from all the others one has to know that the
\* head of the chain does.
AuditInv ==
    /\ \A i \in DOMAIN audit_events : EventTrue(i)
    /\ \A i, j \in DOMAIN audit_events : i < j => EventBefore(i, j)
    /\ \A p \in DOMAIN postings :
          \E i \in DOMAIN audit_events : audit_events[i].posting_id = p

\* Booking a posting records its event behind the others (post_via_memory).
LEMMA PostCreatedKeepsAudit ==
    ASSUME PostingInv, AuditInv, NEW r \in Requests, PostCreated(r)
    PROVE  AuditInv'
<1> DEFINE id == Payload[r].posting_id
           rows == CreatedEntries(r, Payload[r], global_chain_head, sequence)
           head == HashAfter(r, Payload[r].entries, global_chain_head,
                             Len(Payload[r].entries))
           event == [posting_id |-> id, entry_ids |-> IdsOf(rows), hash_head |-> head]
           n == Len(audit_events)
<1>1. /\ id \notin DOMAIN postings
      /\ DOMAIN postings' = DOMAIN postings \cup {id}
      /\ postings'[id] = [hash_head |-> head, entries |-> rows]
      /\ \A p \in DOMAIN postings : postings'[p] = postings[p]
      /\ audit_events' = Append(audit_events, event) /\ global_chain_head' = head
  BY DEF PostCreated, Known, Insert, EventOf
<1>2. /\ global_chain_head \in Hashes /\ audit_events \in Seq(AuditEvents)
      /\ n \in Nat /\ DOMAIN audit_events = 1..n
  BY DEF PostingInv, ChainInv, TypeOK
<1>3. /\ head \in Hashes /\ GoesOn(global_chain_head, head)
      /\ Len(global_chain_head) < Len(head)
  <2>1. Payload[r].entries # <<>>
    BY DEF PostCreated, PostError, Validated
  <2> QED BY <1>2, <2>1, HashGoesOn
<1>4. /\ DOMAIN audit_events' = 1..n + 1
      /\ \A i \in 1..n : audit_events'[i] = audit_events[i]
      /\ audit_events'[n + 1] = event
  BY <1>1, <1>2, AppendProperties
<1>5. event.posting_id = id /\ event.entry_ids = IdsOf(rows) /\ event.hash_head = head
  OBVIOUS
<1> HIDE DEF id, rows, head, event, n
<1>6. ASSUME NEW i \in 1..n
      PROVE  /\ audit_events[i].hash_head \in Hashes
             /\ GoesOn(audit_events[i].hash_head, head)
             /\ Len(audit_events[i].hash_head) < Len(head)
             /\ audit_events[i].posting_id \in DOMAIN postings
             /\ audit_events[i] = [posting_id |-> audit_events[i].posting_id,
                   entry_ids |-> IdsOf(postings[audit_events[i].posting_id].entries),
                   hash_head |-> postings[audit_events[i].posting_id].hash_head]
  <2>1. EventTrue(i) /\ audit_events[i] \in AuditEvents
    BY <1>2 DEF AuditInv
  <2>2. PICK s, g : s = audit_events[i].hash_head /\ g = global_chain_head
    OBVIOUS
  <2>3. s \in Hashes /\ g \in Hashes /\ GoesOn(s, g)
    BY <1>2, <2>1, <2>2 DEF EventTrue, AuditEvents
  <2>4. Len(s) \in Nat /\ Len(g) \in Nat /\ Len(head) \in Nat
    BY <1>3, <2>3 DEF Hashes
  <2>5. GoesOn(s, head) /\ Len(s) < Len(head)
    BY <1>3, <2>2, <2>3, <2>4 DEF GoesOn
  <2> QED BY <2>1, <2>2, <2>3, <2>5 DEF EventTrue
<1>7. ASSUME NEW i \in DOMAIN audit_events' PROVE EventTrue(i)'
  <2>1. CASE i \in 1..n
    <3>1. audit_events'[i] = audit_events[i]
      BY <1>4, <2>1
    <3>2. postings'[audit_events[i].posting_id] = postings[audit_events[i].posting_id]
      BY <1>1, <1>6, <2>1
    <3> QED BY <1>1, <1>6, <2>1, <3>1, <3>2 DEF EventTrue
  <2>2. CASE i = n + 1
    <3>1. audit_events'[i] = event
      BY <1>4, <2>2
    <3>2. GoesOn(head, head)
      BY <1>3 DEF GoesOn, Hashes
    <3>3. event = [posting_id |-> id, entry_ids |-> IdsOf(postings'[id].entries),
                   hash_head |-> postings'[id].hash_head]
      BY <1>1 DEF event
    <3> QED BY <1>1, <1>5, <3>1, <3>2, <3>3 DEF EventTrue
  <2> QED BY <1>2, <1>4, <2>1, <2>2
<1>8. ASSUME NEW i \in DOMAIN audit_events', NEW j \in DOMAIN audit_events', i < j
      PROVE  EventBefore(i, j)'
  <2>1. i \in 1..n /\ audit_events'[i] = audit_events[i]
    BY <1>2, <1>4, <1>8
  <2>2. CASE j \in 1..n
    <3>1. audit_events'[j] = audit_events[j] /\ EventBefore(i, j)
      BY <1>2, <1>4, <1>8, <2>1, <2>2 DEF AuditInv
    <3> QED BY <2>1, <3>1 DEF EventBefore
  <2>3. CASE j = n + 1
    <3>1. audit_events'[j] = event
      BY <1>4, <2>3
    <3> QED BY <1>1, <1>5, <1>6, <2>1, <3>1 DEF EventBefore
  <2> QED BY <1>2, <1>4, <2>2, <2>3
<1>9. ASSUME NEW p \in DOMAIN postings'
      PROVE  \E i \in DOMAIN audit_events' : audit_events'[i].posting_id = p
  <2>1. CASE p = id
    <3>1. n + 1 \in DOMAIN audit_events' /\ audit_events'[n + 1].posting_id = p
      BY <1>2, <1>4, <1>5, <2>1
    <3> QED BY <3>1
  <2>2. CASE p \in DOMAIN postings
    <3>1. PICK i \in 1..n : audit_events[i].posting_id = p
      BY <1>2, <2>2 DEF AuditInv
    <3>2. i \in DOMAIN audit_events' /\ audit_events'[i] = audit_events[i]
      BY <1>2, <1>4
    <3> QED BY <3>1, <3>2
  <2> QED BY <1>1, <2>1, <2>2
<1> QED BY <1>7, <1>8, <1>9 DEF AuditInv

\* Every posting has one audit event, which tells its entries and its head, and the
\* events are in the order of the chain (post_via_memory).
THEOREM OneEventPerPosting == Spec => []AuditMirrorsPostings
<1>1. Init => AuditInv
  <2>1. DOMAIN <<>> = {}
    OBVIOUS
  <2> QED BY <2>1 DEF Init, AuditInv
<1>2. PostingInv /\ AuditInv /\ [Next]_vars => AuditInv'
  <2> SUFFICES ASSUME PostingInv, AuditInv, [Next]_vars PROVE AuditInv'
    OBVIOUS
  <2>1. ASSUME NEW r \in Requests, PostCreated(r) PROVE AuditInv'
    BY <2>1, PostCreatedKeepsAudit
  <2>2. ASSUME UNCHANGED <<postings, audit_events, global_chain_head>> PROVE AuditInv'
    BY <2>2 DEF AuditInv, EventTrue, EventBefore
  <2> QED BY <2>1, <2>2 DEF Next, Post, CreateAccount, PostRefused, PostReplayed,
                            PostAccountRefused, vars
<1>3. PostingInv /\ AuditInv => AuditMirrorsPostings
  <2> SUFFICES ASSUME PostingInv, AuditInv PROVE AuditMirrorsPostings
    OBVIOUS
  <2>1. /\ audit_events \in Seq(AuditEvents)
        /\ DOMAIN audit_events = 1..Len(audit_events) /\ Len(audit_events) \in Nat
    BY DEF PostingInv, ChainInv, TypeOK
  <2>2. ASSUME NEW p \in DOMAIN postings
        PROVE  /\ Cardinality({i \in DOMAIN audit_events :
                                  audit_events[i].posting_id = p}) = 1
               /\ \E i \in DOMAIN audit_events :
                     audit_events[i] = [posting_id |-> p,
                                        entry_ids  |-> IdsOf(postings[p].entries),
                                        hash_head  |-> postings[p].hash_head]
    <3>1. PICK i \in DOMAIN audit_events : audit_events[i].posting_id = p
      BY DEF AuditInv
    <3>2. \A j \in DOMAIN audit_events : audit_events[j].posting_id = p => j = i
      <4>1. ASSUME NEW j \in DOMAIN audit_events, j # i
            PROVE  audit_events[j].posting_id # p
        <5>1. i < j \/ j < i
          BY <2>1, <4>1
        <5> QED BY <3>1, <5>1 DEF AuditInv, EventBefore
      <4> QED BY <4>1
    <3>3. {j \in DOMAIN audit_events : audit_events[j].posting_id = p} = {i}
      BY <3>1, <3>2
    <3>4. EventTrue(i)
      BY DEF AuditInv
    <3> QED BY <3>1, <3>3, <3>4, FS_Singleton DEF EventTrue
  <2>3. \A i \in DOMAIN audit_events : audit_events[i].posting_id \in DOMAIN postings
    BY DEF AuditInv, EventTrue
  <2>4. ASSUME NEW i \in DOMAIN audit_events, NEW j \in DOMAIN audit_events, i < j
        PROVE  IsStrictPrefix(audit_events[i].hash_head, audit_events[j].hash_head)
    <3>1. PICK s, t : s = audit_events[i].hash_head /\ t = audit_events[j].hash_head
      OBVIOUS
    <3>2. GoesOn(s, t) /\ Len(s) < Len(t)
      BY <2>4, <3>1 DEF AuditInv, EventBefore
    <3>3. s \in Seq(HashLines) /\ t \in Seq(HashLines)
      <4>1. audit_events[i] \in AuditEvents /\ audit_events[j] \in AuditEvents
        BY <2>1
      <4> QED BY <3>1, <4>1 DEF AuditEvents, Hashes
    <3>4. IsPrefix(s, t)
      BY <3>2, <3>3, PrefixByElements DEF GoesOn
    <3>5. s # t
      BY <3>2, <3>3
    <3> QED BY <3>1, <3>4, <3>5 DEF IsStrictPrefix
  <2> QED BY <2>2, <2>3, <2>4 DEF AuditMirrorsPostings
<1> QED BY <1>1, <1>2, <1>3, PostingInvHolds, PTL DEF Spec

=============================================================================
