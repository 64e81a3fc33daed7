--------------------------- MODULE DbStoreProofs ----------------------------
(***************************************************************************)
(* Proofs about the store backed by Postgres, for every set of requests,   *)
(* payloads, accounts, replicas, failures and isolation levels: what is    *)
(* committed is whole, typed and final, and chained on to a whole posting; *)
(* what callers and the audit trail are told is what is stored; and the    *)
(* store implements Journal.                                               *)
(***************************************************************************)
EXTENDS DbStore, AccountingProofs, FiniteSetTheorems

-----------------------------------------------------------------------------
(***************************************************************************)
(* The invariant.  What is in the database was put there whole by one      *)
(* request, which has not built anything else since; a request between its *)
(* insert and its commit is the only one there with its id.                *)
(***************************************************************************)
DbTypes ==
    /\ DOMAIN postings \subseteq Ids /\ \A id \in DOMAIN postings : postings[id] \in Hashes
    /\ entries \subseteq EntryRecords
    /\ DOMAIN hash_chain = DOMAIN postings
    /\ pc \in [Requests -> Steps] /\ at \in [Requests -> Replicas \cup {None}]
    /\ prev \in [Requests -> Hashes] /\ seq \in [Requests -> Nat]
    /\ phase \in [Replicas -> {"up", "down", "hydrating", "verifying", "halted"}]

\* The posting in the database is the one that request r built.
Wrote(r) ==
    /\ PostError(Payload[r]) = "none"
    /\ pc[r] \in {"cache", "audit", "done", "lost"}
    /\ Id(r) \in DOMAIN postings
    /\ RowsOf(Id(r)) = ToSet(Created(r))
    /\ postings[Id(r)] = NewHead(r)
    /\ hash_chain[Id(r)] = NewHead(r)

EveryPostingWritten ==
    /\ \A e \in entries : e.posting_id \in DOMAIN postings
    /\ \A id \in DOMAIN postings : \E r \in Requests : Id(r) = id /\ Wrote(r)

\* A head from which a posting may go on: that of the empty ledger or of a posting.
IsHead(h) ==
    \/ h = GENESIS_HASH
    \/ \E x \in entries : x.this_hash = h /\ postings[x.posting_id] = h

AccountsKnown(r) ==
    \A k \in DOMAIN Payload[r].entries :
        Payload[r].entries[k].account_id \in DOMAIN AccountTable

\* What a request knows where it is.
OnItsWay(r) ==
    /\ pc[r] \notin Finished => /\ PostError(Payload[r]) = "none"
                                /\ at[r] \in Replicas /\ phase[at[r]] = "up"
    /\ pc[r] \in {"head", "insert", "blocked", "sequence", "commit"} => AccountsKnown(r)
    /\ pc[r] = "fetch" => Id(r) \in DOMAIN postings
    /\ pc[r] \in {"sequence", "commit"} => Id(r) \notin DOMAIN postings
    /\ pc[r] \in {"cache", "audit"} => Wrote(r)
    /\ IsHead(prev[r])

OneHolder ==
    \A r, s \in Requests :
        /\ pc[r] \in {"sequence", "commit"} /\ pc[s] \in {"sequence", "commit"}
        /\ Id(r) = Id(s)
        => r = s

\* So that MAX(sequence_number) is there to be read.
SomeRowIsLast ==
    entries # {} =>
        \E e \in entries : \A x \in entries : x.sequence_number <= e.sequence_number

DbInv == /\ DbTypes
         /\ EveryPostingWritten
         /\ \A r \in Requests : OnItsWay(r)
         /\ OneHolder
         /\ SomeRowIsLast

-----------------------------------------------------------------------------
(* What a request builds.                                                  *)

\* A posting that passed post's own checks has lines, typed ones, and each of them
\* adds a typed line to the chain (post, posting::canonical_bytes).
LEMMA ValidLines ==
    ASSUME NEW r \in Requests, PostError(Payload[r]) = "none"
    PROVE  /\ Payload[r].entries \in Seq(Lines)
           /\ Len(Payload[r].entries) \in Nat \ {0}
           /\ Hashable(HashLines, r, Payload[r].entries)
           /\ \A k \in 1..Len(Payload[r].entries) :
                 /\ Payload[r].entries[k] \in Lines
                 /\ Payload[r].entries[k].direction \in Direction
                 /\ Payload[r].entries[k].asset \in DOMAIN ASSET_REGISTRY
<1> DEFINE lines == Payload[r].entries
<1>1. lines \in Seq(Lines)
  BY PayloadAssumption
<1>2. Validated(Payload[r])
  BY DEF PostError
<1>3. Len(lines) \in Nat \ {0} /\ DOMAIN lines = 1..Len(lines)
  <2>1. lines # <<>>
    BY <1>2 DEF Validated
  <2> QED BY <1>1, <2>1, EmptySeq
<1>4. \A k \in 1..Len(lines) : /\ lines[k].direction \in Direction
                              /\ lines[k].asset \in DOMAIN ASSET_REGISTRY
  BY <1>2, <1>3 DEF Validated, validate_amount
<1> HIDE DEF lines
<1>5. \A k \in 1..Len(lines) : lines[k] \in Lines
  BY <1>1
<1>6. ASSUME NEW k \in 1..Len(lines) PROVE ChainedLine(r, lines, k) \in HashLines
  <2>1. EntryId(r, k) \in EntryIds
    BY <1>3 DEF EntryId, EntryIds
  <2>2. lines[k] \in Lines /\ lines[k].direction \in Direction
    BY <1>4, <1>5
  <2> QED BY <2>1, <2>2 DEF ChainedLine, canonical_bytes, HashLines, Lines
<1>7. Hashable(HashLines, r, lines)
  BY <1>3, <1>6 DEF Hashable
<1> QED BY <1>1, <1>3, <1>4, <1>5, <1>7 DEF lines

\* What the loop of post_via_db leaves: one entry per line, in order, on top of the
\* head and the number that were read.
LEMMA Built ==
    ASSUME NEW r \in Requests, PostError(Payload[r]) = "none",
           prev[r] \in Hashes, seq[r] \in Nat
    PROVE  /\ Len(Payload[r].entries) \in Nat \ {0}
           /\ DOMAIN Created(r) = 1..Len(Payload[r].entries)
           /\ \A k \in 1..Len(Payload[r].entries) :
                 IsEntry(Created(r)[k], r, Payload[r], prev[r], seq[r], k)
           /\ NewHead(r) \in Hashes
           /\ Created(r)[Len(Payload[r].entries)].this_hash = NewHead(r)
<1>1. Len(Payload[r].entries) \in Nat \ {0} /\ Hashable(HashLines, r, Payload[r].entries)
  BY ValidLines
<1>2. prev[r] \in Seq(HashLines)
  BY DEF Hashes
<1>3. ASSUME NEW k \in 1..Len(Payload[r].entries)
      PROVE  IsEntry(Created(r)[k], r, Payload[r], prev[r], seq[r], k)
  BY <1>1, <1>2, NewEntryLinks DEF Created
<1>4. DOMAIN Created(r) = 1..Len(Payload[r].entries)
  BY DEF Created, CreatedEntries
<1>5. NewHead(r) \in Hashes
  <2> DEFINE lines == Payload[r].entries
             n == Len(lines)
  <2>1. n \in Nat /\ \A j \in 1..n : ChainedLine(r, lines, j) \in HashLines
    BY <1>1 DEF Hashable
  <2> HIDE DEF n, lines
  <2>2. HashAfter(r, lines, prev[r], n) \in Seq(HashLines)
    BY <1>2, <2>1, RunningHashType
  <2> QED BY <2>2 DEF NewHead, Hashes, n, lines
<1>6. Created(r)[Len(Payload[r].entries)].this_hash = NewHead(r)
  <2>1. Len(Payload[r].entries) \in 1..Len(Payload[r].entries)
    BY <1>1
  <2> QED BY <1>3, <2>1 DEF IsEntry, NewHead
<1> QED BY <1>1, <1>3, <1>4, <1>5, <1>6

\* Its entries are well-formed rows once the accounts have been looked up.
LEMMA BuiltRows ==
    ASSUME NEW r \in Requests, PostError(Payload[r]) = "none", AccountsKnown(r),
           prev[r] \in Hashes, seq[r] \in Nat
    PROVE  \A k \in 1..Len(Payload[r].entries) : Created(r)[k] \in EntryRecords
<1> DEFINE lines == Payload[r].entries
           row(k) == [entry_id        |-> EntryId(r, k),
                      posting_id      |-> Payload[r].posting_id,
                      account_id      |-> lines[k].account_id,
                      direction       |-> lines[k].direction,
                      amount          |-> lines[k].amount,
                      asset           |-> lines[k].asset,
                      sequence_number |-> seq[r] + k,
                      prev_hash       |-> HashAfter(r, lines, prev[r], k - 1),
                      this_hash       |-> HashAfter(r, lines, prev[r], k)]
<1>1. /\ Len(lines) \in Nat \ {0} /\ DOMAIN lines = 1..Len(lines)
      /\ \A k \in 1..Len(lines) : /\ lines[k] \in Lines
                                  /\ lines[k].direction \in Direction
                                  /\ lines[k].asset \in DOMAIN ASSET_REGISTRY
                                  /\ lines[k].account_id \in DOMAIN AccountTable
                                  /\ ChainedLine(r, lines, k) \in HashLines
  BY ValidLines DEF AccountsKnown, Hashable
<1>2. Payload[r].posting_id \in Ids
  BY DEF Ids, Id
<1>3. Created(r) = [k \in 1..Len(lines) |-> row(k)]
  BY DEF Created, CreatedEntries
<1> HIDE DEF lines
<1>4. ASSUME NEW k \in 1..Len(lines) PROVE row(k) \in EntryRecords
  <2>1. EntryId(r, k) \in EntryIds /\ seq[r] + k \in Nat
    BY <1>1 DEF EntryId, EntryIds
  <2>2. /\ HashAfter(r, lines, prev[r], k - 1) \in Hashes
        /\ HashAfter(r, lines, prev[r], k) \in Hashes
    <3>1. k - 1 \in Nat /\ k \in Nat /\ prev[r] \in Seq(HashLines)
      BY <1>1 DEF Hashes
    <3>2. \A j \in 1..k : ChainedLine(r, lines, j) \in HashLines
      BY <1>1
    <3>3. \A j \in 1..(k - 1) : ChainedLine(r, lines, j) \in HashLines
      BY <1>1, <3>1, <3>2
    <3> QED BY <3>1, <3>2, <3>3, RunningHashType DEF Hashes
  <2> QED BY <1>1, <1>2, <2>1, <2>2 DEF EntryRecords, Lines
<1> HIDE DEF row
<1> QED BY <1>3, <1>4 DEF lines

-----------------------------------------------------------------------------
(* What stays true while others move.                                      *)

\* As long as its rows and its own values stay, a posting stays the one its request
\* built.
LEMMA StaysWritten ==
    ASSUME NEW r \in Requests, Wrote(r),
           pc'[r] \in {"cache", "audit", "done", "lost"},
           prev'[r] = prev[r], seq'[r] = seq[r],
           Id(r) \in DOMAIN postings', RowsOf(Id(r))' = RowsOf(Id(r)),
           postings'[Id(r)] = postings[Id(r)], hash_chain'[Id(r)] = hash_chain[Id(r)]
    PROVE  Wrote(r)'
<1>1. Created(r)' = Created(r) /\ NewHead(r)' = NewHead(r)
  BY DEF Created, NewHead
<1>2. ToSet(Created(r))' = ToSet(Created(r))
  BY <1>1 DEF ToSet
<1> QED BY <1>1, <1>2 DEF Wrote

\* A head stays one when postings are only added.
LEMMA StaysHead ==
    ASSUME NEW h, IsHead(h), entries \subseteq entries',
           \A x \in entries : postings'[x.posting_id] = postings[x.posting_id]
    PROVE  h = GENESIS_HASH \/ \E x \in entries' : x.this_hash = h /\ postings'[x.posting_id] = h
BY DEF IsHead

\* What is committed stays, whole and unchanged.
Kept ==
    /\ entries \subseteq entries'
    /\ \A id \in DOMAIN postings :
          /\ id \in DOMAIN postings'
          /\ postings'[id] = postings[id]
          /\ hash_chain'[id] = hash_chain[id]
          /\ RowsOf(id)' = RowsOf(id)

\* What every step has to do: keep the invariant, what is committed and whose it is.
Sound == /\ DbInv'
         /\ Kept
         /\ \A r \in Requests : Wrote(r) => Wrote(r)'

\* One request goes on; the database and the processes stay as they are.
Moves(r, step) ==
    /\ pc' = [pc EXCEPT ![r] = step]
    /\ \A q \in Requests : q # r => at'[q] = at[q] /\ prev'[q] = prev[q] /\ seq'[q] = seq[q]
    /\ UNCHANGED <<postings, entries, hash_chain, phase>>

\* Then the others are where they were, and it is enough to look at this one.
LEMMA MoveKeepsInv ==
    ASSUME DbInv, NEW r \in Requests, NEW step \in Steps, Moves(r, step),
           DbTypes', OnItsWay(r)',
           Wrote(r) => /\ step \in {"cache", "audit", "done", "lost"}
                       /\ prev'[r] = prev[r] /\ seq'[r] = seq[r],
           step \in {"sequence", "commit"} =>
                pc[r] \in {"sequence", "commit"} \/ Holders(Id(r)) = {}
    PROVE  Sound
<1>1. /\ \A q \in Requests : q # r => pc'[q] = pc[q]
      /\ pc'[r] = step
  BY DEF Moves, DbInv, DbTypes
<1>2. \A id : RowsOf(id)' = RowsOf(id)
  BY DEF Moves, RowsOf
<1>3. ASSUME NEW q \in Requests, Wrote(q) PROVE Wrote(q)'
  <2>1. /\ pc'[q] \in {"cache", "audit", "done", "lost"}
        /\ prev'[q] = prev[q] /\ seq'[q] = seq[q]
    BY <1>1, <1>3 DEF Moves, Wrote
  <2>2. Id(q) \in DOMAIN postings'
    BY <1>3 DEF Moves, Wrote
  <2> QED BY <1>2, <1>3, <2>1, <2>2, StaysWritten DEF Moves
<1>4. EveryPostingWritten'
  <2>1. \A e \in entries' : e.posting_id \in DOMAIN postings'
    BY DEF Moves, DbInv, EveryPostingWritten
  <2>2. ASSUME NEW id \in DOMAIN postings' PROVE \E q \in Requests : Id(q) = id /\ Wrote(q)'
    BY <1>3, <2>2 DEF Moves, DbInv, EveryPostingWritten
  <2> QED BY <2>1, <2>2 DEF EveryPostingWritten, Id
<1>5. ASSUME NEW q \in Requests PROVE OnItsWay(q)'
  <2>1. CASE q = r
    BY <2>1
  <2>2. CASE q # r
    <3>1. /\ pc'[q] = pc[q] /\ at'[q] = at[q] /\ prev'[q] = prev[q]
          /\ postings' = postings /\ phase' = phase /\ entries' = entries
      BY <1>1, <2>2 DEF Moves
    <3>2. OnItsWay(q)
      BY DEF DbInv
    <3>3. IsHead(prev[q]) => IsHead(prev[q])'
      BY <3>1 DEF IsHead
    <3>4. pc'[q] \in {"cache", "audit"} => Wrote(q)'
      BY <1>3, <3>1, <3>2 DEF OnItsWay
    <3> QED BY <3>1, <3>2, <3>3, <3>4 DEF OnItsWay, Id, AccountsKnown
  <2> QED BY <2>1, <2>2
<1>6. OneHolder'
  BY <1>1 DEF DbInv, OneHolder, Holders, Id
<1>7. SomeRowIsLast'
  BY DEF Moves, DbInv, SomeRowIsLast
<1>8. Kept
  BY <1>2 DEF Moves, Kept
<1> QED BY <1>3, <1>4, <1>5, <1>6, <1>7, <1>8 DEF DbInv, Sound

\* COMMIT: the posting appears whole under an id that was free, beside the others.
LEMMA Published ==
    ASSUME DbInv, NEW r \in Requests, pc[r] = "commit", Publish(r)
    PROVE  /\ PostError(Payload[r]) = "none" /\ AccountsKnown(r)
           /\ prev[r] \in Hashes /\ seq[r] \in Nat
           /\ Id(r) \notin DOMAIN postings
           /\ DOMAIN postings' = DOMAIN postings \cup {Id(r)}
           /\ DOMAIN hash_chain' = DOMAIN hash_chain \cup {Id(r)}
           /\ postings'[Id(r)] = NewHead(r) /\ hash_chain'[Id(r)] = NewHead(r)
           /\ RowsOf(Id(r))' = ToSet(Created(r))
           /\ entries' = entries \cup ToSet(Created(r))
           /\ \A e \in ToSet(Created(r)) : e.posting_id = Id(r)
           /\ Kept
<1>1. /\ PostError(Payload[r]) = "none" /\ AccountsKnown(r)
      /\ Id(r) \notin DOMAIN postings
  BY DEF DbInv, OnItsWay, Finished
<1>2. /\ prev[r] \in Hashes /\ seq[r] \in Nat /\ DOMAIN hash_chain = DOMAIN postings
  BY DEF DbInv, DbTypes
<1>3. /\ DOMAIN postings' = DOMAIN postings \cup {Id(r)}
      /\ DOMAIN hash_chain' = DOMAIN hash_chain \cup {Id(r)}
      /\ postings'[Id(r)] = NewHead(r) /\ hash_chain'[Id(r)] = NewHead(r)
      /\ \A id \in DOMAIN postings : /\ postings'[id] = postings[id]
                                     /\ hash_chain'[id] = hash_chain[id]
  BY <1>1, <1>2 DEF Publish, Insert
<1>4. entries' = entries \cup ToSet(Created(r))
  BY DEF Publish
<1>5. ASSUME NEW e \in ToSet(Created(r)) PROVE e.posting_id = Id(r)
  <2>1. PICK k \in 1..Len(Payload[r].entries) : e = Created(r)[k]
    BY <1>1, <1>2, Built DEF ToSet
  <2>2. IsEntry(Created(r)[k], r, Payload[r], prev[r], seq[r], k)
    BY <1>1, <1>2, Built
  <2> QED BY <2>1, <2>2 DEF IsEntry, Id
<1>6. \A e \in entries : e.posting_id \in DOMAIN postings
  BY DEF DbInv, EveryPostingWritten
<1>7. RowsOf(Id(r))' = ToSet(Created(r))
  BY <1>1, <1>4, <1>5, <1>6 DEF RowsOf
<1>8. \A id \in DOMAIN postings : RowsOf(id)' = RowsOf(id)
  BY <1>1, <1>4, <1>5 DEF RowsOf
<1> QED BY <1>1, <1>2, <1>3, <1>4, <1>5, <1>7, <1>8 DEF Kept

\* A request's own lines have rising numbers, so that the new posting's last row or
\* the last row there was comes last.
LEMMA LastAfterPublish ==
    ASSUME DbInv, NEW r \in Requests, pc[r] = "commit", Publish(r)
    PROVE  SomeRowIsLast'
<1> DEFINE n == Len(Payload[r].entries)
           new == ToSet(Created(r))
           top == Created(r)[n]
<1>1. /\ PostError(Payload[r]) = "none" /\ prev[r] \in Hashes /\ seq[r] \in Nat
      /\ entries' = entries \cup new
  BY Published
<1>2. /\ n \in Nat \ {0} /\ DOMAIN Created(r) = 1..n
      /\ \A k \in 1..n : Created(r)[k].sequence_number = seq[r] + k
  BY <1>1, Built DEF IsEntry
<1>3. top \in new /\ top.sequence_number = seq[r] + n
  BY <1>2 DEF ToSet
<1>4. ASSUME NEW x \in new PROVE x.sequence_number <= top.sequence_number
  <2>1. PICK k \in 1..n : x = Created(r)[k]
    BY <1>2 DEF ToSet
  <2> QED BY <1>1, <1>2, <1>3, <2>1
<1>5. \A x \in entries : x.sequence_number \in Nat
  BY DEF DbInv, DbTypes, EntryRecords
<1>6. top.sequence_number \in Nat /\ \A x \in new : x.sequence_number \in Nat
  <2>1. ASSUME NEW x \in new PROVE x.sequence_number \in Nat
    <3>1. PICK k \in 1..n : x = Created(r)[k]
      BY <1>2 DEF ToSet
    <3> QED BY <1>1, <1>2, <3>1
  <2> QED BY <1>3, <2>1
<1> HIDE DEF n, new, top
<1>7. CASE entries = {}
  BY <1>1, <1>3, <1>4, <1>7 DEF SomeRowIsLast
<1>8. CASE entries # {}
  <2>1. PICK e \in entries : \A x \in entries : x.sequence_number <= e.sequence_number
    BY <1>8 DEF DbInv, SomeRowIsLast
  <2>2. CASE e.sequence_number <= top.sequence_number
    <3>1. \A x \in entries : x.sequence_number <= top.sequence_number
      BY <1>5, <1>6, <2>1, <2>2
    <3> QED BY <1>1, <1>3, <1>4, <3>1 DEF SomeRowIsLast
  <2>3. CASE ~(e.sequence_number <= top.sequence_number)
    <3>1. \A x \in new : x.sequence_number <= e.sequence_number
      BY <1>4, <1>5, <1>6, <2>3
    <3> QED BY <1>1, <2>1, <3>1 DEF SomeRowIsLast
  <2> QED BY <2>2, <2>3
<1> QED BY <1>7, <1>8

\* Whether or not the commit is acknowledged, the invariant is kept and the posting is
\* the request's (post_via_db, tx.commit).
LEMMA CommitKeepsInv ==
    ASSUME DbInv, NEW r \in Requests, pc[r] = "commit", Publish(r),
           NEW step \in {"cache", "done"}, pc' = [pc EXCEPT ![r] = step],
           UNCHANGED <<at, prev, seq, phase>>
    PROVE  Sound /\ Wrote(r)'
<1>1. /\ PostError(Payload[r]) = "none" /\ AccountsKnown(r)
      /\ prev[r] \in Hashes /\ seq[r] \in Nat
      /\ Id(r) \notin DOMAIN postings
      /\ DOMAIN postings' = DOMAIN postings \cup {Id(r)}
      /\ DOMAIN hash_chain' = DOMAIN hash_chain \cup {Id(r)}
      /\ postings'[Id(r)] = NewHead(r) /\ hash_chain'[Id(r)] = NewHead(r)
      /\ RowsOf(Id(r))' = ToSet(Created(r))
      /\ entries' = entries \cup ToSet(Created(r))
      /\ \A e \in ToSet(Created(r)) : e.posting_id = Id(r)
      /\ Kept
  BY Published
<1>2. /\ \A q \in Requests : q # r => pc'[q] = pc[q]
      /\ pc'[r] = step /\ pc' \in [Requests -> Steps]
  BY DEF DbInv, DbTypes, Steps
<1>3. Wrote(r)'
  <2>1. Created(r)' = Created(r) /\ NewHead(r)' = NewHead(r)
    BY DEF Created, NewHead
  <2>2. ToSet(Created(r))' = ToSet(Created(r))
    BY <2>1 DEF ToSet
  <2> QED BY <1>1, <1>2, <2>1, <2>2 DEF Wrote, Id
<1>4. ASSUME NEW q \in Requests, Wrote(q) PROVE Wrote(q)'
  <2>1. Id(q) \in DOMAIN postings /\ q # r
    BY <1>1, <1>4 DEF Wrote
  <2>2. pc'[q] \in {"cache", "audit", "done", "lost"}
    BY <1>2, <1>4, <2>1 DEF Wrote
  <2> QED BY <1>1, <1>4, <2>1, <2>2, StaysWritten DEF Kept
<1>5. DbTypes'
  <2>1. Id(r) \in Ids /\ NewHead(r) \in Hashes
    BY <1>1, Built DEF Ids
  <2>2. ToSet(Created(r)) \subseteq EntryRecords
    <3>1. ASSUME NEW e \in ToSet(Created(r)) PROVE e \in EntryRecords
      <4>1. PICK k \in 1..Len(Payload[r].entries) : e = Created(r)[k]
        BY <1>1, Built DEF ToSet
      <4> QED BY <1>1, <4>1, BuiltRows
    <3> QED BY <3>1
  <2> QED BY <1>1, <1>2, <2>1, <2>2 DEF DbInv, DbTypes, Kept
<1>6. EveryPostingWritten'
  <2>1. \A e \in entries' : e.posting_id \in DOMAIN postings'
    BY <1>1 DEF DbInv, EveryPostingWritten
  <2>2. ASSUME NEW id \in DOMAIN postings' PROVE \E q \in Requests : Id(q) = id /\ Wrote(q)'
    BY <1>1, <1>3, <1>4, <2>2 DEF DbInv, EveryPostingWritten
  <2> QED BY <2>1, <2>2 DEF EveryPostingWritten, Id
<1>7. ASSUME NEW q \in Requests PROVE OnItsWay(q)'
  <2>1. OnItsWay(q)
    BY DEF DbInv
  <2>2. IsHead(prev[q])'
    <3>1. \A x \in entries : postings'[x.posting_id] = postings[x.posting_id]
      BY <1>1 DEF Kept, DbInv, EveryPostingWritten
    <3> QED BY <1>1, <2>1, <3>1, StaysHead DEF OnItsWay, Kept, IsHead
  <2>3. CASE q = r
    BY <1>1, <1>2, <1>3, <2>1, <2>2, <2>3 DEF OnItsWay, Finished, Id, AccountsKnown
  <2>4. CASE q # r
    <3>1. pc[q] \in {"sequence", "commit"} => Id(q) # Id(r)
      BY <2>4 DEF DbInv, OneHolder
    <3>2. pc'[q] \in {"cache", "audit"} => Wrote(q)'
      BY <1>2, <1>4, <2>1, <2>4 DEF OnItsWay
    <3> QED BY <1>1, <1>2, <2>1, <2>2, <2>4, <3>1, <3>2 DEF OnItsWay, Id, AccountsKnown
  <2> QED BY <2>3, <2>4
<1>8. OneHolder'
  BY <1>2 DEF DbInv, OneHolder, Id
<1> QED BY <1>1, <1>3, <1>4, <1>5, <1>6, <1>7, <1>8, LastAfterPublish DEF DbInv, Sound

\* Processes start, stop and die, and with them the requests they serve; nothing that is
\* committed changes.
LEMMA ProcessesKeepInv ==
    ASSUME DbInv, DbTypes',
           UNCHANGED <<postings, entries, hash_chain, at, prev, seq>>,
           \A q \in Requests : \/ pc'[q] = pc[q]
                               \/ pc[q] \notin Finished /\ pc'[q] = "lost",
           \A q \in Requests : pc'[q] \notin Finished => phase'[at[q]] = "up"
    PROVE  Sound
<1>1. \A id : RowsOf(id)' = RowsOf(id)
  BY DEF RowsOf
<1>2. ASSUME NEW q \in Requests, Wrote(q) PROVE Wrote(q)'
  <2>1. pc'[q] \in {"cache", "audit", "done", "lost"} /\ Id(q) \in DOMAIN postings'
    BY <1>2 DEF Wrote
  <2> QED BY <1>1, <1>2, <2>1, StaysWritten
<1>3. EveryPostingWritten'
  <2>1. \A e \in entries' : e.posting_id \in DOMAIN postings'
    BY DEF DbInv, EveryPostingWritten
  <2>2. ASSUME NEW id \in DOMAIN postings' PROVE \E q \in Requests : Id(q) = id /\ Wrote(q)'
    BY <1>2, <2>2 DEF DbInv, EveryPostingWritten
  <2> QED BY <2>1, <2>2 DEF EveryPostingWritten, Id
<1>4. ASSUME NEW q \in Requests PROVE OnItsWay(q)'
  <2>1. OnItsWay(q)
    BY DEF DbInv
  <2>2. IsHead(prev[q])'
    BY <2>1 DEF OnItsWay, IsHead
  <2>3. CASE pc'[q] = pc[q]
    <3>1. pc'[q] \in {"cache", "audit"} => Wrote(q)'
      BY <1>2, <2>1, <2>3 DEF OnItsWay
    <3> QED BY <2>1, <2>2, <2>3, <3>1 DEF OnItsWay, Id, AccountsKnown
  <2>4. CASE pc'[q] = "lost"
    BY <2>2, <2>4 DEF OnItsWay, Finished
  <2> QED BY <2>3, <2>4
<1>5. OneHolder'
  BY DEF DbInv, OneHolder, Id
<1>6. SomeRowIsLast' /\ Kept
  BY <1>1 DEF DbInv, SomeRowIsLast, Kept
<1> QED BY <1>2, <1>3, <1>4, <1>5, <1>6 DEF DbInv, Sound

-----------------------------------------------------------------------------
(* The steps of a request.                                                 *)

\* The highest number in the table is there to be read.
LEMMA LastNumberType ==
    ASSUME DbInv
    PROVE  LastNumber(entries) \in Nat
<1>1. CASE entries = {}
  BY <1>1 DEF LastNumber
<1>2. CASE entries # {}
  <2>1. PICK e \in entries : \A x \in entries : x.sequence_number <= e.sequence_number
    BY <1>2 DEF DbInv, SomeRowIsLast
  <2>2. \A x \in entries : x.sequence_number \in Nat
    BY DEF DbInv, DbTypes, EntryRecords
  <2> DEFINE numbers == {x.sequence_number : x \in entries}
  <2>3. e.sequence_number \in numbers /\ \A n \in numbers : e.sequence_number >= n
    BY <2>1, <2>2
  <2>4. Max(numbers) \in numbers
    BY <2>3 DEF Max
  <2> QED BY <1>2, <2>2, <2>4 DEF LastNumber
<1> QED BY <1>1, <1>2

\* The row with the highest number is the last of its posting, so that its hash is one
\* from which the next posting may go on (last_entry_hash_from_db).
LEMMA LastRowIsHead ==
    ASSUME DbInv, NEW e \in LastRows, e \in entries
    PROVE  e.this_hash \in Hashes /\ IsHead(e.this_hash)
<1>1. e.this_hash \in Hashes /\ \A x \in entries : x.sequence_number \in Nat
  BY DEF DbInv, DbTypes, EntryRecords
<1>2. \A x \in entries : x.sequence_number <= e.sequence_number
  <2>1. PICK l \in entries : \A x \in entries : x.sequence_number <= l.sequence_number
    BY DEF DbInv, SomeRowIsLast
  <2> DEFINE numbers == {x.sequence_number : x \in entries}
  <2>2. l.sequence_number \in numbers /\ \A n \in numbers : l.sequence_number >= n
    BY <1>1, <2>1
  <2>3. Max(numbers) \in numbers /\ \A n \in numbers : Max(numbers) >= n
    BY <2>2 DEF Max
  <2>4. e.sequence_number = Max(numbers)
    BY DEF LastRows, LastNumber
  <2> QED BY <1>1, <2>3, <2>4
<1>3. PICK r \in Requests : Id(r) = e.posting_id /\ Wrote(r)
  BY DEF DbInv, EveryPostingWritten
<1>4. /\ PostError(Payload[r]) = "none" /\ prev[r] \in Hashes /\ seq[r] \in Nat
      /\ RowsOf(Id(r)) = ToSet(Created(r)) /\ postings[e.posting_id] = NewHead(r)
  BY <1>3 DEF Wrote, DbInv, DbTypes
<1> DEFINE n == Len(Payload[r].entries)
<1>5. /\ n \in Nat \ {0} /\ DOMAIN Created(r) = 1..n
      /\ \A k \in 1..n : Created(r)[k].sequence_number = seq[r] + k
      /\ Created(r)[n].this_hash = NewHead(r)
  BY <1>4, Built DEF IsEntry
<1> HIDE DEF n
<1>6. PICK k \in 1..n : e = Created(r)[k]
  BY <1>3, <1>4, <1>5 DEF RowsOf, ToSet
<1>7. Created(r)[n] \in entries
  BY <1>4, <1>5 DEF RowsOf, ToSet
<1>8. k = n
  BY <1>2, <1>4, <1>5, <1>6, <1>7
<1> QED BY <1>1, <1>4, <1>5, <1>6, <1>8 DEF IsHead

\* A request that is being served goes on to where it may go, with what it has read.
LEMMA GoesOn ==
    ASSUME DbInv, NEW r \in Requests, pc[r] \notin Finished,
           NEW step \in Steps, pc' = [pc EXCEPT ![r] = step],
           UNCHANGED <<postings, entries, hash_chain, at, prev, seq, phase>>,
           step \in {"head", "insert", "blocked", "sequence", "commit"} => AccountsKnown(r),
           step = "fetch" => Id(r) \in DOMAIN postings,
           step \in {"sequence", "commit"} =>
                /\ Id(r) \notin DOMAIN postings
                /\ pc[r] \in {"sequence", "commit"} \/ Holders(Id(r)) = {},
           step \in {"cache", "audit"} => Wrote(r),
           Wrote(r) => step \in {"cache", "audit", "done", "lost"}
    PROVE  Sound
<1>1. Moves(r, step)
  BY DEF Moves
<1>2. DbTypes' /\ pc'[r] = step
  BY DEF DbInv, DbTypes
<1>3. OnItsWay(r)'
  <2>1. OnItsWay(r)
    BY DEF DbInv
  <2>2. IsHead(prev[r])'
    BY <2>1 DEF OnItsWay, IsHead
  <2>3. step \in {"cache", "audit"} => Wrote(r)'
    <3>1. ASSUME step \in {"cache", "audit"} PROVE Wrote(r)'
      <4>1. Wrote(r)
        BY <3>1
      <4>2. RowsOf(Id(r))' = RowsOf(Id(r)) /\ Id(r) \in DOMAIN postings'
        BY <4>1 DEF RowsOf, Wrote
      <4> QED BY <1>2, <3>1, <4>1, <4>2, StaysWritten
    <3> QED BY <3>1
  <2> QED BY <1>2, <2>1, <2>2, <2>3 DEF OnItsWay, Id, AccountsKnown
<1> QED BY <1>1, <1>2, <1>3, MoveKeepsInv

\* Reading the head of the chain, or failing to: the request holds a hash from which a
\* posting may go on (last_entry_hash_from_db, unwrap_or_else).
LEMMA HeadRead ==
    ASSUME DbInv, NEW r \in Requests, pc[r] = "head",
           NEW h \in Hashes, IsHead(h), prev' = [prev EXCEPT ![r] = h],
           pc' = [pc EXCEPT ![r] = "insert"],
           UNCHANGED <<postings, entries, hash_chain, at, seq, phase>>
    PROVE  Sound
<1>1. "insert" \in Steps
  BY DEF Steps
<1>2. DbTypes' /\ pc'[r] = "insert" /\ prev'[r] = h
  BY <1>1 DEF DbInv, DbTypes
<1>3. Moves(r, "insert")
  BY DEF Moves, DbInv, DbTypes
<1>4. OnItsWay(r)'
  <2>1. OnItsWay(r) /\ pc[r] \notin Finished
    BY DEF DbInv, Finished
  <2>2. IsHead(prev[r])'
    BY <1>2 DEF IsHead
  <2> QED BY <1>2, <2>1, <2>2 DEF OnItsWay, Id, AccountsKnown
<1>5. ~Wrote(r)
  BY DEF Wrote
<1> QED BY <1>1, <1>2, <1>3, <1>4, <1>5, MoveKeepsInv

\* A request is taken up by a replica that is up (Store::post).
LEMMA StartSound ==
    ASSUME DbInv, NEW r \in Requests, NEW p \in Replicas, Start(r, p)
    PROVE  Sound
<1> DEFINE step == IF PostError(Payload[r]) = "none" THEN "check" ELSE "done"
<1>1. /\ pc[r] = "new" /\ phase[p] = "up" /\ at' = [at EXCEPT ![r] = p]
      /\ pc' = [pc EXCEPT ![r] = step]
      /\ UNCHANGED <<postings, entries, hash_chain, prev, seq, phase>>
  BY DEF Start, Goto, Return, db, process
<1>2. step \in Steps
  BY DEF Steps
<1>3. DbTypes' /\ pc'[r] = step /\ at'[r] = p
  BY <1>1, <1>2 DEF DbInv, DbTypes
<1>4. Moves(r, step)
  BY <1>1 DEF Moves, DbInv, DbTypes
<1>5. OnItsWay(r)'
  <2>1. OnItsWay(r)
    BY DEF DbInv
  <2>2. IsHead(prev[r])'
    BY <1>1, <2>1 DEF OnItsWay, IsHead
  <2> QED BY <1>1, <1>3, <2>2 DEF OnItsWay, Finished
<1>6. ~Wrote(r)
  BY <1>1 DEF Wrote
<1> QED BY <1>2, <1>3, <1>4, <1>5, <1>6, MoveKeepsInv

\* The insert of the posting row goes on only if no other transaction holds the id and
\* no row has it (INSERT ... ON CONFLICT DO NOTHING).
LEMMA InsertSound ==
    ASSUME DbInv, NEW r \in Requests, InsertPosting(r) \/ Unblock(r)
    PROVE  Sound
<1>1. OnItsWay(r) /\ pc[r] \in {"insert", "blocked"} /\ pc[r] \notin Finished /\ ~Wrote(r)
  BY DEF DbInv, InsertPosting, Unblock, Finished, Wrote
<1>2. UNCHANGED <<postings, entries, hash_chain, at, prev, seq, phase>>
  BY DEF InsertPosting, Unblock, db, process
<1>3. PICK step \in {"fetch", "blocked", "sequence", "done"} :
          /\ pc' = [pc EXCEPT ![r] = step]
          /\ step = "fetch" => Id(r) \in DOMAIN postings
          /\ step = "sequence" => Id(r) \notin DOMAIN postings /\ Holders(Id(r)) = {}
  <2>1. CASE InsertPosting(r)
    <3>1. CASE Id(r) \in DOMAIN postings
      BY <2>1, <3>1 DEF InsertPosting, Goto
    <3>2. CASE Id(r) \notin DOMAIN postings /\ Holders(Id(r)) # {}
      BY <2>1, <3>2 DEF InsertPosting, Goto
    <3>3. CASE Id(r) \notin DOMAIN postings /\ Holders(Id(r)) = {}
      BY <2>1, <3>3 DEF InsertPosting, Goto
    <3> QED BY <3>1, <3>2, <3>3
  <2>2. CASE Unblock(r)
    BY <2>2 DEF Unblock, Goto, Return
  <2> QED BY <2>1, <2>2
<1>4. step \in Steps /\ AccountsKnown(r)
  BY <1>1, <1>3 DEF Steps, OnItsWay
<1> QED BY <1>1, <1>2, <1>3, <1>4, GoesOn

\* A request ends, with an answer: it gives up what it has not committed.
LEMMA EndSound ==
    ASSUME DbInv, NEW r \in Requests, pc[r] \notin Finished,
           pc' = [pc EXCEPT ![r] = "done"],
           UNCHANGED <<postings, entries, hash_chain, at, prev, seq, phase>>
    PROVE  Sound
<1>1. "done" \in Steps
  BY DEF Steps
<1> QED BY <1>1, GoesOn

\* Every step of a request, and every failure it meets, is sound (post_via_db).
LEMMA RequestSound ==
    ASSUME DbInv, NEW r \in Requests, Step(r) \/ Failure(r)
    PROVE  Sound
<1>1. OnItsWay(r) /\ pc \in [Requests -> Steps] /\ prev[r] \in Hashes
  BY DEF DbInv, DbTypes
<1>2. ASSUME CheckExisting(r) PROVE Sound
  <2> DEFINE step == IF Id(r) \in DOMAIN postings THEN "fetch" ELSE "accounts"
  <2>1. /\ pc[r] = "check" /\ pc[r] \notin Finished /\ ~Wrote(r) /\ step \in Steps
        /\ pc' = [pc EXCEPT ![r] = step]
        /\ UNCHANGED <<postings, entries, hash_chain, at, prev, seq, phase>>
    BY <1>2 DEF CheckExisting, Goto, Finished, Wrote, Steps, db, process
  <2> QED BY <2>1, GoesOn
<1>3. ASSUME FetchExisting(r) \/ QueryFails(r) PROVE Sound
  BY <1>3, EndSound DEF FetchExisting, QueryFails, Return, Goto, Finished, db, process
<1>4. ASSUME CheckAccounts(r) PROVE Sound
  <2>1. /\ pc[r] = "accounts" /\ pc[r] \notin Finished /\ ~Wrote(r)
        /\ UNCHANGED <<postings, entries, hash_chain, at, prev, seq, phase>>
    BY <1>4 DEF CheckAccounts, Finished, Wrote, db, process
  <2>2. CASE AccountsAccept(Payload[r].entries)
    <3>1. pc' = [pc EXCEPT ![r] = "head"] /\ "head" \in Steps /\ AccountsKnown(r)
      BY <1>4, <2>2 DEF CheckAccounts, Goto, Steps, AccountsAccept, AccountsKnown
    <3> QED BY <2>1, <3>1, GoesOn
  <2>3. CASE ~AccountsAccept(Payload[r].entries)
    BY <1>4, <2>1, <2>3, EndSound DEF CheckAccounts, Return, Goto
  <2> QED BY <2>2, <2>3
<1>5. ASSUME ReadHead(r) PROVE Sound
  <2>1. PICK h \in IF entries = {} THEN {GENESIS_HASH} ELSE {e.this_hash : e \in LastRows} :
            prev' = [prev EXCEPT ![r] = h]
    BY <1>5 DEF ReadHead
  <2>2. h \in Hashes /\ IsHead(h)
    <3>1. CASE h = GENESIS_HASH
      BY <3>1, EmptySeq DEF IsHead, Hashes, GENESIS_HASH
    <3>2. CASE entries # {}
      <4>1. PICK e \in LastRows : h = e.this_hash
        BY <2>1, <3>2
      <4>2. e \in entries
        BY DEF LastRows
      <4> QED BY <4>1, <4>2, LastRowIsHead
    <3> QED BY <2>1, <3>1, <3>2
  <2> QED BY <1>5, <2>1, <2>2, HeadRead DEF ReadHead, Goto, db, process
<1>6. ASSUME NEW step \in {"insert"}, pc[r] = "head", pc' = [pc EXCEPT ![r] = step],
             prev' = [prev EXCEPT ![r] = GENESIS_HASH],
             UNCHANGED <<postings, entries, hash_chain, at, seq, phase>>
      PROVE  Sound
  <2>1. GENESIS_HASH \in Hashes /\ IsHead(GENESIS_HASH)
    BY EmptySeq DEF IsHead, Hashes, GENESIS_HASH
  <2> QED BY <1>6, <2>1, HeadRead
<1>7. ASSUME HeadReadFails(r) PROVE Sound
  BY <1>6, <1>7 DEF HeadReadFails, Goto, db, process
<1>8. ASSUME InsertPosting(r) \/ Unblock(r) PROVE Sound
  BY <1>8, InsertSound
<1>9. ASSUME ReadSequence(r) PROVE Sound
  <2>1. /\ pc[r] = "sequence" /\ pc[r] \notin Finished /\ ~Wrote(r) /\ "commit" \in Steps
        /\ pc' = [pc EXCEPT ![r] = "commit"]
        /\ seq' = [seq EXCEPT ![r] = LastNumber(entries)]
        /\ UNCHANGED <<postings, entries, hash_chain, at, prev, phase>>
    BY <1>9 DEF ReadSequence, Goto, Finished, Wrote, Steps, db, process
  <2>2. DbTypes' /\ pc'[r] = "commit" /\ Moves(r, "commit")
    BY <2>1, LastNumberType DEF DbInv, DbTypes, Moves
  <2>3. IsHead(prev[r])'
    BY <1>1, <2>1 DEF OnItsWay, IsHead
  <2>4. OnItsWay(r)'
    BY <1>1, <2>1, <2>2, <2>3 DEF OnItsWay, Id, AccountsKnown
  <2> QED BY <2>1, <2>2, <2>4, MoveKeepsInv
<1>10. ASSUME Commit(r) PROVE Sound
  BY <1>10, CommitKeepsInv DEF Commit, Goto, process
<1>11. ASSUME CommitUnacknowledged(r) PROVE Sound
  BY <1>11, CommitKeepsInv DEF CommitUnacknowledged, Return, Goto, process
<1>12. ASSUME PoolTimesOut(r) PROVE Sound
  <2>1. CASE pc[r] = "head"
    BY <1>6, <1>12, <2>1 DEF PoolTimesOut, Goto, db, process
  <2>2. CASE pc[r] # "head"
    BY <1>12, <2>2, EndSound DEF PoolTimesOut, Return, Goto, Finished, db, process
  <2> QED BY <2>1, <2>2
<1>13. ASSUME UpdateCache(r) PROVE Sound
  <2>1. /\ pc[r] = "cache" /\ pc[r] \notin Finished /\ "audit" \in Steps
        /\ pc' = [pc EXCEPT ![r] = "audit"]
        /\ UNCHANGED <<postings, entries, hash_chain, at, prev, seq, phase>>
    BY <1>13 DEF UpdateCache, Goto, Finished, Steps, db
  <2>2. Wrote(r)
    BY <1>1, <2>1 DEF OnItsWay
  <2> QED BY <2>1, <2>2, GoesOn
<1>14. ASSUME AuditAndReturn(r) PROVE Sound
  BY <1>14, EndSound DEF AuditAndReturn, Return, Goto, Finished, db, process
<1> QED BY <1>2, <1>3, <1>4, <1>5, <1>7, <1>8, <1>9, <1>10, <1>11, <1>12, <1>13, <1>14
        DEF Step, Failure

-----------------------------------------------------------------------------
(* The invariant, and what follows from it.                                *)

LEMMA InitInv == Init => DbInv
<1> SUFFICES ASSUME Init PROVE DbInv
  OBVIOUS
<1>1. DbTypes
  BY EmptySeq DEF Init, DbTypes, Hashes, GENESIS_HASH, Steps
<1>2. \A r \in Requests : OnItsWay(r)
  BY DEF Init, OnItsWay, Finished, IsHead
<1>3. EveryPostingWritten
  BY DEF Init, EveryPostingWritten
<1>4. OneHolder /\ SomeRowIsLast
  BY DEF Init, OneHolder, SomeRowIsLast
<1> QED BY <1>1, <1>2, <1>3, <1>4 DEF DbInv

\* A process that dies takes its requests with it; the others do not notice.
LEMMA CrashSound ==
    ASSUME DbInv, NEW p \in Replicas, Crash(p)
    PROVE  Sound
<1>1. /\ UNCHANGED <<postings, entries, hash_chain, at, prev, seq>>
      /\ phase' = [phase EXCEPT ![p] = "down"]
      /\ pc' = [r \in Requests |-> IF r \in InFlight /\ at[r] = p THEN "lost" ELSE pc[r]]
  BY DEF Crash, db
<1>2. \A q \in Requests : \/ pc'[q] = pc[q]
                          \/ pc[q] \notin Finished /\ pc'[q] = "lost"
  BY <1>1 DEF InFlight
<1>3. DbTypes'
  <2>1. pc' \in [Requests -> Steps]
    BY <1>1 DEF DbInv, DbTypes, Steps
  <2> QED BY <1>1, <2>1 DEF DbInv, DbTypes
<1>4. ASSUME NEW q \in Requests, pc'[q] \notin Finished PROVE phase'[at[q]] = "up"
  <2>1. pc'[q] = pc[q] /\ at[q] # p
    BY <1>1, <1>4 DEF InFlight, Finished
  <2>2. at[q] \in Replicas /\ phase[at[q]] = "up"
    BY <1>4, <2>1 DEF DbInv, OnItsWay
  <2> QED BY <1>1, <2>1, <2>2 DEF DbInv, DbTypes
<1> QED BY <1>1, <1>2, <1>3, <1>4, ProcessesKeepInv

\* A process that starts serves nobody yet.
LEMMA BootSound ==
    ASSUME DbInv, NEW p \in Replicas, Boot(p)
    PROVE  Sound
<1>1. /\ UNCHANGED <<postings, entries, hash_chain, pc, at, prev, seq>>
      /\ phase[p] # "up"
      /\ \E new \in {"hydrating", "verifying", "up", "halted"} : phase' = [phase EXCEPT ![p] = new]
  BY DEF Boot, HydrateEntries, HydratePostings, VerifyAtStartup, db, calls
<1>2. DbTypes'
  BY <1>1 DEF DbInv, DbTypes
<1>3. ASSUME NEW q \in Requests, pc'[q] \notin Finished PROVE phase'[at[q]] = "up"
  <2>1. at[q] \in Replicas /\ phase[at[q]] = "up"
    BY <1>1, <1>3 DEF DbInv, OnItsWay
  <2> QED BY <1>1, <2>1 DEF DbInv, DbTypes
<1> QED BY <1>1, <1>2, <1>3, ProcessesKeepInv

\* No interleaving, and no failure, breaks the invariant or what is committed.
LEMMA NextSound ==
    ASSUME DbInv, [Next]_vars
    PROVE  Sound
<1>1. ASSUME UNCHANGED <<postings, entries, hash_chain, pc, at, prev, seq, phase>> PROVE Sound
  <2>1. DbTypes'
    BY <1>1 DEF DbInv, DbTypes
  <2>2. ASSUME NEW q \in Requests, pc'[q] \notin Finished PROVE phase'[at[q]] = "up"
    BY <1>1, <2>2 DEF DbInv, OnItsWay
  <2> QED BY <1>1, <2>1, <2>2, ProcessesKeepInv
<1>2. ASSUME NEW r \in Requests, \/ \E p \in Replicas : Start(r, p)
                                 \/ Step(r)
                                 \/ Failure(r)
      PROVE  Sound
  BY <1>2, StartSound, RequestSound
<1>3. ASSUME NEW o \in outbox, Send(o) \/ SendFails(o) PROVE Sound
  BY <1>1, <1>3 DEF Send, SendFails, db, calls, process
<1>4. ASSUME NEW a \in DOMAIN AccountTable, Deactivate(a) PROVE Sound
  BY <1>1, <1>4 DEF Deactivate, db, calls, process
<1>5. CASE UNCHANGED vars
  BY <1>1, <1>5 DEF vars, db, calls, process
<1>6. CASE Serve
  BY <1>2, <1>3, <1>4, <1>6, BootSound DEF Serve
<1>7. CASE \E p \in Replicas : Crash(p)
  BY <1>7, CrashSound
<1> QED BY <1>5, <1>6, <1>7 DEF Next

\* Every reachable state is one in which whatever is in the database was put there
\* whole by one request (post_via_db).
THEOREM DbInvHolds == Spec => []DbInv
<1>1. DbInv /\ [Next]_vars => DbInv'
  BY NextSound DEF Sound
<1> QED BY <1>1, InitInv, PTL DEF Spec

\* Every posting in the database is the whole posting of one request, for every set of
\* requests and replicas, every interleaving and every failure: all its rows with
\* numbers without gap, its anchor, and the hash of the last row as its head
\* (the transaction of post_via_db).
THEOREM WholePostings == Spec => []PostingsWhole
<1>1. ASSUME DbInv, NEW r \in Requests, Wrote(r)
      PROVE  \E e \in RowsOf(Id(r)) : /\ e.sequence_number = LastNumber(RowsOf(Id(r)))
                                      /\ e.this_hash = postings[Id(r)]
  <2> DEFINE n == Len(Payload[r].entries)
             last == Created(r)[n]
             numbers == {e.sequence_number : e \in RowsOf(Id(r))}
  <2>1. /\ PostError(Payload[r]) = "none" /\ prev[r] \in Hashes /\ seq[r] \in Nat
        /\ RowsOf(Id(r)) = ToSet(Created(r)) /\ postings[Id(r)] = NewHead(r)
    BY <1>1 DEF Wrote, DbInv, DbTypes
  <2>2. /\ n \in Nat \ {0} /\ DOMAIN Created(r) = 1..n
        /\ \A k \in 1..n : Created(r)[k].sequence_number = seq[r] + k
        /\ last.this_hash = NewHead(r)
    BY <2>1, Built DEF IsEntry
  <2> HIDE DEF n
  <2>3. last \in RowsOf(Id(r)) /\ last.sequence_number = seq[r] + n
    BY <2>1, <2>2 DEF ToSet
  <2>4. \A x \in numbers : x \in Nat /\ last.sequence_number >= x
    BY <2>1, <2>2, <2>3 DEF ToSet
  <2>5. last.sequence_number \in numbers
    BY <2>3
  <2>6. Max(numbers) \in numbers /\ Max(numbers) >= last.sequence_number
    BY <2>4, <2>5 DEF Max
  <2>7. Max(numbers) = last.sequence_number
    <3> HIDE DEF last, numbers
    <3> QED BY <2>4, <2>5, <2>6
  <2> QED BY <2>1, <2>2, <2>3, <2>7 DEF LastNumber
<1>2. DbInv => PostingsWhole
  <2> SUFFICES ASSUME DbInv PROVE PostingsWhole
    OBVIOUS
  <2>1. ASSUME NEW id \in DOMAIN postings
        PROVE  \E r \in Requests :
                  /\ Id(r) = id
                  /\ RowsOf(id) = ToSet(Created(r))
                  /\ hash_chain[id] = postings[id]
                  /\ \E e \in RowsOf(id) : /\ e.sequence_number = LastNumber(RowsOf(id))
                                          /\ e.this_hash = postings[id]
    <3>1. PICK r \in Requests : Id(r) = id /\ Wrote(r)
      BY DEF DbInv, EveryPostingWritten
    <3> QED BY <1>1, <3>1 DEF Wrote
  <2> QED BY <2>1 DEF DbInv, EveryPostingWritten, PostingsWhole
<1> QED BY <1>2, DbInvHolds, PTL

\* What is committed is final: no step of any request or process, and no failure,
\* changes or removes it or adds a row to it (post_via_db).
THEOREM CommittedIsFinal == Spec => DbAppendOnly
<1> DEFINE Grows == /\ entries \subseteq entries'
                    /\ \A id \in DOMAIN postings :
                          /\ id \in DOMAIN postings'
                          /\ postings'[id] = postings[id]
                          /\ hash_chain'[id] = hash_chain[id]
                          /\ RowsOf(id)' = RowsOf(id)
<1>1. DbInv /\ [Next]_vars => [Grows]_vars
  BY NextSound DEF Sound, Kept
<1> QED BY <1>1, DbInvHolds, PTL DEF Spec, DbAppendOnly

\* Each row's link verifies, and each posting goes on from the empty ledger or from the
\* last row of another whole posting (last_entry_hash_from_db, post_via_db).
LEMMA LinksVerify == DbInv => ChainIsATree
<1> SUFFICES ASSUME DbInv, NEW e \in entries
             PROVE  /\ LinkOK(e, e.prev_hash)
                    /\ \/ e.prev_hash = GENESIS_HASH
                       \/ \E x \in entries :
                             /\ x.this_hash = e.prev_hash
                             /\ x.posting_id # e.posting_id =>
                                   x.this_hash = postings[x.posting_id]
  BY DEF ChainIsATree
<1>1. PICK r \in Requests : Id(r) = e.posting_id /\ Wrote(r)
  BY DEF DbInv, EveryPostingWritten
<1>2. /\ PostError(Payload[r]) = "none" /\ prev[r] \in Hashes /\ seq[r] \in Nat
      /\ RowsOf(Id(r)) = ToSet(Created(r)) /\ IsHead(prev[r])
  BY <1>1 DEF Wrote, DbInv, DbTypes, OnItsWay
<1> DEFINE n == Len(Payload[r].entries)
           hash(k) == HashAfter(r, Payload[r].entries, prev[r], k)
<1>3. /\ n \in Nat \ {0} /\ DOMAIN Created(r) = 1..n
      /\ \A k \in 1..n : IsEntry(Created(r)[k], r, Payload[r], prev[r], seq[r], k)
  BY <1>2, Built
<1>4. \A k \in 1..n : /\ Created(r)[k].prev_hash = hash(k - 1)
                      /\ Created(r)[k].this_hash = hash(k)
                      /\ Created(r)[k].posting_id = Payload[r].posting_id
                      /\ LinkOK(Created(r)[k], hash(k - 1))
  BY <1>3 DEF IsEntry
<1>5. hash(0) = prev[r]
  BY <1>2, RunningHashZero DEF Hashes
<1> HIDE DEF n, hash
<1>6. PICK k \in 1..n : e = Created(r)[k]
  BY <1>1, <1>2, <1>3 DEF RowsOf, ToSet
<1>7. LinkOK(e, e.prev_hash)
  BY <1>4, <1>6
<1>8. CASE k = 1
  <2>1. e.prev_hash = prev[r]
    BY <1>4, <1>5, <1>6, <1>8
  <2> QED BY <1>2, <1>7, <2>1 DEF IsHead
<1>9. CASE k # 1
  <2>1. k - 1 \in 1..n
    BY <1>3, <1>9
  <2>2. Created(r)[k - 1] \in entries
    BY <1>2, <1>3, <2>1 DEF RowsOf, ToSet
  <2>3. /\ Created(r)[k - 1].this_hash = e.prev_hash
        /\ Created(r)[k - 1].posting_id = e.posting_id
    BY <1>4, <1>6, <2>1
  <2> QED BY <1>7, <2>2, <2>3
<1> QED BY <1>8, <1>9

\* So writers may fork the chain and never detach it, however many there are and whatever
\* fails.
THEOREM ForksNeverDetach == Spec => []ChainIsATree
BY LinksVerify, DbInvHolds, PTL

-----------------------------------------------------------------------------
(* The ids of a posting, in order.                                         *)

\* A list without repetition has as many members as places.
LEMMA Counted ==
    ASSUME NEW f, NEW m \in Nat, \A j, k \in 1..m : f[j] = f[k] => j = k
    PROVE  Cardinality({f[k] : k \in 1..m}) = m
<1> DEFINE S == {f[k] : k \in 1..m}
           g == [k \in 1..m |-> f[k]]
<1>1. g \in Bijection(1..m, S)
  BY DEF Bijection, Injection, Surjection, IsInjective
<1>2. ExistsBijection(1..m, S)
  BY <1>1 DEF ExistsBijection
<1> HIDE DEF S
<1>3. Cardinality(S) = m
  BY <1>2, FS_CountingElements
<1> QED BY <1>3 DEF S

\* ORDER BY sequence_number gives the entries of a posting in the order in which its
\* request built them, so that a replay returns the ids that were first returned.
LEMMA IdsOfPosting ==
    ASSUME DbInv, NEW r \in Requests, Wrote(r)
    PROVE  IdsInOrder(RowsOf(Id(r))) = NewIds(r)
<1> DEFINE n == Len(Payload[r].entries)
           row == Created(r)
           rows == RowsOf(Id(r))
           place(e) == 1 + Cardinality({x \in rows : x.sequence_number < e.sequence_number})
<1>1. /\ PostError(Payload[r]) = "none" /\ prev[r] \in Hashes /\ seq[r] \in Nat
      /\ rows = ToSet(row)
  BY DEF Wrote, DbInv, DbTypes
<1>2. /\ n \in Nat \ {0} /\ DOMAIN row = 1..n
      /\ \A k \in 1..n : row[k].sequence_number = seq[r] + k /\ row[k].entry_id = EntryId(r, k)
  BY <1>1, Built DEF IsEntry
<1>3. DOMAIN Payload[r].entries = 1..n
  BY <1>1, ValidLines DEF Hashable
<1> HIDE DEF n, row
<1>4. rows = {row[k] : k \in 1..n}
  BY <1>1, <1>2 DEF ToSet
<1>5. \A j, k \in 1..n : row[j] = row[k] => j = k
  BY <1>1, <1>2
<1>6. Cardinality(rows) = n
  BY <1>2, <1>4, <1>5, Counted
<1>7. ASSUME NEW k \in 1..n PROVE place(row[k]) = k
  <2>1. {x \in rows : x.sequence_number < row[k].sequence_number} = {row[j] : j \in 1..(k - 1)}
    <3>1. \A j \in 1..n : row[j].sequence_number < row[k].sequence_number <=> j < k
      BY <1>1, <1>2
    <3>2. \A j \in 1..(k - 1) : j \in 1..n /\ j < k
      BY <1>2
    <3>3. \A j \in 1..n : j < k => j \in 1..(k - 1)
      BY <1>2
    <3> HIDE DEF rows
    <3> QED BY <1>4, <3>1, <3>2, <3>3
  <2>2. Cardinality({row[j] : j \in 1..(k - 1)}) = k - 1
    <3>1. k - 1 \in Nat /\ \A i, j \in 1..(k - 1) : row[i] = row[j] => i = j
      BY <1>2, <1>5
    <3> QED BY <3>1, Counted
  <2>3. Cardinality({x \in rows : x.sequence_number < row[k].sequence_number}) = k - 1
    BY <2>1, <2>2
  <2> HIDE DEF rows
  <2> QED BY <2>3
<1> HIDE DEF place, rows
<1>8. ASSUME NEW k \in 1..n PROVE (CHOOSE e \in rows : place(e) = k) = row[k]
  BY <1>4, <1>7
<1>9. IdsInOrder(RowsOf(Id(r))) = [k \in 1..n |-> EntryId(r, k)]
  <2>1. IdsInOrder(rows) =
          [k \in 1..Cardinality(rows) |-> (CHOOSE e \in rows : place(e) = k).entry_id]
    BY DEF IdsInOrder, place
  <2>2. \A k \in 1..n : (CHOOSE e \in rows : place(e) = k).entry_id = EntryId(r, k)
    BY <1>2, <1>8
  <2> QED BY <1>6, <2>1, <2>2 DEF rows
<1> QED BY <1>3, <1>9 DEF NewIds, n

\* One request only has written a posting, and the rows say which.
LEMMA OneWriter ==
    ASSUME DbInv, NEW r \in Requests, Wrote(r)
    PROVE  /\ Booker(Id(r)) = r
           /\ \A s \in Requests : Wrote(s) /\ Id(s) = Id(r) => s = r
<1>1. ASSUME NEW s \in Requests, Wrote(s)
      PROVE  /\ RowsOf(Id(s)) # {}
             /\ \A e \in RowsOf(Id(s)) : e.entry_id[1] = s
  <2>1. /\ PostError(Payload[s]) = "none" /\ prev[s] \in Hashes /\ seq[s] \in Nat
        /\ RowsOf(Id(s)) = ToSet(Created(s))
    BY <1>1 DEF Wrote, DbInv, DbTypes
  <2> DEFINE n == Len(Payload[s].entries)
  <2>2. /\ n \in Nat \ {0} /\ DOMAIN Created(s) = 1..n
        /\ \A k \in 1..n : Created(s)[k].entry_id = EntryId(s, k)
    BY <2>1, Built DEF IsEntry
  <2> HIDE DEF n
  <2>3. Created(s)[n] \in RowsOf(Id(s))
    BY <2>1, <2>2 DEF ToSet
  <2>4. \A k \in 1..n : EntryId(s, k)[1] = s
    BY DEF EntryId
  <2> QED BY <2>1, <2>2, <2>3, <2>4 DEF ToSet
<1>2. (CHOOSE e \in RowsOf(Id(r)) : TRUE) \in RowsOf(Id(r))
  BY <1>1
<1> QED BY <1>1, <1>2 DEF Booker, Wrote

-----------------------------------------------------------------------------
(* What callers and the audit trail are told.                              *)

Events == [posting_id : Ids, entry_ids : Seq(EntryIds), hash_head : Hashes]

\* The ids and the head are those of the stored posting.
Stored(id, ids, head) ==
    /\ id \in DOMAIN postings
    /\ ids = IdsInOrder(RowsOf(id))
    /\ head = postings[id]

AnswersTrue ==
    /\ resp \in [Requests -> Responses]
    /\ \A r \in Requests :
          /\ resp[r].kind \in {"created", "replayed"} =>
                Stored(Id(r), resp[r].entry_ids, resp[r].hash_head)
          /\ resp[r].kind = "created" => Wrote(r)

EventsTrue ==
    /\ audit_events \in [Replicas -> Seq(Events)]
    /\ \A e \in Emitted \cup Recorded : Stored(e.posting_id, e.entry_ids, e.hash_head)

\* The events that a replica holds are of requests it has answered, one for each.
RecordedOnce ==
    \A p \in Replicas :
        /\ \A i \in DOMAIN audit_events[p] :
              \E r \in Requests : /\ Id(r) = audit_events[p][i].posting_id
                                  /\ Wrote(r) /\ pc[r] = "done" /\ at[r] = p
        /\ \A i, j \in DOMAIN audit_events[p] :
              audit_events[p][i].posting_id = audit_events[p][j].posting_id => i = j

ServiceInv == AnswersTrue /\ EventsTrue /\ RecordedOnce

\* What a request knows it has built is what is stored once it has been committed.
LEMMA OwnIsStored ==
    ASSUME DbInv, NEW r \in Requests, Wrote(r)
    PROVE  /\ Stored(Id(r), NewIds(r), NewHead(r))
           /\ NewIds(r) \in Seq(EntryIds) /\ NewHead(r) \in Hashes
           /\ NewIds(r)[1] = <<r, 1>>
<1>1. /\ PostError(Payload[r]) = "none" /\ prev[r] \in Hashes /\ seq[r] \in Nat
      /\ postings[Id(r)] = NewHead(r) /\ Id(r) \in DOMAIN postings
  BY DEF Wrote, DbInv, DbTypes
<1>2. IdsInOrder(RowsOf(Id(r))) = NewIds(r)
  BY IdsOfPosting
<1> DEFINE n == Len(Payload[r].entries)
<1>3. DOMAIN Payload[r].entries = 1..n /\ n \in Nat \ {0} /\ NewHead(r) \in Hashes
  BY <1>1, ValidLines, Built DEF Hashable
<1> HIDE DEF n
<1>4. NewIds(r) = [k \in 1..n |-> <<r, k>>]
  BY <1>3 DEF NewIds, EntryId
<1>5. NewIds(r) \in Seq(EntryIds) /\ NewIds(r)[1] = <<r, 1>>
  BY <1>3, <1>4 DEF EntryIds
<1> QED BY <1>1, <1>2, <1>3, <1>5 DEF Stored

\* Whatever is stored was written by a request, whose ids are the stored ones.
LEMMA StoredByWriter ==
    ASSUME DbInv, NEW id \in DOMAIN postings
    PROVE  \E w \in Requests :
              /\ Id(w) = id /\ Booker(id) = w /\ PostError(Payload[w]) = "none"
              /\ Stored(id, NewIds(w), NewHead(w))
              /\ NewIds(w) \in Seq(EntryIds) /\ NewHead(w) \in Hashes
              /\ NewIds(w)[1] = <<w, 1>>
<1>1. PICK w \in Requests : Id(w) = id /\ Wrote(w)
  BY DEF DbInv, EveryPostingWritten
<1> QED BY <1>1, OwnIsStored, OneWriter DEF Wrote

\* An answer or an event that was true stays true.
LEMMA StaysStored ==
    ASSUME Kept, NEW id, NEW ids, NEW head, Stored(id, ids, head)
    PROVE  Stored(id, ids, head)'
<1>1. /\ id \in DOMAIN postings' /\ postings'[id] = postings[id]
      /\ RowsOf(id)' = RowsOf(id)
  BY DEF Kept, Stored
<1>2. IdsInOrder(RowsOf(id))' = IdsInOrder(RowsOf(id))
  BY <1>1 DEF IdsInOrder
<1> QED BY <1>1, <1>2 DEF Stored

\* Every answer is true when it is given, and stays so (post_via_db).
LEMMA AnswersStep ==
    ASSUME DbInv, AnswersTrue, [Next]_vars
    PROVE  AnswersTrue'
<1>1. Kept /\ DbInv' /\ \A q \in Requests : Wrote(q) => Wrote(q)'
  BY NextSound DEF Sound
<1>2. ASSUME NEW q \in Requests, resp'[q] = resp[q]
      PROVE  /\ resp'[q].kind \in {"created", "replayed"} =>
                   Stored(Id(q), resp[q].entry_ids, resp[q].hash_head)'
             /\ resp'[q].kind = "created" => Wrote(q)'
  <2>1. PICK a : a = resp[q]
    OBVIOUS
  <2>2. /\ a.kind \in {"created", "replayed"} => Stored(Id(q), a.entry_ids, a.hash_head)
        /\ a.kind = "created" => Wrote(q)
    BY <2>1 DEF AnswersTrue
  <2>3. a.kind \in {"created", "replayed"} => Stored(Id(q), a.entry_ids, a.hash_head)'
    BY <1>1, <2>2, StaysStored
  <2>4. resp'[q] = a
    BY <1>2, <2>1
  <2> QED BY <1>1, <2>2, <2>3, <2>4 DEF Stored, Id
<1>3. ASSUME resp' = resp PROVE AnswersTrue'
  BY <1>2, <1>3 DEF AnswersTrue, Id
<1>4. ASSUME NEW r \in Requests, NEW a \in Responses, resp' = [resp EXCEPT ![r] = a],
             a.kind \in {"created", "replayed"} => Stored(Id(r), a.entry_ids, a.hash_head)',
             a.kind = "created" => Wrote(r)'
      PROVE  AnswersTrue'
  <2>1. /\ resp' \in [Requests -> Responses] /\ resp'[r] = a
        /\ \A q \in Requests : q # r => resp'[q] = resp[q]
    BY <1>4 DEF AnswersTrue
  <2>2. ASSUME NEW q \in Requests
        PROVE  /\ resp'[q].kind \in {"created", "replayed"} =>
                     Stored(Id(q), resp[q].entry_ids, resp[q].hash_head)'
               /\ resp'[q].kind = "created" => Wrote(q)'
    <3>1. CASE q = r
      BY <1>4, <2>1, <3>1 DEF Stored, Id
    <3>2. CASE q # r
      BY <1>2, <2>1, <3>2
    <3> QED BY <3>1, <3>2
  <2> QED BY <2>1, <2>2 DEF AnswersTrue, Id
<1>5. ASSUME NEW r \in Requests, NEW kind \in {"Validation", "Unbalanced"},
             resp' = [resp EXCEPT ![r] = Empty(kind)]
      PROVE  AnswersTrue'
  <2>1. Empty(kind) \in Responses /\ Empty(kind).kind \notin {"created", "replayed"}
    BY EmptySeq DEF Empty, Responses, Hashes, GENESIS_HASH
  <2> QED BY <1>4, <1>5, <2>1
<1>6. ASSUME NEW r \in Requests, FetchExisting(r) PROVE AnswersTrue'
  <2>1. /\ Id(r) \in DOMAIN postings
        /\ resp' = [resp EXCEPT ![r] = StoredResult(r)]
    BY <1>6 DEF FetchExisting, Return, DbInv, OnItsWay
  <2>2. PICK w \in Requests : /\ Stored(Id(r), NewIds(w), NewHead(w))
                              /\ NewIds(w) \in Seq(EntryIds) /\ NewHead(w) \in Hashes
    BY <2>1, StoredByWriter
  <2>3. PICK ids \in Seq(EntryIds), head \in Hashes :
            ids = NewIds(w) /\ head = NewHead(w)
    BY <2>2
  <2> DEFINE a == [kind |-> "replayed", entry_ids |-> ids, hash_head |-> head]
  <2>4. StoredResult(r) = a /\ a \in Responses
    BY <2>2, <2>3 DEF Stored, StoredResult, Responses
  <2>5. Stored(Id(r), ids, head)'
    BY <1>1, <2>2, <2>3, StaysStored
  <2> QED BY <1>4, <2>1, <2>4, <2>5
<1>7. ASSUME NEW r \in Requests, AuditAndReturn(r) PROVE AnswersTrue'
  <2>1. /\ Wrote(r)
        /\ resp' = [resp EXCEPT ![r] = [kind |-> "created", entry_ids |-> NewIds(r),
                                        hash_head |-> NewHead(r)]]
    BY <1>7 DEF AuditAndReturn, Return, DbInv, OnItsWay
  <2>2. PICK ids \in Seq(EntryIds), head \in Hashes :
            ids = NewIds(r) /\ head = NewHead(r)
    BY <2>1, OwnIsStored
  <2> DEFINE a == [kind |-> "created", entry_ids |-> ids, hash_head |-> head]
  <2>3. a \in Responses /\ resp' = [resp EXCEPT ![r] = a]
    BY <2>1, <2>2 DEF Responses
  <2>4. Stored(Id(r), ids, head)' /\ Wrote(r)'
    BY <1>1, <2>1, <2>2, OwnIsStored, StaysStored
  <2> QED BY <1>4, <2>3, <2>4
<1>8. ASSUME NEW r \in Requests, \/ \E p \in Replicas : Start(r, p)
                                 \/ Step(r)
                                 \/ Failure(r)
      PROVE  AnswersTrue'
  <2>1. CASE \E p \in Replicas : Start(r, p)
    <3>1. PostError(Payload[r]) \in {"none", "Validation", "Unbalanced"}
      BY DEF PostError
    <3> QED BY <1>3, <1>5, <2>1, <3>1 DEF Start, Return
  <2>2. CASE CheckExisting(r) \/ ReadHead(r) \/ InsertPosting(r) \/ ReadSequence(r)
             \/ Commit(r) \/ UpdateCache(r) \/ HeadReadFails(r)
    BY <1>3, <2>2 DEF CheckExisting, ReadHead, InsertPosting, ReadSequence, Commit,
                      UpdateCache, HeadReadFails
  <2>3. CASE CheckAccounts(r) \/ Unblock(r) \/ PoolTimesOut(r) \/ CommitUnacknowledged(r)
             \/ QueryFails(r)
    BY <1>3, <1>5, <2>3 DEF CheckAccounts, Unblock, PoolTimesOut, CommitUnacknowledged,
                            QueryFails, Return
  <2> QED BY <1>6, <1>7, <1>8, <2>1, <2>2, <2>3 DEF Step, Failure
<1>9. CASE \/ \E o \in outbox : Send(o) \/ SendFails(o)
           \/ \E p \in Replicas : Boot(p)
           \/ \E a \in DOMAIN AccountTable : Deactivate(a)
           \/ \E p \in Replicas : Crash(p)
           \/ UNCHANGED vars
  BY <1>3, <1>9 DEF Send, SendFails, Boot, HydrateEntries, HydratePostings, VerifyAtStartup,
                    Deactivate, Crash, calls, vars
<1> QED BY <1>8, <1>9 DEF Next, Serve

\* A request that has been answered is over: nothing moves it any more.
LEMMA DoneStays ==
    ASSUME DbInv, [Next]_vars, NEW q \in Requests, pc[q] = "done"
    PROVE  pc'[q] = "done" /\ at'[q] = at[q]
<1>1. ASSUME NEW r \in Requests, NEW step, pc[r] # "done",
             pc' = [pc EXCEPT ![r] = step], \A s \in Requests : s # r => at'[s] = at[s]
      PROVE  pc'[q] = "done" /\ at'[q] = at[q]
  BY <1>1 DEF DbInv, DbTypes
<1>2. ASSUME NEW r \in Requests, NEW p \in Replicas, Start(r, p)
      PROVE  pc'[q] = "done" /\ at'[q] = at[q]
  <2>1. /\ pc[r] # "done" /\ \E step : pc' = [pc EXCEPT ![r] = step]
        /\ \A s \in Requests : s # r => at'[s] = at[s]
    BY <1>2 DEF Start, Goto, Return, DbInv, DbTypes
  <2> QED BY <1>1, <2>1
<1>3. ASSUME NEW r \in Requests, Step(r) \/ Failure(r)
      PROVE  pc'[q] = "done" /\ at'[q] = at[q]
  <2>1. at' = at
    BY <1>3 DEF Step, Failure, CheckExisting, FetchExisting, CheckAccounts, ReadHead,
                InsertPosting, Unblock, ReadSequence, Commit, PoolTimesOut, UpdateCache,
                AuditAndReturn, HeadReadFails, CommitUnacknowledged, QueryFails
  <2>2. pc[r] # "done"
    BY <1>3 DEF Step, Failure, CheckExisting, FetchExisting, CheckAccounts, ReadHead,
                InsertPosting, Unblock, ReadSequence, Commit, PoolTimesOut, UpdateCache,
                AuditAndReturn, HeadReadFails, CommitUnacknowledged, QueryFails
  <2>3. \E step : pc' = [pc EXCEPT ![r] = step]
    BY <1>3 DEF Step, Failure, CheckExisting, FetchExisting, CheckAccounts, ReadHead,
                InsertPosting, Unblock, ReadSequence, Commit, PoolTimesOut, UpdateCache,
                AuditAndReturn, HeadReadFails, CommitUnacknowledged, QueryFails,
                Goto, Return
  <2> QED BY <1>1, <2>1, <2>2, <2>3
<1>4. CASE \/ \E o \in outbox : Send(o) \/ SendFails(o)
           \/ \E p \in Replicas : Boot(p)
           \/ \E a \in DOMAIN AccountTable : Deactivate(a)
           \/ UNCHANGED vars
  BY <1>4 DEF Send, SendFails, Boot, HydrateEntries, HydratePostings, VerifyAtStartup,
              Deactivate, calls, vars
<1>5. CASE \E p \in Replicas : Crash(p)
  BY <1>5 DEF Crash, InFlight, Finished
<1> QED BY <1>2, <1>3, <1>4, <1>5 DEF Next, Serve

\* The events that are added are true ones, and the others stay so.
LEMMA EventsKept ==
    ASSUME EventsTrue, Kept, audit_events' \in [Replicas -> Seq(Events)],
           \A e \in Emitted' \cup Recorded' :
               \/ e \in Emitted \cup Recorded
               \/ Stored(e.posting_id, e.entry_ids, e.hash_head)
    PROVE  EventsTrue'
<1>1. ASSUME NEW e \in Emitted' \cup Recorded'
      PROVE  Stored(e.posting_id, e.entry_ids, e.hash_head)'
  <2>1. Stored(e.posting_id, e.entry_ids, e.hash_head)
    BY DEF EventsTrue
  <2> QED BY <2>1, StaysStored
<1> QED BY <1>1 DEF EventsTrue

\* What is recorded of a request stays with it.
LEMMA RecordStays ==
    ASSUME DbInv, [Next]_vars, NEW id, NEW p,
           \E r \in Requests : Id(r) = id /\ Wrote(r) /\ pc[r] = "done" /\ at[r] = p
    PROVE  \E r \in Requests : Id(r) = id /\ Wrote(r)' /\ pc'[r] = "done" /\ at'[r] = p
<1>1. PICK r \in Requests : Id(r) = id /\ Wrote(r) /\ pc[r] = "done" /\ at[r] = p
  OBVIOUS
<1>2. Wrote(r)' /\ pc'[r] = "done" /\ at'[r] = p
  BY <1>1, DoneStays, NextSound DEF Sound
<1> QED BY <1>1, <1>2

\* Every event is true when it is recorded, once, and stays so (post_via_db,
\* AuditSink::emit).
LEMMA EventsStep ==
    ASSUME DbInv, EventsTrue, RecordedOnce, [Next]_vars
    PROVE  EventsTrue' /\ RecordedOnce'
<1>1. Kept
  BY NextSound DEF Sound
<1>2. ASSUME UNCHANGED audit_events PROVE RecordedOnce' /\ Recorded' = Recorded
  <2>1. ASSUME NEW p \in Replicas, NEW i \in DOMAIN audit_events'[p]
        PROVE  \E r \in Requests : /\ Id(r) = audit_events'[p][i].posting_id
                                   /\ Wrote(r)' /\ pc'[r] = "done" /\ at'[r] = p
    <3>1. PICK id : id = audit_events[p][i].posting_id
      OBVIOUS
    <3>2. \E r \in Requests : Id(r) = id /\ Wrote(r) /\ pc[r] = "done" /\ at[r] = p
      BY <1>2, <2>1, <3>1 DEF RecordedOnce
    <3>3. \E r \in Requests : Id(r) = id /\ Wrote(r)' /\ pc'[r] = "done" /\ at'[r] = p
      BY <3>2, RecordStays
    <3> QED BY <1>2, <3>1, <3>3
  <2>2. Recorded' = Recorded
    BY <1>2 DEF Recorded
  <2> QED BY <1>2, <2>1, <2>2 DEF RecordedOnce, Id
<1>3. ASSUME UNCHANGED audit PROVE EventsTrue' /\ RecordedOnce'
  <2>1. Emitted' = Emitted
    BY <1>3 DEF Emitted, audit
  <2> QED BY <1>1, <1>2, <1>3, <2>1, EventsKept DEF audit, EventsTrue
<1>4. ASSUME NEW o \in outbox, Send(o) \/ SendFails(o) PROVE EventsTrue' /\ RecordedOnce'
  <2>1. UNCHANGED audit_events
    BY <1>4 DEF Send, SendFails
  <2>2. Emitted' \subseteq Emitted
    BY <1>4 DEF Send, SendFails, Emitted
  <2> QED BY <1>1, <1>2, <2>1, <2>2, EventsKept DEF EventsTrue
<1>5. ASSUME NEW p \in Replicas, Crash(p) PROVE EventsTrue' /\ RecordedOnce'
  <2>1. /\ audit_events' = [audit_events EXCEPT ![p] = <<>>]
        /\ Emitted' \subseteq Emitted
    BY <1>5 DEF Crash, Emitted
  <2>2. /\ audit_events' \in [Replicas -> Seq(Events)]
        /\ DOMAIN audit_events'[p] = {}
        /\ \A q \in Replicas : q # p => audit_events'[q] = audit_events[q]
    BY <2>1, EmptySeq DEF EventsTrue
  <2>3. Recorded' \subseteq Recorded
    BY <2>2 DEF Recorded, ToSet
  <2>4. ASSUME NEW q \in Replicas, NEW i \in DOMAIN audit_events'[q]
        PROVE  \E r \in Requests : /\ Id(r) = audit_events'[q][i].posting_id
                                   /\ Wrote(r)' /\ pc'[r] = "done" /\ at'[r] = q
    <3>1. q # p /\ audit_events'[q] = audit_events[q]
      BY <2>2, <2>4
    <3>2. PICK id : id = audit_events[q][i].posting_id
      OBVIOUS
    <3>3. \E r \in Requests : Id(r) = id /\ Wrote(r) /\ pc[r] = "done" /\ at[r] = q
      BY <2>4, <3>1, <3>2 DEF RecordedOnce
    <3>4. \E r \in Requests : Id(r) = id /\ Wrote(r)' /\ pc'[r] = "done" /\ at'[r] = q
      BY <3>3, RecordStays
    <3> QED BY <3>1, <3>2, <3>4
  <2>5. RecordedOnce'
    BY <2>2, <2>4 DEF RecordedOnce, Id
  <2> QED BY <1>1, <2>1, <2>2, <2>3, <2>5, EventsKept
<1>6. ASSUME NEW r \in Requests, AuditAndReturn(r) PROVE EventsTrue' /\ RecordedOnce'
  <2>1. /\ pc[r] = "audit" /\ Wrote(r) /\ at[r] \in Replicas
        /\ pc' = [pc EXCEPT ![r] = "done"] /\ at' = at
        /\ audit_events' = [audit_events EXCEPT ![at[r]] = Append(@, EventOf(r))]
        /\ outbox' = outbox \cup {<<at[r], EventOf(r)>>} /\ topic' = topic
    BY <1>6 DEF AuditAndReturn, Return, Goto, Emit, DbInv, OnItsWay, Finished, process
  <2> DEFINE p == at[r]
             log == audit_events[p]
  <2>2. /\ EventOf(r) \in Events /\ EventOf(r).posting_id = Id(r)
        /\ Stored(EventOf(r).posting_id, EventOf(r).entry_ids, EventOf(r).hash_head)
    BY <2>1, OwnIsStored DEF EventOf, Events, Ids
  <2>3. PICK e : e = EventOf(r)
    OBVIOUS
  <2>4. log \in Seq(Events) /\ audit_events'[p] = Append(log, e)
        /\ \A q \in Replicas : q # p => audit_events'[q] = audit_events[q]
    BY <2>1, <2>3 DEF EventsTrue
  <2> HIDE DEF log
  <2>5. /\ DOMAIN Append(log, e) = 1..Len(log) + 1 /\ DOMAIN log = 1..Len(log)
        /\ Len(log) \in Nat
        /\ Append(log, e)[Len(log) + 1] = e
        /\ \A i \in 1..Len(log) : Append(log, e)[i] = log[i]
        /\ Append(log, e) \in Seq(Events)
    BY <2>2, <2>3, <2>4
  <2>6. audit_events' \in [Replicas -> Seq(Events)]
    BY <2>1, <2>3, <2>4, <2>5 DEF EventsTrue, log
  <2>7. ASSUME NEW q \in Replicas, NEW i \in DOMAIN audit_events'[q]
        PROVE  \/ q = p /\ i = Len(log) + 1 /\ audit_events'[q][i] = e
               \/ i \in DOMAIN audit_events[q] /\ audit_events'[q][i] = audit_events[q][i]
    <3>1. CASE q = p
      <4>1. audit_events'[q] = Append(log, e) /\ audit_events[q] = log
        BY <2>4, <3>1 DEF log
      <4>2. i \in 1..Len(log) + 1
        BY <2>5, <2>7, <4>1
      <4>3. CASE i = Len(log) + 1
        BY <2>5, <3>1, <4>1, <4>3
      <4>4. CASE i # Len(log) + 1
        BY <2>5, <4>1, <4>2, <4>4
      <4> QED BY <4>3, <4>4
    <3>2. CASE q # p
      BY <2>4, <2>7, <3>2
    <3> QED BY <3>1, <3>2
  <2> HIDE DEF p
  <2>8. \A x \in Emitted' \cup Recorded' : x \in Emitted \cup Recorded \/ x = e
    <3>1. \A x \in Emitted' : x \in Emitted \/ x = e
      BY <2>1, <2>3 DEF Emitted
    <3>2. \A q \in Replicas : \A i \in DOMAIN audit_events'[q] :
             audit_events'[q][i] \in Recorded \/ audit_events'[q][i] = e
      BY <2>7 DEF Recorded, ToSet
    <3> QED BY <3>1, <3>2 DEF Recorded, ToSet
  <2>9. EventsTrue'
    BY <1>1, <2>2, <2>3, <2>6, <2>8, EventsKept
  <2>10. \A i \in 1..Len(log) : log[i].posting_id # Id(r)
    <3>1. \A i \in 1..Len(log) : \E w \in Requests :
             Id(w) = log[i].posting_id /\ Wrote(w) /\ pc[w] = "done"
      BY <2>1, <2>5 DEF RecordedOnce, log, p
    <3> QED BY <2>1, <3>1, OneWriter
  <2>11. ASSUME NEW q \in Replicas, NEW i \in DOMAIN audit_events'[q]
         PROVE  \E w \in Requests : /\ Id(w) = audit_events'[q][i].posting_id
                                    /\ Wrote(w)' /\ pc'[w] = "done" /\ at'[w] = q
    <3>1. CASE q = p /\ audit_events'[q][i] = e
      <4>1. Wrote(r)'
        BY <2>1, NextSound DEF Sound
      <4>2. pc'[r] = "done" /\ at'[r] = p
        BY <2>1 DEF DbInv, DbTypes, p
      <4> QED BY <2>2, <2>3, <3>1, <4>1, <4>2
    <3>2. CASE i \in DOMAIN audit_events[q] /\ audit_events'[q][i] = audit_events[q][i]
      <4>1. PICK id : id = audit_events[q][i].posting_id
        OBVIOUS
      <4>2. \E w \in Requests : Id(w) = id /\ Wrote(w) /\ pc[w] = "done" /\ at[w] = q
        BY <3>2, <4>1 DEF RecordedOnce
      <4>3. \E w \in Requests : Id(w) = id /\ Wrote(w)' /\ pc'[w] = "done" /\ at'[w] = q
        BY <4>2, RecordStays
      <4> QED BY <3>2, <4>1, <4>3
    <3> QED BY <2>7, <2>11, <3>1, <3>2
  <2>12. ASSUME NEW q \in Replicas, NEW i \in DOMAIN audit_events'[q],
                NEW j \in DOMAIN audit_events'[q],
                audit_events'[q][i].posting_id = audit_events'[q][j].posting_id
         PROVE  i = j
    <3>1. \A k \in DOMAIN audit_events[q] : q = p => audit_events[q][k].posting_id # e.posting_id
      BY <2>2, <2>3, <2>5, <2>10 DEF log
    <3>2. \A k, l \in DOMAIN audit_events[q] :
             audit_events[q][k].posting_id = audit_events[q][l].posting_id => k = l
      BY DEF RecordedOnce
    <3>3. /\ \/ q = p /\ i = Len(log) + 1 /\ audit_events'[q][i] = e
             \/ i \in DOMAIN audit_events[q] /\ audit_events'[q][i] = audit_events[q][i]
          /\ \/ q = p /\ j = Len(log) + 1 /\ audit_events'[q][j] = e
             \/ j \in DOMAIN audit_events[q] /\ audit_events'[q][j] = audit_events[q][j]
      BY <2>7, <2>12
    <3> QED BY <2>12, <3>1, <3>2, <3>3
  <2> QED BY <2>9, <2>11, <2>12 DEF RecordedOnce, Id
<1>7. ASSUME NEW r \in Requests, \/ \E p \in Replicas : Start(r, p)
                                 \/ Step(r)
                                 \/ Failure(r)
      PROVE  EventsTrue' /\ RecordedOnce'
  <2>1. UNCHANGED audit \/ AuditAndReturn(r)
    BY <1>7 DEF Start, Step, Failure, CheckExisting, FetchExisting, CheckAccounts, ReadHead,
                InsertPosting, Unblock, ReadSequence, Commit, PoolTimesOut, UpdateCache,
                HeadReadFails, CommitUnacknowledged, QueryFails
  <2> QED BY <1>3, <1>6, <2>1
<1>8. CASE \/ \E p \in Replicas : Boot(p)
           \/ \E a \in DOMAIN AccountTable : Deactivate(a)
           \/ UNCHANGED vars
  BY <1>3, <1>8 DEF Boot, HydrateEntries, HydratePostings, VerifyAtStartup, Deactivate, vars
<1> QED BY <1>4, <1>5, <1>7, <1>8 DEF Next, Serve

-----------------------------------------------------------------------------
(* The invariant, and what follows from it.                                *)

ServiceSound == DbInv /\ ServiceInv

\* Every reachable state is one in which whatever was told is what is stored.
THEOREM ServiceInvHolds == Spec => []ServiceSound
<1>1. Init => ServiceSound
  <2> SUFFICES ASSUME Init PROVE ServiceInv
    BY InitInv DEF ServiceSound
  <2>1. Empty("none") \in Responses /\ Empty("none").kind \notin {"created", "replayed"}
    BY EmptySeq DEF Empty, Responses, Hashes, GENESIS_HASH
  <2>2. AnswersTrue
    BY <2>1 DEF Init, AnswersTrue
  <2>3. \A p \in Replicas : audit_events[p] = <<>>
    BY DEF Init
  <2>4. EventsTrue
    <3>1. Emitted = {} /\ Recorded = {}
      BY <2>3 DEF Init, Emitted, Recorded, ToSet
    <3> QED BY <3>1, EmptySeq DEF Init, EventsTrue
  <2>5. RecordedOnce
    BY <2>3 DEF RecordedOnce
  <2> QED BY <2>2, <2>4, <2>5 DEF ServiceInv
<1>2. ServiceSound /\ [Next]_vars => ServiceSound'
  BY NextSound, AnswersStep, EventsStep DEF ServiceSound, ServiceInv, Sound
<1> QED BY <1>1, <1>2, PTL DEF Spec

\* A caller with a result holds the stored one, for ever, whatever replica answered it,
\* by whatever path and after whatever failure, and one caller only is told that its
\* request created the posting (post_via_db).
THEOREM AnswersStayTrue == Spec => []AnswersDurable
<1>1. ServiceSound => AnswersDurable
  BY OneWriter DEF ServiceSound, ServiceInv, AnswersTrue, AnswersDurable, Stored
<1> QED BY <1>1, ServiceInvHolds, PTL

\* No audit event, recorded, on its way or sent, says anything but what is committed,
\* and over all replicas no posting is recorded twice (post_via_db, AuditSink::emit).
THEOREM AuditTellsTheTruth == Spec => []AuditIsTrue
<1>1. ServiceSound => AuditIsTrue
  <2> SUFFICES ASSUME ServiceSound PROVE AuditIsTrue
    OBVIOUS
  <2>1. \A e \in Emitted \cup Recorded :
           /\ e.posting_id \in DOMAIN postings
           /\ e.hash_head = postings[e.posting_id]
           /\ e.entry_ids = IdsInOrder(RowsOf(e.posting_id))
    BY DEF ServiceSound, ServiceInv, EventsTrue, Stored
  <2>2. ASSUME NEW p \in Replicas, NEW q \in Replicas,
               NEW i \in DOMAIN audit_events[p], NEW j \in DOMAIN audit_events[q],
               audit_events[p][i].posting_id = audit_events[q][j].posting_id
        PROVE  p = q /\ i = j
    <3>1. PICK r \in Requests : /\ Id(r) = audit_events[p][i].posting_id
                                /\ Wrote(r) /\ at[r] = p
      BY DEF ServiceSound, ServiceInv, RecordedOnce
    <3>2. PICK s \in Requests : /\ Id(s) = audit_events[q][j].posting_id
                                /\ Wrote(s) /\ at[s] = q
      BY DEF ServiceSound, ServiceInv, RecordedOnce
    <3>3. r = s
      BY <2>2, <3>1, <3>2, OneWriter DEF ServiceSound
    <3> QED BY <2>2, <3>1, <3>2, <3>3 DEF ServiceSound, ServiceInv, RecordedOnce
  <2> QED BY <2>1, <2>2 DEF AuditIsTrue
<1> QED BY <1>1, ServiceInvHolds, PTL

-----------------------------------------------------------------------------
(* The journal.                                                            *)

Book == [id \in Ids |-> Booker(id)]
Told == [r \in Requests |-> AnswerOf(r)]

\* An answer changes what the journal says of that caller only.
LEMMA OneAnswer ==
    ASSUME ServiceInv, NEW r \in Requests, NEW a, NEW told,
           resp' = [resp EXCEPT ![r] = a], told = AnswerOf(r)'
    PROVE  Told' = [Told EXCEPT ![r] = told]
<1>1. resp \in [Requests -> Responses]
  BY DEF ServiceInv, AnswersTrue
<1>2. \A q \in Requests : q # r => resp'[q] = resp[q]
  BY <1>1
<1>3. \A q \in Requests : q # r => AnswerOf(q)' = AnswerOf(q)
  BY <1>2 DEF AnswerOf
<1> QED BY <1>3 DEF Told

\* A commit books an id that was free, for the request that commits.
LEMMA CommitBooks ==
    ASSUME DbInv, NEW r \in Requests, pc[r] = "commit", Publish(r)
    PROVE  /\ PostError(Payload[r]) = "none" /\ Id(r) \in Ids
           /\ Book[Id(r)] = None
           /\ Book' = [Book EXCEPT ![Id(r)] = r]
<1>1. /\ PostError(Payload[r]) = "none" /\ Id(r) \in Ids
      /\ prev[r] \in Hashes /\ seq[r] \in Nat
      /\ Id(r) \notin DOMAIN postings
      /\ DOMAIN postings' = DOMAIN postings \cup {Id(r)}
      /\ RowsOf(Id(r))' = ToSet(Created(r))
      /\ Kept
  BY Published DEF Ids
<1>2. ASSUME NEW id \in Ids, id # Id(r) PROVE Booker(id)' = Booker(id)
  <2>1. CASE id \in DOMAIN postings
    <3>1. id \in DOMAIN postings' /\ RowsOf(id)' = RowsOf(id)
      BY <1>1, <2>1 DEF Kept
    <3>2. PICK rows : rows = RowsOf(id)
      OBVIOUS
    <3>3. /\ Booker(id) = (CHOOSE e \in rows : TRUE).entry_id[1]
          /\ Booker(id)' = (CHOOSE e \in rows : TRUE).entry_id[1]
      <4>1. RowsOf(id)' = rows
        BY <3>1, <3>2
      <4> QED BY <2>1, <3>1, <3>2, <4>1, Zenon DEF Booker
    <3> QED BY <3>3
  <2>2. CASE id \notin DOMAIN postings
    <3>1. id \notin DOMAIN postings'
      BY <1>1, <1>2, <2>2
    <3> QED BY <2>2, <3>1 DEF Booker
  <2> QED BY <2>1, <2>2
<1>3. Booker(Id(r))' = r
  <2> DEFINE n == Len(Payload[r].entries)
             first == CHOOSE e \in ToSet(Created(r)) : TRUE
  <2>1. /\ n \in Nat \ {0} /\ DOMAIN Created(r) = 1..n
        /\ \A k \in 1..n : Created(r)[k].entry_id = EntryId(r, k)
    BY <1>1, Built DEF IsEntry
  <2> HIDE DEF n
  <2>2. \E e : e \in ToSet(Created(r))
    BY <2>1 DEF ToSet
  <2>3. first \in ToSet(Created(r))
    BY <2>2
  <2> HIDE DEF first
  <2>4. first.entry_id[1] = r
    BY <2>1, <2>3 DEF ToSet, EntryId
  <2>5. Booker(Id(r))' = first.entry_id[1]
    BY <1>1, Zenon DEF Booker, Id, first
  <2> QED BY <2>4, <2>5
<1> QED BY <1>1, <1>2, <1>3 DEF Book, Booker

\* Every step of the service is a step of the journal or leaves it alone, for every set
\* of requests and replicas, every interleaving and every failure: an id is booked once,
\* by an admissible request, and every answer names the booked one (post_via_db).
THEOREM DbImplementsJournal == Spec => RefinesJournal
<1>1. Init => J!Init
  BY DEF Init, J!Init, J!Told, Booker, AnswerOf, Empty
<1>2. ServiceSound /\ [Next]_vars => [J!Next]_(J!vars)
  <2> SUFFICES ASSUME ServiceSound, [Next]_vars
               PROVE  \/ J!Next
                      \/ Book' = Book /\ Told' = Told
    BY DEF J!vars, Book, Told
  <2>1. DbInv /\ ServiceInv /\ Sound
    BY NextSound DEF ServiceSound
  <2>2. ASSUME UNCHANGED <<postings, entries>> PROVE Book' = Book
    BY <2>2 DEF Book, Booker, RowsOf
  <2>3. ASSUME UNCHANGED <<postings, entries, resp>> PROVE Book' = Book /\ Told' = Told
    BY <2>2, <2>3 DEF Told, AnswerOf
  <2>4. ASSUME NEW r \in Requests, NEW kind \in {"Validation", "Unbalanced"},
               resp' = [resp EXCEPT ![r] = Empty(kind)]
        PROVE  Told' = [Told EXCEPT ![r] = J!Told("refused", None)]
    <3>1. resp'[r] = Empty(kind)
      BY <2>1, <2>4 DEF ServiceInv, AnswersTrue
    <3>2. AnswerOf(r)' = J!Told("refused", None)
      BY <3>1 DEF AnswerOf, Empty, J!Told
    <3> QED BY <2>1, <2>4, <3>2, OneAnswer
  <2>5. ASSUME NEW r \in Requests, NEW kind \in {"Validation", "Unbalanced"},
               resp' = [resp EXCEPT ![r] = Empty(kind)], UNCHANGED db
        PROVE  J!Refuse(r)
    BY <2>2, <2>4, <2>5 DEF J!Refuse, Book, Told, db
  <2>6. ASSUME NEW r \in Requests, NEW w \in Requests, NEW a,
               Id(r) \in DOMAIN postings, Booker(Id(r)) = w, UNCHANGED db,
               resp' = [resp EXCEPT ![r] = a],
               a.kind \in {"created", "replayed"}, a.entry_ids[1] = <<w, 1>>
        PROVE  J!Answer(r)
    <3>1. resp'[r] = a
      BY <2>1, <2>6 DEF ServiceInv, AnswersTrue
    <3>2. AnswerOf(r)' = J!Told("booked", w)
      BY <2>6, <3>1 DEF AnswerOf, J!Told
    <3>3. Told' = [Told EXCEPT ![r] = J!Told("booked", w)]
      BY <2>1, <2>6, <3>2, OneAnswer
    <3>4. Id(r) \in Ids /\ Book[Id(r)] = w /\ w # None /\ Book' = Book
      BY <2>2, <2>6, RequestsAssumption DEF Book, Ids, db
    <3> QED BY <3>3, <3>4 DEF J!Answer, Book, Told
  <2>7. ASSUME NEW r \in Requests, FetchExisting(r) PROVE J!Answer(r)
    <3>1. /\ Id(r) \in DOMAIN postings /\ UNCHANGED db
          /\ resp' = [resp EXCEPT ![r] = StoredResult(r)]
      BY <2>1, <2>7 DEF FetchExisting, Return, DbInv, OnItsWay
    <3>2. PICK w \in Requests : /\ Booker(Id(r)) = w
                                /\ Stored(Id(r), NewIds(w), NewHead(w))
                                /\ NewIds(w)[1] = <<w, 1>>
      BY <2>1, <3>1, StoredByWriter
    <3>3. PICK a : a = StoredResult(r)
      OBVIOUS
    <3>4. a.kind = "replayed" /\ a.entry_ids[1] = <<w, 1>>
      BY <3>2, <3>3 DEF StoredResult, Stored
    <3> QED BY <2>6, <3>1, <3>2, <3>3, <3>4
  <2>8. ASSUME NEW r \in Requests, AuditAndReturn(r) PROVE J!Answer(r)
    <3> DEFINE answer == [kind |-> "created", entry_ids |-> NewIds(r), hash_head |-> NewHead(r)]
    <3>1. /\ Wrote(r) /\ UNCHANGED db
          /\ resp' = [resp EXCEPT ![r] = answer]
      BY <2>1, <2>8 DEF AuditAndReturn, Return, DbInv, OnItsWay
    <3>2. Id(r) \in DOMAIN postings /\ Booker(Id(r)) = r /\ NewIds(r)[1] = <<r, 1>>
      BY <2>1, <3>1, OneWriter, OwnIsStored DEF Wrote
    <3>3. PICK a : a = answer
      OBVIOUS
    <3> QED BY <2>6, <3>1, <3>2, <3>3
  <2>9. ASSUME NEW r \in Requests, Commit(r) \/ CommitUnacknowledged(r) PROVE J!Book(r)
    <3>1. pc[r] = "commit" /\ Publish(r)
      BY <2>9 DEF Commit, CommitUnacknowledged
    <3>2. /\ PostError(Payload[r]) = "none" /\ Id(r) \in Ids
          /\ Book[Id(r)] = None
          /\ Book' = [Book EXCEPT ![Id(r)] = r]
      BY <2>1, <3>1, CommitBooks
    <3>3. Told' = Told \/ Told' = [Told EXCEPT ![r] = J!Told("refused", None)]
      <4>1. CASE Commit(r)
        BY <4>1 DEF Commit, Told, AnswerOf
      <4>2. CASE CommitUnacknowledged(r)
        BY <2>4, <4>2 DEF CommitUnacknowledged, Return
      <4> QED BY <2>9, <4>1, <4>2
    <3> QED BY <3>2, <3>3 DEF J!Book, Book, Told
  <2>10. ASSUME NEW r \in Requests, \/ \E p \in Replicas : Start(r, p)
                                    \/ Step(r)
                                    \/ Failure(r)
         PROVE  J!Next \/ (Book' = Book /\ Told' = Told)
    <3>1. CASE \E p \in Replicas : Start(r, p)
      <4>1. PostError(Payload[r]) \in {"none", "Validation", "Unbalanced"}
        BY DEF PostError
      <4> QED BY <2>3, <2>5, <3>1, <4>1 DEF Start, Return, J!Next, db
    <3>2. CASE CheckExisting(r) \/ ReadHead(r) \/ InsertPosting(r) \/ ReadSequence(r)
               \/ UpdateCache(r) \/ HeadReadFails(r)
      BY <2>3, <3>2 DEF CheckExisting, ReadHead, InsertPosting, ReadSequence, UpdateCache,
                        HeadReadFails, db
    <3>3. CASE CheckAccounts(r) \/ Unblock(r) \/ PoolTimesOut(r) \/ QueryFails(r)
      BY <2>3, <2>5, <3>3 DEF CheckAccounts, Unblock, PoolTimesOut, QueryFails, Return,
                              J!Next, db
    <3> QED BY <2>7, <2>8, <2>9, <2>10, <3>1, <3>2, <3>3 DEF Step, Failure, J!Next
  <2>11. CASE \/ \E o \in outbox : Send(o) \/ SendFails(o)
              \/ \E p \in Replicas : Boot(p)
              \/ \E a \in DOMAIN AccountTable : Deactivate(a)
              \/ \E p \in Replicas : Crash(p)
              \/ UNCHANGED vars
    BY <2>3, <2>11 DEF Send, SendFails, Boot, HydrateEntries, HydratePostings,
                       VerifyAtStartup, Deactivate, Crash, calls, db, vars
  <2> QED BY <2>10, <2>11 DEF Next, Serve
<1> QED BY <1>1, <1>2, ServiceInvHolds, PTL DEF Spec, RefinesJournal, J!Spec

\* So the journal's theorem holds of the database too: a caller that has been told its
\* posting is booked was told of the one that holds the id for ever, and that posting
\* passed validation (post_via_db).
COROLLARY DbKeepsItsWord == Spec => []J!AnswerIsBooked
<1>1. J!JournalConstants
  BY RequestsAssumption DEF J!JournalConstants, Ids
<1>2. J!Spec => [](J!TypeOK /\ J!AnswerIsBooked)
  BY <1>1, J!JournalKeepsItsWord
<1> QED BY <1>2, DbImplementsJournal, PTL DEF RefinesJournal
=============================================================================
